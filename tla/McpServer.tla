------------------------------ MODULE McpServer ------------------------------
(***************************************************************************)
(* The MCP server (mcp.py, SPEC S42, S44), which drives a session client   *)
(* for an AI tool, with the client and the share it is a client of.        *)
(*                                                                         *)
(* Each tool call runs on a thread of its own, and reads and writes what   *)
(* the server remembers of the session (_Shared: up to where it handed     *)
(* lines back, the health last told) without a lock.  A session is joined  *)
(* when a call needs it and it is not; a call under way on a connection    *)
(* that is replaced ends on its own, and touches nothing of the new one.   *)
(*                                                                         *)
(* uses is what the agent does in a behaviour: the tools it calls, and     *)
(* whether the person and the network interfere.  Which lines match a      *)
(* pattern is left open.                                                   *)
(***************************************************************************)
EXTENDS SessionClient

CONSTANT
  Uses   \* bound: the sets of tools and events a behaviour may have

Checkers == {"receiver", "watcher"}   \* who calls _check(): on_device, and the _watch() thread
Levels   == {"down", "degraded", "ok"}

VARIABLES
  uses,       \* what happens in this behaviour, a member of Uses
  input,      \* stdin: open, closed
  cursor,     \* _Shared.cursor: read_new handed back lines up to here
  mark,       \* _Shared.mark: matched or handed back up to here
  eventsRead, \* _Shared.events: read_events handed back events up to here
  eventMark,  \* _Shared.event_mark: wait_for_event matched, or they were handed back, up to here
  call,       \* what each thread does: its step, and what it has read and found so far
  level,      \* _Shared.level: the verdict last told
  check,      \* each caller of _check(): the verdict it has found
  overlapped, \* ghost: two calls on the stream have run at once on this connection
  handed,     \* ghost: the lines handed back on this connection
  eventsHanded, \* ghost: and the events
  accounted   \* ghost: those read_new handed back, or counted as dropped

lineMarks  == <<cursor, mark, handed, accounted>>
eventMarks == <<eventsRead, eventMark, eventsHanded>>
marks == <<lineMarks, eventMarks, level, overlapped>>
mcp   == <<uses, input, marks, call, check>>
vars  == <<server, client, mcp>>

Idle == [step |-> "idle", on |-> 0, from |-> 0, to |-> 0, found |-> {}, dropped |-> {}]
Reading == {"lines", "reread", "set", "wait", "hit", "prompt", "events", "setevents", "expect", "event"}

McpTypeOK ==
  /\ uses \in Uses
  /\ input \in {"open", "closed"}
  /\ cursor \in Nat /\ mark \in Nat
  /\ eventsRead \in Nat /\ eventMark \in Nat /\ eventsHanded \subseteq Nat
  /\ call \in [Callers -> [step : Reading \union {"idle"}, on : 0..MaxConns, from : Nat, to : Nat,
                           found : SUBSET Nat, dropped : SUBSET Nat]]
  /\ level \in Levels
  /\ check \in [Checkers -> Levels \union {"none"}]
  /\ overlapped \in BOOLEAN
  /\ handed \subseteq Nat /\ accounted \subseteq Nat

TypeOK == ShareTypeOK /\ ClientTypeOK /\ McpTypeOK

Init ==
  /\ ShareInit /\ ClientInit
  /\ uses \in Uses
  /\ input = "open"
  /\ cursor = 0 /\ mark = 0 /\ eventsRead = 0 /\ eventMark = 0
  /\ call  = [t \in Callers |-> Idle]
  /\ level = "down"
  /\ check = [k \in Checkers |-> "none"]
  /\ overlapped = FALSE /\ handed = {} /\ accounted = {} /\ eventsHanded = {}

-----------------------------------------------------------------------------
(* The verdict on a session (health.py) *)

\* assess(): whether a device that came back has settled is a matter of time, and left open
\* as a state of its own.
Assess(shared, state) ==
  CASE ~shared -> "down"
    [] shared /\ state \in {"waiting", "error", "reconnecting", "disconnected"} -> "down"
    [] shared /\ state \in {"connecting", "settling"} -> "degraded"
    [] OTHER -> "ok"

Verdict == Assess(connected, known)

Looking(k) == check[k] # "none"

\* Bug: the verdict is looked at only while there is a link.
LooksWhileConnected(k) ==
  /\ ~Looking(k)
  /\ conn # 0 /\ input = "open" /\ connected
  /\ Verdict # level
  /\ check' = [check EXCEPT ![k] = Verdict]
  /\ UNCHANGED <<server, client, uses, input, marks, call>>

\* _check(): the verdict is found, compared and told; on_device is called on the receive thread.
Look(k) ==
  /\ ~Looking(k)
  /\ conn # 0 /\ input = "open"
  /\ Verdict # level
  /\ check' = [check EXCEPT ![k] = Verdict]
  /\ UNCHANGED <<server, client, uses, input, marks, call>>

\* By then another check may have told the same, or something newer.
SetLevel(k) ==
  /\ Looking(k)
  /\ level' = check[k]
  /\ check' = [check EXCEPT ![k] = "none"]
  /\ UNCHANGED <<server, client, uses, input, lineMarks, eventMarks, overlapped, call>>

-----------------------------------------------------------------------------
(* Joining *)

Live(t) == call[t].on = conn

\* _shared(): the session is joined if it is not, under _sessions_lock, with new cursors.  The
\* verdict is that of the moment, and nobody is told of it.
Join(history) ==
  /\ input = "open"
  /\ ~connected
  /\ history > 0 => "line" \in uses
  /\ Attach(history)
  /\ cursor' = 0 /\ mark' = 0 /\ eventsRead' = 0 /\ eventMark' = 0
  /\ overlapped' = FALSE /\ handed' = {} /\ accounted' = {} /\ eventsHanded' = {}
  /\ level' = Assess(TRUE, device)
  /\ check' = [k \in Checkers |-> "none"]
  /\ UNCHANGED <<uses, input, call>>

\* A call on a connection that was replaced since: what it does, it does to the old object.
ReplacedCallEnds(t) ==
  /\ call[t].step # "idle" /\ ~Live(t)
  /\ call' = [call EXCEPT ![t] = Idle]
  /\ UNCHANGED <<server, client, uses, input, marks, check>>

-----------------------------------------------------------------------------
(* The tools that read the stream *)

Busy == {t \in Callers : call[t].step # "idle"}

\* Whether the agent calls this tool: one "alone" makes a call when the one before has returned,
\* one "once" asks for one thing only.
Calls(tool) ==
  /\ tool \in uses /\ input = "open" /\ connected
  /\ "alone" \in uses => Busy = {} /\ \A t \in Callers : asking[t] = "no"
  /\ "once" \in uses => asked = 0

Begin(t, tool, step, from) ==
  /\ Calls(tool)
  /\ call[t].step = "idle"
  /\ call' = [call EXCEPT ![t] = [Idle EXCEPT !.step = step, !.on = conn, !.from = from]]
  /\ overlapped' = (overlapped \/ \E other \in Busy : Live(other))
  /\ UNCHANGED <<server, client, uses, input, lineMarks, eventMarks, level, check>>

\* Only the thread moves on.
Goes(t, from, to) ==
  /\ call[t].step = from /\ Live(t)
  /\ call' = [call EXCEPT ![t] = to]
  /\ UNCHANGED <<server, client, uses, input, check>>

\* _read_new(): the cursor is read before the client is asked.
BeginReadNew(t) == Begin(t, "read_new", "lines", cursor)

\* The first half of read(), under the client's lock.
ReadLines(t) ==
  LET from == call[t].from
      new  == After(from)
  IN /\ Goes(t, "lines",
             [call[t] EXCEPT !.found = new,
                             !.dropped = from + 1 .. from + Dropped(from),
                             !.to = IF new = {} THEN from ELSE Max(new),
                             !.step = IF new = {} THEN "reread" ELSE "set"])
     /\ UNCHANGED marks

\* The second, when there was nothing: the newest line there is by now.
RereadCursor(t) ==
  /\ Goes(t, "reread", [call[t] EXCEPT !.to = IF lastN > @ THEN lastN ELSE @, !.step = "set"])
  /\ UNCHANGED marks

Later(a, b) == IF a > b THEN a ELSE b

\* What read_new hands back is not waited for any more.
SetCursor(t) ==
  /\ Goes(t, "set", Idle)
  /\ cursor' = call[t].to
  /\ mark'   = Later(mark, call[t].to)
  /\ handed'    = handed \union call[t].found
  /\ accounted' = accounted \union call[t].found \union call[t].dropped
  /\ UNCHANGED <<eventMarks, level, overlapped>>

\* _wait_for(): from what has not been handed back yet.
BeginWaitFor(t) == Begin(t, "wait_for", "wait", Later(mark, cursor))

\* _send_and_wait(): from what there was when it was sent.
BeginSendAndWait(t) == Begin(t, "send", "wait", lastN)

\* expect(): a line kept, and later than that.
HitLine(t) ==
  /\ \E n \in After(call[t].from) :
       Goes(t, "wait", [call[t] EXCEPT !.found = {n}, !.to = n, !.step = "hit"])
  /\ UNCHANGED marks

\* Or the line still being written.
HitPartial(t) ==
  /\ partial # 0
  /\ Goes(t, "wait", [call[t] EXCEPT !.step = "prompt"])
  /\ UNCHANGED marks

\* Bug: a match is not remembered.
ForgetsTheMatch(t) ==
  /\ Goes(t, "hit", Idle)
  /\ handed' = handed \union call[t].found
  /\ UNCHANGED <<cursor, mark, eventMarks, level, overlapped, accounted>>

MarkHit(t) ==
  /\ Goes(t, "hit", Idle)
  /\ mark'   = Later(mark, call[t].to)
  /\ handed' = handed \union call[t].found
  /\ UNCHANGED <<cursor, eventMarks, level, overlapped, accounted>>

\* A match of the partial line moves the mark past the lines there are by now.
MarkPartial(t) ==
  /\ Goes(t, "prompt", Idle)
  /\ mark' = Later(mark, lastN)
  /\ UNCHANGED <<cursor, eventMarks, level, overlapped, handed, accounted>>

\* The time is up, or the link is gone.
Miss(t) ==
  /\ Goes(t, "wait", Idle) \/ Goes(t, "expect", Idle)
  /\ UNCHANGED marks

\* _read_events(), and events(): those kept that are later than what was read before.
BeginReadEvents(t) == Begin(t, "read_events", "events", eventsRead)

EventsAfter(n) == {e \in ToSet(events) : e > n}

TakeEvents(t) ==
  LET new == EventsAfter(call[t].from) IN
  /\ Goes(t, "events", IF new = {} THEN Idle
                       ELSE [call[t] EXCEPT !.found = new, !.to = Last(events), !.step = "setevents"])
  /\ UNCHANGED marks

SetEventsRead(t) ==
  /\ Goes(t, "setevents", Idle)
  /\ eventsRead' = call[t].to
  /\ eventMark'  = Later(eventMark, call[t].to)
  /\ eventsHanded' = eventsHanded \union call[t].found
  /\ UNCHANGED <<lineMarks, level, overlapped>>

\* _wait_for_event(), and wait_event(): the first that is later, or the first of one watch.
BeginWaitForEvent(t) == Begin(t, "wait_for_event", "expect", Later(eventsRead, eventMark))

HearEvent(t) ==
  /\ \E e \in EventsAfter(call[t].from) :
       Goes(t, "expect", [call[t] EXCEPT !.found = {e}, !.to = e, !.step = "event"])
  /\ UNCHANGED marks

\* The mark moves past the events of other watches, too.
MarkEvent(t) ==
  /\ Goes(t, "event", Idle)
  /\ eventMark' = Later(eventMark, call[t].to)
  /\ eventsHanded' = eventsHanded \union call[t].found
  /\ UNCHANGED <<lineMarks, eventsRead, level, overlapped>>

CallStep(t) ==
  \/ ReadLines(t) \/ RereadCursor(t) \/ SetCursor(t)
  \/ HitLine(t) \/ HitPartial(t) \/ MarkHit(t) \/ MarkPartial(t) \/ Miss(t)
  \/ TakeEvents(t) \/ SetEventsRead(t) \/ HearEvent(t) \/ MarkEvent(t)
  \/ ReplacedCallEnds(t)

-----------------------------------------------------------------------------
(* The tools that ask *)

Ask(t) ==
  /\ \/ Calls("ask") /\ Drain(t)
     \/ \E is \in RequestKinds \intersect uses, target \in Requests :
          (is # "watch_remove" => target = 1) /\ SendRequest(t, is, target)
     \/ TakeReply(t) \/ RequestTimesOut(t) \/ TakeDecision(t) \/ StopWaiting(t)
  /\ UNCHANGED mcp

-----------------------------------------------------------------------------
(* serve() *)

\* No more calls; those under way are waited for.
InputEnds ==
  /\ "end" \in uses /\ input = "open"
  /\ input' = "closed"
  /\ UNCHANGED <<server, client, uses, marks, call, check>>

Close ==
  /\ input = "closed" /\ Busy = {}
  /\ \A t \in Callers : asking[t] = "no"
  /\ CloseClient
  /\ UNCHANGED mcp

-----------------------------------------------------------------------------
(* Everything *)

\* The receive thread takes no message while it is in on_device.
ReceiverStep ==
  /\ ~Looking("receiver")
  /\ \/ ReceiveLine(\E t \in Callers : call[t].step = "reread" /\ Live(t))
     \/ EndOfChunk \/ ReceivePrompt \/ ReceiveEvent \/ ReceivePong
     \/ ReceiveWatchAnswer \/ ReceiveProposal \/ SeesTheEnd
  /\ UNCHANGED mcp

\* on_device, when its verdict differs from the one last told.
ReceiverChecks ==
  /\ ~Looking("receiver")
  /\ ReceiveStatus
  /\ LET verdict == Assess(connected, known') IN
     check' = [check EXCEPT !["receiver"] = IF verdict = level THEN "none" ELSE verdict]
  /\ UNCHANGED <<uses, input, marks, call>>

World ==
  /\ \/ \E kind \in {"line", "prompt", "trigger"} \intersect uses : DeviceSays(kind)
     \/ "status" \in uses /\ \E state \in States : StatusChanges(state)
     \/ \E c \in Conns : ServerHandles(c)
     \/ \E c \in Conns : "silent" \in uses /\ LinkGoesSilent(c)
     \/ \E p \in Requests : Decide(p)
     \/ "stop" \in uses /\ StopShare
     \/ StopRemovesRules
  /\ UNCHANGED <<client, mcp>>

BeatStep == (("beat" \in uses /\ Beat) \/ BeatGivesUp) /\ UNCHANGED mcp

Next ==
  \/ World
  \/ ReceiverStep \/ ReceiverChecks \/ BeatStep
  \/ \E history \in 0..MaxReplay : Join(history)
  \/ \E t \in Callers : BeginReadNew(t) \/ BeginWaitFor(t) \/ BeginSendAndWait(t)
                          \/ BeginReadEvents(t) \/ BeginWaitForEvent(t)
  \/ \E t \in Callers : CallStep(t) \/ Ask(t)
  \/ Look("watcher") \/ \E k \in Checkers : SetLevel(k)
  \/ InputEnds \/ Close

\* The client's receive and heartbeat threads, and the watcher, run on.  Nothing makes an agent
\* call, a person decide, a device speak or a server answer.
Fairness ==
  /\ WF_vars(ReceiverStep) /\ WF_vars(ReceiverChecks) /\ WF_vars(BeatStep)
  /\ WF_vars(Look("watcher")) /\ \A k \in Checkers : WF_vars(SetLevel(k))

Spec == Init /\ [][Next]_vars /\ Fairness

-----------------------------------------------------------------------------
(* What an agent may rely on *)

\* S42: wait_for waits for "what this server has not handed back yet", and so does
\* wait_for_event; read_events hands back each event once - as long as no two calls on the stream
\* overlap: they write the marks without a lock (mcp.py:449, 483, 614, 628).
HandedBackOnce ==
  \A t \in Callers :
    Live(t) /\ ~overlapped =>
      /\ (call[t].step = "hit") => call[t].found \intersect handed = {}
      /\ (call[t].step = "event") => call[t].found \intersect eventsHanded = {}
      /\ (call[t].step = "setevents") => \A e \in call[t].found : e > eventsRead

\* S41: "a reader that keeps its cursor misses nothing it is told about": every line up to the
\* cursor was handed back or counted, but for those that came while a read that found nothing
\* was about to take the lock again (client.py:206) - when no two calls overlap.
OnlyTheGapIsMissed ==
  ~overlapped => 1..cursor \subseteq accounted \union unread

\* S44: a verdict that stays is the one told in the end, whichever of the two checks told
\* something else meanwhile.
VerdictIsTold ==
  \A v \in Levels :
    <>[](conn # 0 /\ input = "open" /\ Verdict = v) => <>[](level = v)

\* S43: a link that is closed or half open does not go unnoticed: the client sees the end of
\* the stream, or three heartbeats without an answer.
LostLinkIsNoticed ==
  \A c \in Conns :
    (conn = c /\ link[c] \in {"closed", "silent"} /\ "beat" \in uses) ~> (conn # c \/ ~connected)
=============================================================================
