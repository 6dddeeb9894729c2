----------------------------- MODULE UartSession -----------------------------
(***************************************************************************)
(* The lifecycle of one session (core/session.py): the manager thread that *)
(* opens the source, reads it, and reopens it after a drop, and the        *)
(* threads that call stop().  A session ends exactly once, whoever ends    *)
(* it: the manager giving up, or one of the callers of stop().             *)
(*                                                                         *)
(* The source is external: open() succeeds, is refused, or fails with a    *)
(* reason; read() returns data, nothing, or an error.  Received bytes are  *)
(* abstracted to the connection (1, 2, ...) they came from, so a line is   *)
(* the set of the connections its bytes were received on.                  *)
(*                                                                         *)
(* A definition marked "Bug" is not part of the model: it is a plausible   *)
(* wrong form of the definition that follows it.                           *)
(***************************************************************************)
EXTENDS Naturals, Sequences, FiniteSets

CONSTANTS
  Manager,        \* the connection manager thread ("uart-conn")
  Stoppers,       \* the threads that call stop(), each once
  Reasons,        \* what a failed open() or read() says: str(exc)
  NoReason,       \* None: no error
  MaxAttempts     \* bound: calls of open() (the code retries forever)

ASSUME ManagerAssumption  == Manager \notin Stoppers
ASSUME ReasonAssumption   == NoReason \notin Reasons
ASSUME AttemptsAssumption == MaxAttempts \in Nat

VARIABLES
  autoReconnect,  \* auto_reconnect: given to the constructor, never changed
  running,     \* _running
  stopping,    \* _stop is set
  connected,   \* _connected
  mgr,         \* where the manager thread is
  stopper,     \* where each caller of stop() is
  sourceOpen,  \* the source is open
  attempts,    \* open() calls so far
  conn,        \* open() calls that succeeded: the current connection
  lastWait,    \* last_wait of _run_manager
  refused,     \* refused of _run_manager
  health,      \* _device_state, _device_error, _reconnects, _ever_connected
  announcing,  \* what each thread has recorded in health and not yet emitted
  statuses,    \* the STATUS events emitted, in order
  pending,     \* the connections whose bytes make the partial RX line
  lines        \* the RX LINE events emitted

source    == <<sourceOpen, attempts, conn>>
manager   == <<mgr, lastWait, refused>>
published == <<health, announcing, statuses>>
received  == <<pending, lines>>
vars == <<autoReconnect, running, stopping, connected, stopper, source, manager, published, received>>

Threads == Stoppers \union {Manager}

StatusName == {"waiting", "connected", "error", "refused", "reconnecting", "disconnected"}
Error      == Reasons \union {NoReason}

Status == [state: StatusName, error: Error]
Health == [state: StatusName \union {"connecting"}, error: Error, reconnects: Nat, ever: BOOLEAN]

\* "refused" is the error status that carries refused: True.
Nothing == [state |-> "nothing", error |-> NoReason]

Say(state)              == [state |-> state, error |-> NoReason]
SayWhy(state, reason)   == [state |-> state, error |-> reason]

Free(t) == announcing[t] = Nothing

(***************************************************************************)
(* _publish_status: the health changes under _health_lock; the event goes  *)
(* out afterwards, with no lock held (EmitStatus).                         *)
(***************************************************************************)
\* Bug: counts the first connection as a reconnect, and keeps the old error.
CountsTheFirstConnection(status) ==
  [health EXCEPT !.state = status.state,
                 !.reconnects = IF status.state = "connected" THEN @ + 1 ELSE @,
                 !.error = IF status.error # NoReason THEN status.error ELSE @]

\* Bug: the error recorded is the whole status, not its reason.
RecordsTheWholeStatus(status) ==
  [health EXCEPT !.state = status.state,
                 !.error = IF status.error # NoReason THEN status ELSE @]

HealthAfter(status) ==
  IF status.state = "connected"
  THEN [state      |-> "connected",
        error      |-> NoReason,
        reconnects |-> health.reconnects + (IF health.ever THEN 1 ELSE 0),
        ever       |-> TRUE]
  ELSE [health EXCEPT !.state = status.state,
                      !.error = IF status.error # NoReason THEN status.error ELSE @]

PublishStatus(t, status) ==
  /\ health'     = HealthAfter(status)
  /\ announcing' = [announcing EXCEPT ![t] = status]
  /\ UNCHANGED statuses

EmitStatus(t) ==
  /\ ~Free(t)
  /\ statuses'   = Append(statuses, announcing[t])
  /\ announcing' = [announcing EXCEPT ![t] = Nothing]
  /\ UNCHANGED <<autoReconnect, running, stopping, connected, stopper, source, manager, health, received>>

Init ==
  /\ autoReconnect \in BOOLEAN
  /\ running = FALSE /\ stopping = FALSE /\ connected = FALSE
  /\ mgr = "new" /\ lastWait = NoReason /\ refused = FALSE
  /\ stopper = [s \in Stoppers |-> "idle"]
  /\ sourceOpen = FALSE /\ attempts = 0 /\ conn = 0
  /\ health = [state |-> "connecting", error |-> NoReason, reconnects |-> 0, ever |-> FALSE]
  /\ announcing = [t \in Threads |-> Nothing]
  /\ statuses = <<>>
  /\ pending = {} /\ lines = {}

-----------------------------------------------------------------------------
(* start() *)

Start ==
  /\ mgr = "new"
  /\ running' = TRUE
  /\ stopping' = FALSE
  /\ mgr' = "deciding"
  /\ UNCHANGED <<autoReconnect, connected, stopper, source, lastWait, refused, published, received>>

-----------------------------------------------------------------------------
(* _run_manager *)

\* The thread is at `here`, and the event it published before has gone out.
ManagerAt(here) == mgr = here /\ Free(Manager)

\* while not self._stop.is_set(): the call of open() begins.
BeginOpen ==
  /\ ManagerAt("deciding")
  /\ IF stopping
     THEN mgr' = "finishing" /\ UNCHANGED attempts
     ELSE /\ attempts < MaxAttempts
          /\ attempts' = attempts + 1
          /\ mgr' = "opening"
  /\ UNCHANGED <<autoReconnect, running, stopping, connected, stopper, sourceOpen, conn,
                 lastWait, refused, published, received>>

\* Bug: a successful open leaves last_wait set.
ForgetsToEndTheWait ==
  /\ ManagerAt("opening")
  /\ sourceOpen' = TRUE
  /\ conn' = conn + 1
  /\ connected' = TRUE
  /\ PublishStatus(Manager, Say("connected"))
  /\ mgr' = "reading"
  /\ UNCHANGED <<autoReconnect, running, stopping, stopper, attempts, lastWait, refused, received>>

OpenSucceeds ==
  /\ ManagerAt("opening")
  /\ sourceOpen' = TRUE
  /\ conn' = conn + 1
  /\ lastWait' = NoReason
  /\ connected' = TRUE
  /\ PublishStatus(Manager, Say("connected"))
  /\ mgr' = "reading"
  /\ UNCHANGED <<autoReconnect, running, stopping, stopper, attempts, refused, received>>

OpenRefused(reason) ==
  /\ ManagerAt("opening")
  /\ PublishStatus(Manager, SayWhy("refused", reason))
  /\ refused' = TRUE
  /\ mgr' = "finishing"
  /\ UNCHANGED <<autoReconnect, running, stopping, connected, stopper, source, lastWait, received>>

\* Bug: every failed attempt is announced.
AnnouncesEveryFailure(reason) ==
  /\ ManagerAt("opening")
  /\ lastWait' = reason
  /\ PublishStatus(Manager, SayWhy("waiting", reason))
  /\ mgr' = IF autoReconnect THEN "pausing" ELSE "finishing"
  /\ UNCHANGED <<autoReconnect, running, stopping, connected, stopper, source, refused, received>>

\* Any other failure is retried; the same reason is not announced twice in a row.
OpenFails(reason) ==
  /\ ManagerAt("opening")
  /\ IF reason = lastWait
     THEN UNCHANGED <<lastWait, published>>
     ELSE lastWait' = reason /\ PublishStatus(Manager, SayWhy("waiting", reason))
  /\ mgr' = IF autoReconnect THEN "pausing" ELSE "finishing"
  /\ UNCHANGED <<autoReconnect, running, stopping, connected, stopper, source, refused, received>>

\* _stop.wait(reconnect_interval): over at the interval, or as soon as stop() asks.
Pause ==
  /\ ManagerAt("pausing")
  /\ mgr' = "deciding"
  /\ UNCHANGED <<autoReconnect, running, stopping, connected, stopper, source, lastWait, refused,
                 published, received>>

\* _read_loop's test; a read() already begun still returns what it has.
BeginRead ==
  /\ ManagerAt("reading")
  /\ mgr' = IF stopping THEN "dropping" ELSE "inRead"
  /\ UNCHANGED <<autoReconnect, running, stopping, connected, stopper, source, lastWait, refused,
                 published, received>>

\* _on_rx: `ends` says the chunk holds a newline, `tail` that bytes follow the last one.
ReadData(ends, tail) ==
  /\ ManagerAt("inRead")
  /\ ends \/ tail
  /\ lines'   = IF ends THEN lines \union {pending \union {conn}} ELSE lines
  /\ pending' = (IF ends THEN {} ELSE pending) \union (IF tail THEN {conn} ELSE {})
  /\ mgr' = "reading"
  /\ UNCHANGED <<autoReconnect, running, stopping, connected, stopper, source, lastWait, refused, published>>

\* _flush_pending: the partial line goes out as a line of its own.
FlushPending ==
  /\ lines'   = IF pending = {} THEN lines ELSE lines \union {pending}
  /\ pending' = {}

\* read() timed out; a partial line idle for _IDLE_FLUSH is flushed.
ReadNothing ==
  /\ ManagerAt("inRead")
  /\ FlushPending \/ UNCHANGED received
  /\ mgr' = "reading"
  /\ UNCHANGED <<autoReconnect, running, stopping, connected, stopper, source, lastWait, refused, published>>

ReadFails(reason) ==
  /\ ManagerAt("inRead")
  /\ PublishStatus(Manager, SayWhy("error", reason))
  /\ mgr' = "dropping"
  /\ UNCHANGED <<autoReconnect, running, stopping, connected, stopper, source, lastWait, refused, received>>

\* Bug: the partial line is kept across the drop.
LeavesWithoutFlush ==
  /\ ManagerAt("dropping")
  /\ connected' = FALSE
  /\ mgr' = "closing"
  /\ UNCHANGED <<autoReconnect, running, stopping, stopper, source, lastWait, refused, published, received>>

LeaveReadLoop ==
  /\ ManagerAt("dropping")
  /\ connected' = FALSE
  /\ FlushPending
  /\ mgr' = "closing"
  /\ UNCHANGED <<autoReconnect, running, stopping, stopper, source, lastWait, refused, published>>

\* source.close(), which may raise but leaves the source closed.
CloseSource ==
  /\ ManagerAt("closing")
  /\ sourceOpen' = FALSE
  /\ mgr' = "closed"
  /\ UNCHANGED <<autoReconnect, running, stopping, connected, stopper, attempts, conn, lastWait, refused,
                 published, received>>

AfterClose ==
  /\ ManagerAt("closed")
  /\ IF stopping \/ ~autoReconnect
     THEN mgr' = "finishing" /\ UNCHANGED published
     ELSE mgr' = "pausing" /\ PublishStatus(Manager, Say("reconnecting"))
  /\ UNCHANGED <<autoReconnect, running, stopping, connected, stopper, source, lastWait, refused, received>>

\* Bug: giving up is not announced.
FinishesSilently ==
  /\ ManagerAt("finishing")
  /\ connected' = FALSE
  /\ running' = FALSE
  /\ UNCHANGED published
  /\ mgr' = "done"
  /\ UNCHANGED <<autoReconnect, stopping, stopper, source, lastWait, refused, received>>

\* Bug: the manager announces the end whoever ended the session.
FinishesWithoutEnd ==
  /\ ManagerAt("finishing")
  /\ connected' = FALSE
  /\ running' = FALSE
  /\ PublishStatus(Manager, Say("disconnected"))
  /\ mgr' = "done"
  /\ UNCHANGED <<autoReconnect, stopping, stopper, source, lastWait, refused, received>>

\* The end of the loop: _end(), and the announcement by whoever it makes the first.
Finish ==
  /\ ManagerAt("finishing")
  /\ connected' = FALSE
  /\ running' = FALSE
  /\ IF running THEN PublishStatus(Manager, Say("disconnected")) ELSE UNCHANGED published
  /\ mgr' = "done"
  /\ UNCHANGED <<autoReconnect, stopping, stopper, source, lastWait, refused, received>>

ManagerAlive == mgr \notin {"new", "done"} \/ ~Free(Manager)

ManagerStep ==
  \/ BeginOpen \/ OpenSucceeds \/ Pause
  \/ \E reason \in Reasons : OpenRefused(reason) \/ OpenFails(reason) \/ ReadFails(reason)
  \/ BeginRead \/ ReadNothing
  \/ \E ends, tail \in BOOLEAN : ReadData(ends, tail)
  \/ LeaveReadLoop \/ CloseSource \/ AfterClose \/ Finish
  \/ EmitStatus(Manager)

-----------------------------------------------------------------------------
(* stop() *)

\* _end(): the first caller goes on, every other returns at once.
CallStop(s) ==
  /\ stopper[s] = "idle"
  /\ stopper' = [stopper EXCEPT ![s] = IF running THEN "ending" ELSE "returned"]
  /\ running' = FALSE
  /\ UNCHANGED <<autoReconnect, stopping, connected, source, manager, published, received>>

SetStop(s) ==
  /\ stopper[s] = "ending"
  /\ stopping' = TRUE
  /\ stopper' = [stopper EXCEPT ![s] = "joining"]
  /\ UNCHANGED <<autoReconnect, running, connected, source, manager, published, received>>

\* Bug: stop() does not wait for the manager.
AnnouncesWithoutJoin(s) ==
  /\ stopper[s] = "joining"
  /\ PublishStatus(s, Say("disconnected"))
  /\ stopper' = [stopper EXCEPT ![s] = "announcing"]
  /\ UNCHANGED <<autoReconnect, running, stopping, connected, source, manager, received>>

\* join(timeout=3.0) returns: the manager is dead.
Joined(s) ==
  /\ stopper[s] = "joining"
  /\ ~ManagerAlive
  /\ PublishStatus(s, Say("disconnected"))
  /\ stopper' = [stopper EXCEPT ![s] = "announcing"]
  /\ UNCHANGED <<autoReconnect, running, stopping, connected, source, manager, received>>

\* It returns after three seconds, and stop() goes on the same.  The manager may be anywhere:
\* in an open(), in a read() that answers a telnet server, in a close() that kills ssh, or
\* emitting to a slow subscriber, none of which is bounded by three seconds.
Expires(s) ==
  /\ stopper[s] = "joining"
  /\ ManagerAlive
  /\ PublishStatus(s, Say("disconnected"))
  /\ stopper' = [stopper EXCEPT ![s] = "leaving"]
  /\ UNCHANGED <<autoReconnect, running, stopping, connected, source, manager, received>>

\* "stopped" if the manager was waited for, "left" if not.
StopReturns(s) ==
  /\ stopper[s] \in {"announcing", "leaving"}
  /\ Free(s)
  /\ stopper' = [stopper EXCEPT ![s] = IF @ = "announcing" THEN "stopped" ELSE "left"]
  /\ UNCHANGED <<autoReconnect, running, stopping, connected, source, manager, published, received>>

StopStep(s) == SetStop(s) \/ Joined(s) \/ Expires(s) \/ EmitStatus(s) \/ StopReturns(s)

Next == Start \/ ManagerStep \/ \E s \in Stoppers : CallStop(s) \/ StopStep(s)

\* Threads run; an open(), a read() and a close() return in the end.  Nothing
\* says a session is ever started, or that anybody calls stop().
Fairness == WF_vars(ManagerStep) /\ \A s \in Stoppers : WF_vars(StopStep(s))

Spec == Init /\ [][Next]_vars /\ Fairness
-----------------------------------------------------------------------------
(* Properties *)

TypeOK ==
  /\ autoReconnect \in BOOLEAN /\ running \in BOOLEAN
  /\ stopping \in BOOLEAN /\ connected \in BOOLEAN
  /\ mgr \in {"new", "deciding", "opening", "pausing", "reading", "inRead",
              "dropping", "closing", "closed", "finishing", "done"}
  /\ stopper \in [Stoppers -> {"idle", "ending", "joining", "announcing",
                               "leaving", "stopped", "left", "returned"}]
  /\ sourceOpen \in BOOLEAN /\ attempts \in Nat /\ conn \in Nat
  /\ lastWait \in Error /\ refused \in BOOLEAN
  /\ health \in Health
  /\ announcing \in [Threads -> Status \union {Nothing}]
  /\ statuses \in Seq(Status)
  /\ pending \in SUBSET Nat /\ lines \in SUBSET (SUBSET Nat)

IsEnd(i) == i \in 1..Len(statuses) /\ statuses[i].state = "disconnected"

\* S12: the end is announced exactly once, even if stop() follows or several
\* threads stop the session while the manager gives up (session.py:106-121, 185).
EndAnnouncedOnce == \A i, j \in 1..Len(statuses) : IsEnd(i) /\ IsEnd(j) => i = j

\* A stop() has gone on without the manager.
Outlasted == \E s \in Stoppers : stopper[s] \in {"leaving", "left"}

LastStatus == IF statuses = <<>> THEN Say("connecting") ELSE statuses[Len(statuses)]

\* S43: between two announcements device_health() is the last status a
\* subscriber saw, and reconnects counts the times it saw the device return
\* (session.py:281-314).  Two announcers at once would break it, and there are two when
\* the join of a stop() has expired: this is what holds until one has.
HealthIsLastPublished ==
  ~Outlasted /\ (\A t \in Threads : Free(t)) =>
    LET returns == {i \in 1..Len(statuses) : statuses[i].state = "connected"} IN
    /\ health.state = LastStatus.state
    /\ health.reconnects = IF returns = {} THEN 0 ELSE Cardinality(returns) - 1
    /\ LastStatus.state = "connected" => health.error = NoReason

\* S12: while the manager waits for a source that failed to open, the last thing a
\* subscriber was told is that wait with its current reason, repeats suppressed or
\* not (session.py:138, 155-165); until a stop() has spoken without waiting for it.
WaitIsAnnounced ==
  ~Outlasted /\ mgr \in {"pausing", "deciding", "opening"} /\ lastWait # NoReason /\ Free(Manager)
    => LastStatus = SayWhy("waiting", lastWait)

\* S3, S12: a line never joins bytes received before a drop with bytes received
\* after it: the partial line is flushed before the source is reopened (session.py:171).
LinesWithinOneConnection == \A line \in lines : Cardinality(line) <= 1

Closed == ~sourceOpen /\ ~connected /\ pending = {}

\* session.py:106-113: once the stop() that ended the session has returned with the manager
\* dead, nothing is pending and the source is, and stays, closed.  When the join expired
\* first, that is so as soon as the manager is dead: it neither reads on nor reopens.
StopClosesTheSource ==
  \A s \in Stoppers :
    stopper[s] = "stopped" \/ (stopper[s] = "left" /\ ~ManagerAlive) => Closed

\* session.py:107, "Stop the session, flush any partial line, and close the source.": once
\* the stop() that ended the session has returned, that is done.
StopHasClosed == \A s \in Stoppers : stopper[s] \in {"stopped", "left"} => Closed

\* What a subscriber may rely on: the status events follow StatusStream, which says
\* what is left of the promise when the join of a stop() expires: the manager's "connected"
\* or "error" may then follow the "disconnected" of stop().
Promised == INSTANCE StatusStream WITH said <- statuses, outlasted <- Outlasted
StatusesFollowTheStream == Promised!Spec

\* Headless mode waits for the end to be announced (headless.py:10, S12): it is, whenever
\* the session was ended by a caller, refused, or dropped with auto_reconnect off.
Ending ==
  \/ mgr # "new" /\ ~running
  \/ refused
  \/ ~autoReconnect /\ mgr \in {"dropping", "closing"}
EndIsAnnounced == Ending ~> \E i \in 1..Len(statuses) : IsEnd(i)
=============================================================================
