------------------------------- MODULE Triggers -------------------------------
(***************************************************************************)
(* The trigger engine (core/triggers.py, SPEC S46).  Who a rule belongs to *)
(* makes no difference to it, and is left out.                             *)
(*                                                                         *)
(* Rules are matched on the thread that delivers the event: what the       *)
(* device says and its state on the session's read thread, what is typed   *)
(* on the thread that typed it, a silence on the engine's timer thread.    *)
(* Each copies the rules it may match under the lock, and then matches     *)
(* them without it, while others enable, update or remove them.            *)
(*                                                                         *)
(* A rule object is a number; update() replaces it by another that has its *)
(* id.  What a rule matches, its limits and its actions are a Content; it  *)
(* sends unless the Content is Tells.  Whether a line matches is left open *)
(* (the patterns, and the echo a rule ignores).  Times are ticks.  A       *)
(* definition marked "Bug" is a plausible wrong form of the next one.      *)
(***************************************************************************)
EXTENDS Naturals, Sequences, FiniteSets

CONSTANTS
  Reader,        \* the session's read thread
  Timer,         \* the thread that calls tick()
  Writers,       \* the threads that type into the device
  Kinds,         \* what the rules watch: rx, tx, silence, state
  Contents,      \* what a rule that sends is made of: when, limit and actions
  Tells,         \* the same of a rule that only tells
  Limits,        \* the limits rules are made with: once and after
  Cooldown, Window, MaxPerMinute, Minute,  \* cooldown, window, max_per_minute, 60 s
  Silence,       \* the seconds a silence rule waits for
  EventRing,     \* EVENT_RING: the events kept
  MaxTime,       \* bound: how long the clock runs
  MaxRules,      \* bound: rule objects made
  MaxAdds,       \* bound: the first of them that may be added, the others are updates
  MaxEvents      \* bound: events delivered

ASSUME ThreadsAssumption == Reader # Timer /\ Reader \notin Writers /\ Timer \notin Writers
ASSUME KindsAssumption == Kinds \subseteq {"rx", "tx", "silence", "state"}
ASSUME ContentsAssumption == Tells \notin Contents
ASSUME LimitsAssumption ==
  /\ Limits \subseteq [once: BOOLEAN, after: Nat \ {0}]
  /\ Cooldown \in Nat /\ Window \in Nat /\ MaxPerMinute \in Nat \ {0} /\ Minute \in Nat
  /\ Silence \in Nat \ {0} /\ EventRing \in Nat \ {0}
ASSUME BoundsAssumption == MaxTime \in Nat /\ MaxRules \in Nat /\ MaxAdds \in Nat /\ MaxEvents \in Nat

VARIABLES
  now,        \* the clock
  lastRx,     \* _last_rx
  connected,  \* _connected
  ever,       \* _ever_connected (_dropped is ever /\ ~connected)
  made,       \* rule objects made so far
  rules,      \* those in _rules
  rule,       \* what each rule object holds
  pc,         \* where each delivering thread is
  todo,       \* the rules it has still to match
  cur,        \* the one it is matching
  at,         \* the clock as that thread read it
  events,     \* events delivered
  seq,        \* the numbers _seq has given
  number,     \* the one each thread has for the event it is making
  ring,       \* _events: the numbers of the events kept
  lastOutput, \* ghost: when the device last said something
  fires,      \* ghost: when each rule object fired
  armed,      \* ghost: how often it had when it was last enabled
  sent,       \* ghost: what rules sent to the device
  approvals   \* ghost: what a person approved

clock    == <<now, lastRx, connected, ever>>
table    == <<made, rules, rule>>
delivery == <<pc, todo, cur, at, events>>
kept     == <<seq, number, ring>>
history  == <<lastOutput, fires, armed, sent, approvals>>
vars == <<clock, table, delivery, kept, history>>

Threads == {Reader, Timer} \union Writers
Objects == 1..MaxRules
AnyContent == Contents \union {Tells}

-----------------------------------------------------------------------------
(* Rules *)

\* normalise() and _Rule(): the counters are empty.
NewRule(id, kind, content, limit, enabled, approved) ==
  [id |-> id, kind |-> kind, content |-> content, limit |-> limit,
   enabled |-> enabled, approved |-> approved,
   fireTimes |-> <<>>, matchTimes |-> <<>>, lastFire |-> {}, silentFired |-> FALSE]

\* A rule object that is not in the table yet.
Make(id, kind, content, limit, enabled, approved) ==
  /\ made < MaxRules
  /\ made' = made + 1
  /\ rule' = [rule EXCEPT ![made + 1] = NewRule(id, kind, content, limit, enabled, approved)]

\* add(): an id of its own, and no approval.
Insert(kind, content, limit, enabled) ==
  /\ made < MaxAdds
  /\ Make(made + 1, kind, content, limit, enabled, {})
  /\ rules' = rules \union {made + 1}

\* By a person, or load(), where a rule that sends may arrive off.
Add(kind, content, limit, enabled) ==
  /\ Insert(kind, content, limit, enabled)
  /\ UNCHANGED <<clock, delivery, kept, history>>

\* Bug: what a person edits is approved as it is now.
UpdatesAndApproves(o, content, enabled) ==
  /\ Make(rule[o].id, rule[o].kind, content, rule[o].limit, enabled,
          IF rule[o].approved = {} THEN {} ELSE {content})
  /\ rules' = (rules \ {o}) \union {made + 1}
  /\ UNCHANGED <<clock, delivery, kept, history>>

\* update(): another object with the id and the approval of the one there.
Update(o, content, enabled) ==
  /\ Make(rule[o].id, rule[o].kind, content, rule[o].limit, enabled,
          rule[o].approved)
  /\ rules' = (rules \ {o}) \union {made + 1}
  /\ UNCHANGED <<clock, delivery, kept, history>>

\* remove() of one, remove_where() of all that are like it.
Remove(gone) ==
  /\ rules' = rules \ gone
  /\ UNCHANGED <<made, rule, clock, delivery, kept, history>>

\* Bug: a rule that is turned on again may fire at once.
ForgetsTheCooldown(o, on) ==
  /\ rule'  = [rule EXCEPT ![o].enabled = on,
                           ![o].fireTimes = IF on THEN <<>> ELSE @,
                           ![o].lastFire = IF on THEN {} ELSE @]
  /\ armed' = IF on THEN [armed EXCEPT ![o] = Len(fires[o])] ELSE armed
  /\ UNCHANGED <<made, rules, clock, delivery, kept, lastOutput, fires, sent, approvals>>

Enable(o, on) ==
  /\ rule'  = [rule EXCEPT ![o].enabled = on,
                           ![o].fireTimes = IF on THEN <<>> ELSE @]
  /\ armed' = IF on THEN [armed EXCEPT ![o] = Len(fires[o])] ELSE armed
  /\ UNCHANGED <<made, rules, clock, delivery, kept, lastOutput, fires, sent, approvals>>

Approved(o) ==
  /\ rule' = [rule EXCEPT ![o].approved = {rule[o].content}]
  /\ approvals' = approvals \union {<<rule[o].id, rule[o].content>>}

Approve(o) ==
  /\ Approved(o)
  /\ UNCHANGED <<made, rules, clock, delivery, kept, lastOutput, fires, armed, sent>>

PersonStep ==
  \/ \E kind \in Kinds, content \in AnyContent, limit \in Limits, enabled \in BOOLEAN :
       Add(kind, content, limit, enabled)
  \/ \E o \in rules :
       \/ \E content \in AnyContent, enabled \in BOOLEAN : Update(o, content, enabled)
       \/ Approve(o)
       \/ \E on \in BOOLEAN : Enable(o, on)
  \/ \E gone \in SUBSET rules : Remove(gone)

-----------------------------------------------------------------------------
(* Events, each on the thread that delivers it *)

Idle(t) == pc[t] = "idle"

\* The rules of a kind that match, copied under the lock; the lock is then let go.
MatchSome(t, kind) ==
  \E hits \in SUBSET {o \in rules : rule[o].kind = kind} :
    /\ todo' = [todo EXCEPT ![t] = hits]
    /\ pc'   = [pc EXCEPT ![t] = IF hits = {} THEN "idle" ELSE "matching"]

Begin == events < MaxEvents /\ events' = events + 1

\* _on_line of what somebody types; what a rule sends is not looked at.
Typed(w) ==
  /\ Idle(w) /\ Begin
  /\ MatchSome(w, "tx")
  /\ UNCHANGED <<clock, table, cur, at, kept, history>>

\* The device says something, a line or bytes: _heard(), the clock first ...
Heard ==
  /\ Idle(Reader) /\ Begin
  /\ lastRx' = now
  /\ lastOutput' = now
  /\ pc' = [pc EXCEPT ![Reader] = "heard"]
  /\ UNCHANGED <<now, connected, ever, table, todo, cur, at, kept, fires, armed, sent, approvals>>

\* ... and then, under the lock, the silences start again.
SilencesStartAgain ==
  /\ pc[Reader] = "heard"
  /\ rule' = [o \in Objects |-> IF o \in rules THEN [rule[o] EXCEPT !.silentFired = FALSE]
                                               ELSE rule[o]]
  /\ pc' = [pc EXCEPT ![Reader] = "said"]
  /\ UNCHANGED <<made, rules, clock, todo, cur, at, events, kept, history>>

Said ==
  /\ pc[Reader] = "said"
  /\ MatchSome(Reader, "rx")
  /\ UNCHANGED <<clock, table, cur, at, events, kept, history>>

\* _on_status: a rule hears of the first connection, of a drop and of the return.
DeviceState(up) ==
  /\ Idle(Reader) /\ Begin
  /\ connected' = up
  /\ ever'      = (ever \/ up)
  /\ lastRx'    = IF up THEN now ELSE lastRx
  /\ IF connected # up
     THEN MatchSome(Reader, "state")
     ELSE UNCHANGED <<todo, pc>>
  /\ UNCHANGED <<now, table, cur, at, kept, history>>

\* tick(): how long it has been quiet, without the lock ...
ReadQuiet ==
  /\ Idle(Timer) /\ connected
  /\ now - lastRx >= Silence
  /\ pc' = [pc EXCEPT ![Timer] = "quiet"]
  /\ UNCHANGED <<clock, table, todo, cur, at, events, kept, history>>

\* ... and with it, the rules that have not fired in this silence.
MarkSilent ==
  /\ pc[Timer] = "quiet"
  /\ LET hits == {o \in rules : rule[o].kind = "silence" /\ ~rule[o].silentFired} IN
       /\ rule' = [o \in Objects |-> IF o \in hits THEN [rule[o] EXCEPT !.silentFired = TRUE]
                                                   ELSE rule[o]]
       /\ todo' = [todo EXCEPT ![Timer] = hits]
       /\ pc'   = [pc EXCEPT ![Timer] = IF hits = {} THEN "idle" ELSE "matching"]
  /\ UNCHANGED <<made, rules, clock, cur, at, events, kept, history>>

-----------------------------------------------------------------------------
(* _matched *)

\* The clock is read before the lock is taken.
BeginMatch(t, o) ==
  /\ pc[t] = "matching" /\ o \in todo[t]
  /\ cur'  = [cur EXCEPT ![t] = o]
  /\ at'   = [at EXCEPT ![t] = now]
  /\ todo' = [todo EXCEPT ![t] = @ \ {o}]
  /\ pc'   = [pc EXCEPT ![t] = "counting"]
  /\ UNCHANGED <<clock, table, events, kept, history>>

\* The thread goes on to the next rule, or is done with the event.
NextRule(t) ==
  /\ pc'  = [pc EXCEPT ![t] = IF todo[t] = {} THEN "idle" ELSE "matching"]
  /\ cur' = [cur EXCEPT ![t] = 0]
  /\ at'  = [at EXCEPT ![t] = 0]
  /\ UNCHANGED <<todo, events>>

\* Bug: a time exactly as old as the span is dropped too.
DropsTheEdge(times, t, span) == SelectSeq(times, LAMBDA time : at[t] < time + span)

\* popleft() until the first time that is not older than the span.
Recent(times, t, span) ==
  LET young == {i \in DOMAIN times : at[t] <= times[i] + span} IN
  IF young = {} THEN <<>>
  ELSE SubSeq(times, CHOOSE i \in young : \A j \in young : i <= j, Len(times))

\* Bug: whether it is still enabled was looked at when the rules were copied.
CountsWhileListed(o) == \E other \in rules : rule[other].id = rule[o].id

\* It is enabled, and its id is in the table, be it for another object.
Counts(o) == rule[o].enabled /\ \E other \in rules : rule[other].id = rule[o].id

Cooling(t, o) == \E last \in rule[o].lastFire : at[t] < last + Cooldown

\* after and window: this match is not the n-th, or is the n-th of those not too old.
Matches(t, o) == Recent(Append(rule[o].matchTimes, at[t]), t, Window)

Ignore(t) ==
  /\ pc[t] = "counting" /\ ~Counts(cur[t])
  /\ NextRule(t)
  /\ UNCHANGED <<clock, table, kept, history>>

CountOnly(t) ==
  LET o == cur[t] IN
  /\ pc[t] = "counting" /\ Counts(o)
  /\ rule[o].limit.after > 1 /\ Len(Matches(t, o)) < rule[o].limit.after
  /\ rule' = [rule EXCEPT ![o].matchTimes = Matches(t, o)]
  /\ NextRule(t)
  /\ UNCHANGED <<made, rules, clock, kept, history>>

\* There are matches enough: they are forgotten, whatever comes of this one.
Enough(t, o) ==
  /\ pc[t] = "counting" /\ Counts(o)
  /\ rule[o].limit.after > 1 => Len(Matches(t, o)) >= rule[o].limit.after

CoolDown(t) ==
  LET o == cur[t] IN
  /\ Enough(t, o) /\ Cooling(t, o)
  /\ rule' = [rule EXCEPT ![o].matchTimes = <<>>]
  /\ NextRule(t)
  /\ UNCHANGED <<made, rules, clock, kept, history>>

\* Bug: as many as the limit, and one more.
StormsOneTooLate(t, o) == Len(Recent(rule[o].fireTimes, t, Minute)) > MaxPerMinute

Storms(t, o) == Len(Recent(rule[o].fireTimes, t, Minute)) >= MaxPerMinute

TurnOff(t) ==
  LET o == cur[t] IN
  /\ Enough(t, o) /\ ~Cooling(t, o) /\ Storms(t, o)
  /\ rule' = [rule EXCEPT ![o].matchTimes = <<>>,
                          ![o].fireTimes = Recent(@, t, Minute),
                          ![o].enabled = FALSE]
  /\ NextRule(t)
  /\ UNCHANGED <<made, rules, clock, kept, history>>

Fire(t) ==
  LET o == cur[t] IN
  /\ Enough(t, o) /\ ~Cooling(t, o) /\ ~Storms(t, o)
  /\ rule' = [rule EXCEPT ![o].matchTimes = <<>>,
                          ![o].fireTimes = Append(Recent(@, t, Minute), at[t]),
                          ![o].lastFire = {at[t]},
                          ![o].enabled = ~rule[o].limit.once]
  /\ fires' = [fires EXCEPT ![o] = Append(@, at[t])]
  /\ pc' = [pc EXCEPT ![t] = "acting"]
  /\ UNCHANGED <<made, rules, clock, todo, cur, at, events, kept, lastOutput, armed, sent, approvals>>

\* The actions, _send() among them, with no lock held: a rule that sends does so as it was
\* approved, or not at all.  The write may fail, and the event be told of either way.
Act(t) ==
  LET o == cur[t]
      sends == rule[o].content # Tells /\ rule[o].approved = {rule[o].content}
  IN  /\ pc[t] = "acting"
      /\ sent' = IF sends THEN sent \union {<<rule[o].id, rule[o].content>>} ELSE sent
      /\ seq' = seq + 1
      /\ number' = [number EXCEPT ![t] = seq + 1]
      /\ pc' = [pc EXCEPT ![t] = "telling"]
      /\ UNCHANGED <<table, clock, todo, cur, at, events, ring, lastOutput, fires, armed, approvals>>

\* The event, numbered by now, is put in the ring under the lock, and published.
Tell(t) ==
  LET all == Append(ring, number[t]) IN
  /\ pc[t] = "telling"
  /\ ring'   = IF Len(all) > EventRing THEN Tail(all) ELSE all
  /\ number' = [number EXCEPT ![t] = 0]
  /\ NextRule(t)
  /\ UNCHANGED <<clock, table, seq, history>>

MatchStep(t) ==
  \/ \E o \in todo[t] : BeginMatch(t, o)
  \/ Ignore(t) \/ CountOnly(t) \/ CoolDown(t) \/ TurnOff(t) \/ Fire(t) \/ Act(t) \/ Tell(t)

EngineStep ==
  \/ \E w \in Writers : Typed(w)
  \/ Heard \/ SilencesStartAgain \/ Said
  \/ \E up \in BOOLEAN : DeviceState(up)
  \/ ReadQuiet \/ MarkSilent
  \/ \E t \in Threads : MatchStep(t)

Tick ==
  /\ now < MaxTime
  /\ now' = now + 1
  /\ UNCHANGED <<lastRx, connected, ever, table, delivery, kept, history>>

-----------------------------------------------------------------------------
Init ==
  /\ now = 0 /\ lastRx = 0 /\ connected = FALSE /\ ever = FALSE
  /\ made = 0 /\ rules = {}
  /\ rule = [o \in Objects |-> NewRule(0, "rx", Tells, [once |-> FALSE, after |-> 1], FALSE, {})]
  /\ pc = [t \in Threads |-> "idle"] /\ todo = [t \in Threads |-> {}]
  /\ seq = 0 /\ number = [t \in Threads |-> 0] /\ ring = <<>>
  /\ cur = [t \in Threads |-> 0] /\ at = [t \in Threads |-> 0] /\ events = 0
  /\ lastOutput = 0
  /\ fires = [o \in Objects |-> <<>>] /\ armed = [o \in Objects |-> 0]
  /\ sent = {} /\ approvals = {}

Next == PersonStep \/ EngineStep \/ Tick

Spec == Init /\ [][Next]_vars
-----------------------------------------------------------------------------
(* Properties *)

RuleObject ==
  [id: Nat, kind: Kinds \union {"rx"}, content: AnyContent, limit: [once: BOOLEAN, after: Nat],
   enabled: BOOLEAN, approved: SUBSET AnyContent, fireTimes: Seq(Nat), matchTimes: Seq(Nat),
   lastFire: SUBSET Nat, silentFired: BOOLEAN]

TypeOK ==
  /\ now \in Nat /\ lastRx \in Nat /\ connected \in BOOLEAN /\ ever \in BOOLEAN
  /\ made \in 0..MaxRules /\ rules \subseteq 1..made
  /\ rule \in [Objects -> RuleObject]
  /\ \A o \in Objects : Len(rule[o].fireTimes) <= MaxPerMinute
  /\ pc \in [Threads -> {"idle", "heard", "said", "quiet", "matching", "counting", "acting", "telling"}]
  /\ todo \in [Threads -> SUBSET Objects] /\ cur \in [Threads -> {0} \union Objects]
  /\ at \in [Threads -> Nat] /\ events \in Nat
  /\ seq \in Nat /\ number \in [Threads -> Nat] /\ ring \in Seq(Nat) /\ Len(ring) <= EventRing
  /\ lastOutput \in Nat
  /\ fires \in [Objects -> Seq(Nat)] /\ armed \in [Objects -> Nat]
  /\ sent \subseteq Nat \X Contents /\ approvals \subseteq Nat \X AnyContent

\* S46, "a level-1 rule whose content no longer matches its approved hash does not act":
\* a rule never sends what no person approved under its id, edited while it is
\* being matched or not (triggers.py:276, 517).
OnlyTheApprovedIsSent == sent \subseteq approvals

\* S46, "a rule that hits max_per_minute is disabled": since it was last enabled, no rule
\* object fires more often in a minute, on however many threads it matches.
CapHolds ==
  \A o \in Objects : \A n \in DOMAIN fires[o] :
    n > armed[o] + MaxPerMinute => fires[o][n] > fires[o][n - MaxPerMinute] + Minute

\* S46, "once": it fires a single time until a person enables it again.
OnceMeansOnce ==
  \A o \in Objects : rule[o].limit.once => Len(fires[o]) <= armed[o] + 1

\* S46, "cooldown": two firings are that far apart, although each thread reads the clock
\* before it takes the lock, and a person may turn the rule off and on (triggers.py:460, 474).
CooldownHolds ==
  \A o \in Objects : \A n \in DOMAIN fires[o] :
    n > 1 => fires[o][n - 1] + Cooldown <= fires[o][n]

\* S46, "silence fires once after its seconds and again only after new output": a rule is
\* only down as having fired in this silence when the device has been silent since its last
\* output, so that it is not passed over when that silence comes (triggers.py:390, 435).
MarkedInThisSilence ==
  \A o \in rules :
    rule[o].silentFired /\ pc[Reader] # "heard" => now - lastOutput >= Silence
=============================================================================
