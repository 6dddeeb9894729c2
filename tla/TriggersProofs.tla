---------------------------- MODULE TriggersProofs ----------------------------
(***************************************************************************)
(* What holds of the trigger engine for any number of threads that type,   *)
(* any rules and any limits.                                               *)
(***************************************************************************)
EXTENDS Triggers, SequenceTheorems, WellFoundedInduction, TLAPS

\* The limits, in the form the arithmetic below needs.
LEMMA LimitsAreNumbers ==
  /\ Limits \subseteq [once : BOOLEAN, after : Nat]
  /\ Cooldown \in Nat /\ Window \in Nat /\ Minute \in Nat
  /\ MaxPerMinute \in Nat /\ MaxPerMinute > 0 /\ EventRing \in Nat /\ EventRing > 0
  /\ MaxRules \in Nat
BY LimitsAssumption, BoundsAssumption

-----------------------------------------------------------------------------
(* Times *)

\* A set of numbers that is not empty has a least one.
LEMMA Least ==
  ASSUME NEW S \in SUBSET Nat, S # {}
  PROVE  \E x \in S : \A y \in S : x <= y
<1> DEFINE Less == {pair \in Nat \X Nat : pair[1] < pair[2]}
<1>1. IsWellFoundedOn(Less, Nat)
  BY NatLessThanWellFounded DEF OpToRel
<1> HIDE DEF Less
<1>2. \E x \in S : \A y \in S : ~(<<y, x>> \in Less)
  BY <1>1, WFMin
<1>3. \A x, y \in Nat : y < x => <<y, x>> \in Less
  BY DEF Less
<1>4. PICK x \in S : \A y \in S : ~(<<y, x>> \in Less)
  BY <1>2
<1>5. ASSUME NEW y \in S PROVE x <= y
  <2>1. x \in Nat /\ y \in Nat /\ ~(<<y, x>> \in Less)
    BY <1>4
  <2>2. ~(y < x)
    BY <2>1, <1>3
  <2> QED BY <2>1, <2>2
<1> QED BY <1>5

\* What popleft() leaves are the last of the times, and those it took are too old.
LEMMA RecentIsTheEnd ==
  ASSUME NEW times \in Seq(Nat), NEW t \in Threads, at[t] \in Nat, NEW span \in Nat
  PROVE  \E k \in 1..(Len(times) + 1) :
           /\ Recent(times, t, span) = SubSeq(times, k, Len(times))
           /\ \A i \in 1..(k - 1) : at[t] > times[i] + span
<1> DEFINE young == {i \in DOMAIN times : at[t] <= times[i] + span}
<1>1. CASE young = {}
  <2>1. Recent(times, t, span) = <<>> BY <1>1 DEF Recent
  <2>2. SubSeq(times, Len(times) + 1, Len(times)) = <<>> OBVIOUS
  <2>3. \A i \in 1..Len(times) : at[t] > times[i] + span BY <1>1
  <2> QED BY <2>1, <2>2, <2>3
<1>2. CASE young # {}
  <2>0. young \in SUBSET Nat OBVIOUS
  <2>1. \E x \in young : \A y \in young : x <= y BY <1>2, <2>0, Least
  <2> DEFINE first == CHOOSE i \in young : \A j \in young : i <= j
  <2>2. first \in young /\ \A j \in young : first <= j
    <3> HIDE DEF young
    <3> QED BY <2>1
  <2>3. Recent(times, t, span) = SubSeq(times, first, Len(times)) BY <1>2 DEF Recent
  <2> HIDE DEF first
  <2>4. first \in 1..Len(times) BY <2>2
  <2>5. \A i \in 1..(first - 1) : i \notin young BY <2>2, <2>4
  <2>6. \A i \in 1..(first - 1) : at[t] > times[i] + span BY <2>4, <2>5
  <2>7. first \in 1..(Len(times) + 1) BY <2>4
  <2> QED BY <2>3, <2>6, <2>7
<1> QED BY <1>1, <1>2

LEMMA RecentTyped ==
  ASSUME NEW times \in Seq(Nat), NEW t \in Threads, at[t] \in Nat, NEW span \in Nat
  PROVE  /\ Recent(times, t, span) \in Seq(Nat)
         /\ Len(Recent(times, t, span)) <= Len(times)
<1>1. PICK k \in 1..(Len(times) + 1) : Recent(times, t, span) = SubSeq(times, k, Len(times))
  BY RecentIsTheEnd
<1> QED BY <1>1

-----------------------------------------------------------------------------
(* Types *)

RulesTyped == rule \in [Objects -> RuleObject] /\ \A o \in Objects : Len(rule[o].fireTimes) <= MaxPerMinute

\* A rule object replaced by another leaves the table of objects typed.
LEMMA OneRuleChanges ==
  ASSUME RulesTyped, NEW o \in Objects, NEW r \in RuleObject, Len(r.fireTimes) <= MaxPerMinute,
         rule' = [rule EXCEPT ![o] = r]
  PROVE  RulesTyped'
BY DEF RulesTyped

LEMMA MakeTypes ==
  ASSUME RulesTyped, made \in 0..MaxRules,
         NEW id \in Nat, NEW kind \in Kinds \union {"rx"}, NEW content \in AnyContent,
         NEW limit \in [once : BOOLEAN, after : Nat], NEW enabled \in BOOLEAN,
         NEW approved \in SUBSET AnyContent,
         Make(id, kind, content, limit, enabled, approved)
  PROVE  /\ RulesTyped'
         /\ made' = made + 1 /\ made' \in 0..MaxRules /\ made' \in Objects
<1>1. made' = made + 1 /\ made' \in 0..MaxRules /\ made' \in Objects
  BY LimitsAreNumbers DEF Make, Objects
<1> DEFINE r == NewRule(id, kind, content, limit, enabled, approved)
<1>2. r \in RuleObject /\ r.fireTimes = <<>>
  BY DEF NewRule, RuleObject
<1>3. rule' = [rule EXCEPT ![made + 1] = r]
  BY DEF Make
<1> HIDE DEF r
<1>4. made + 1 \in Objects /\ Len(r.fireTimes) <= MaxPerMinute
  BY <1>1, <1>2, LimitsAreNumbers
<1>5. RulesTyped'
  BY <1>2, <1>3, <1>4, OneRuleChanges
<1> QED BY <1>1, <1>5

\* One field of a rule object changes.
LEMMA FieldChanges ==
  ASSUME RulesTyped, NEW o \in Objects
  PROVE  /\ \A c \in SUBSET AnyContent : [rule[o] EXCEPT !.approved = c] \in RuleObject
         /\ \A on \in BOOLEAN, times \in Seq(Nat) :
              [rule[o] EXCEPT !.enabled = on, !.fireTimes = times] \in RuleObject
         /\ \A times \in Seq(Nat) : [rule[o] EXCEPT !.matchTimes = times] \in RuleObject
         /\ \A is \in BOOLEAN : [rule[o] EXCEPT !.silentFired = is] \in RuleObject
         /\ \A m, times \in Seq(Nat), last \in SUBSET Nat, on \in BOOLEAN :
              /\ [rule[o] EXCEPT !.matchTimes = m, !.fireTimes = times, !.enabled = on] \in RuleObject
              /\ [rule[o] EXCEPT !.matchTimes = m, !.fireTimes = times, !.lastFire = last, !.enabled = on]
                   \in RuleObject
BY ZenonT(30) DEF RulesTyped, RuleObject

ThreadsTyped ==
  /\ pc \in [Threads -> {"idle", "heard", "said", "quiet", "matching", "counting", "acting", "telling"}]
  /\ todo \in [Threads -> SUBSET Objects] /\ cur \in [Threads -> {0} \union Objects]
  /\ at \in [Threads -> Nat] /\ events \in Nat

LEMMA MatchSomeTypes ==
  ASSUME ThreadsTyped, rules \subseteq Objects, NEW t \in Threads, NEW kind, MatchSome(t, kind)
  PROVE  /\ pc' \in [Threads -> {"idle", "heard", "said", "quiet", "matching", "counting", "acting", "telling"}]
         /\ todo' \in [Threads -> SUBSET Objects]
<1>1. PICK hits \in SUBSET {o \in rules : rule[o].kind = kind} :
        /\ todo' = [todo EXCEPT ![t] = hits]
        /\ pc'   = [pc EXCEPT ![t] = IF hits = {} THEN "idle" ELSE "matching"]
  BY DEF MatchSome
<1>2. hits \in SUBSET Objects OBVIOUS
<1> QED BY <1>1, <1>2 DEF ThreadsTyped

LEMMA NextRuleTypes ==
  ASSUME ThreadsTyped, NEW t \in Threads, NextRule(t)
  PROVE  ThreadsTyped'
BY DEF ThreadsTyped, NextRule

ClockTyped == now \in Nat /\ lastRx \in Nat /\ connected \in BOOLEAN /\ ever \in BOOLEAN
TableTyped == made \in 0..MaxRules /\ rules \subseteq 1..made
KeptTyped  == seq \in Nat /\ number \in [Threads -> Nat] /\ ring \in Seq(Nat) /\ Len(ring) <= EventRing
HistoryTyped ==
  /\ lastOutput \in Nat
  /\ fires \in [Objects -> Seq(Nat)] /\ armed \in [Objects -> Nat]
  /\ sent \subseteq Nat \X Contents /\ approvals \subseteq Nat \X AnyContent

LEMMA TypeParts ==
  TypeOK <=> ClockTyped /\ TableTyped /\ RulesTyped /\ ThreadsTyped /\ KeptTyped /\ HistoryTyped
BY DEF TypeOK, ClockTyped, TableTyped, RulesTyped, ThreadsTyped, KeptTyped, HistoryTyped

LEMMA RulesAreObjects == TableTyped => rules \subseteq Objects /\ 1..made \subseteq Objects
BY LimitsAreNumbers DEF TableTyped, Objects

LEMMA PersonTypes == TypeOK /\ PersonStep => TypeOK'
<1> SUFFICES ASSUME TypeOK, PersonStep PROVE TypeOK' OBVIOUS
<1>0. /\ ClockTyped /\ TableTyped /\ RulesTyped /\ ThreadsTyped /\ KeptTyped /\ HistoryTyped
      /\ rules \subseteq Objects
  BY TypeParts, RulesAreObjects
<1>1. ASSUME NEW kind \in Kinds, NEW content \in AnyContent, NEW limit \in Limits, NEW enabled \in BOOLEAN,
             Add(kind, content, limit, enabled)
      PROVE  TypeOK'
  <2>1. /\ Make(made + 1, kind, content, limit, enabled, {})
        /\ rules' = rules \union {made + 1}
        /\ UNCHANGED <<clock, delivery, kept, history>>
    BY <1>1 DEF Add, Insert
  <2>2. limit \in [once : BOOLEAN, after : Nat] /\ made + 1 \in Nat /\ {} \in SUBSET AnyContent
    BY <1>0, LimitsAreNumbers DEF TableTyped
  <2>3. RulesTyped' /\ made' = made + 1 /\ made' \in 0..MaxRules
    BY <1>0, <2>1, <2>2, MakeTypes DEF TableTyped
  <2>4. TableTyped' BY <1>0, <2>1, <2>3, LimitsAreNumbers DEF TableTyped
  <2>5. ClockTyped' /\ ThreadsTyped' /\ KeptTyped' /\ HistoryTyped'
    BY <1>0, <2>1 DEF clock, delivery, kept, history, ClockTyped, ThreadsTyped, KeptTyped, HistoryTyped
  <2> QED BY <2>3, <2>4, <2>5, TypeParts DEF TypeOK, ClockTyped, TableTyped, RulesTyped, ThreadsTyped, KeptTyped, HistoryTyped
<1>2. ASSUME NEW o \in rules, NEW content \in AnyContent, NEW enabled \in BOOLEAN, Update(o, content, enabled)
      PROVE  TypeOK'
  <2>1. /\ Make(rule[o].id, rule[o].kind, content, rule[o].limit, enabled, rule[o].approved)
        /\ rules' = (rules \ {o}) \union {made + 1}
        /\ UNCHANGED <<clock, delivery, kept, history>>
    BY <1>2 DEF Update
  <2>2. /\ rule[o].id \in Nat /\ rule[o].kind \in Kinds \union {"rx"}
        /\ rule[o].limit \in [once : BOOLEAN, after : Nat] /\ rule[o].approved \in SUBSET AnyContent
    BY <1>0 DEF RulesTyped, RuleObject
  <2>3. RulesTyped' /\ made' = made + 1 /\ made' \in 0..MaxRules
    BY <1>0, <2>1, <2>2, MakeTypes DEF TableTyped
  <2>4. TableTyped' BY <1>0, <2>1, <2>3, LimitsAreNumbers DEF TableTyped
  <2>5. ClockTyped' /\ ThreadsTyped' /\ KeptTyped' /\ HistoryTyped'
    BY <1>0, <2>1 DEF clock, delivery, kept, history, ClockTyped, ThreadsTyped, KeptTyped, HistoryTyped
  <2> QED BY <2>3, <2>4, <2>5 DEF TypeOK, ClockTyped, TableTyped, RulesTyped, ThreadsTyped, KeptTyped, HistoryTyped
<1>3. ASSUME NEW o \in rules, Approve(o)
      PROVE  TypeOK'
  <2>1. rule' = [rule EXCEPT ![o] = [rule[o] EXCEPT !.approved = {rule[o].content}]]
    BY <1>3 DEF Approve, Approved
  <2>2. rule[o].id \in Nat /\ rule[o].content \in AnyContent /\ Len(rule[o].fireTimes) <= MaxPerMinute
    BY <1>0 DEF RulesTyped, RuleObject
  <2>3. [rule[o] EXCEPT !.approved = {rule[o].content}] \in RuleObject
    BY <1>0, <2>2, FieldChanges
  <2>7. [rule[o] EXCEPT !.approved = {rule[o].content}].fireTimes = rule[o].fireTimes
    BY <1>0 DEF RulesTyped, RuleObject
  <2>4. RulesTyped' BY <1>0, <2>1, <2>2, <2>3, <2>7, OneRuleChanges
  <2>5. ClockTyped' /\ TableTyped' /\ ThreadsTyped' /\ KeptTyped'
    BY <1>0, <1>3 DEF Approve, clock, delivery, kept, ClockTyped, TableTyped, ThreadsTyped, KeptTyped
  <2>6. HistoryTyped' BY <1>0, <1>3, <2>2 DEF Approve, Approved, HistoryTyped
  <2> QED BY <2>4, <2>5, <2>6 DEF TypeOK, ClockTyped, TableTyped, RulesTyped, ThreadsTyped, KeptTyped, HistoryTyped
<1>4. ASSUME NEW o \in rules, NEW on \in BOOLEAN, Enable(o, on)
      PROVE  TypeOK'
  <2> DEFINE times == IF on THEN <<>> ELSE rule[o].fireTimes
  <2>1. rule' = [rule EXCEPT ![o] = [rule[o] EXCEPT !.enabled = on, !.fireTimes = times]]
    BY <1>4 DEF Enable
  <2>2. times \in Seq(Nat) /\ Len(times) <= MaxPerMinute
    BY <1>0, LimitsAreNumbers DEF RulesTyped, RuleObject
  <2> HIDE DEF times
  <2>3. [rule[o] EXCEPT !.enabled = on, !.fireTimes = times] \in RuleObject
    BY <1>0, <2>2, FieldChanges
  <2>7. [rule[o] EXCEPT !.enabled = on, !.fireTimes = times].fireTimes = times
    BY <1>0 DEF RulesTyped, RuleObject
  <2>4. RulesTyped' BY <1>0, <2>1, <2>2, <2>3, <2>7, OneRuleChanges
  <2>5. ClockTyped' /\ TableTyped' /\ ThreadsTyped' /\ KeptTyped'
    BY <1>0, <1>4 DEF Enable, clock, delivery, kept, ClockTyped, TableTyped, ThreadsTyped, KeptTyped
  <2>6. HistoryTyped' BY <1>0, <1>4 DEF Enable, HistoryTyped
  <2> QED BY <2>4, <2>5, <2>6 DEF TypeOK, ClockTyped, TableTyped, RulesTyped, ThreadsTyped, KeptTyped, HistoryTyped
<1>5. ASSUME NEW gone \in SUBSET rules, Remove(gone)
      PROVE  TypeOK'
  BY <1>0, <1>5 DEF Remove, clock, delivery, kept, history,
     TypeOK, ClockTyped, TableTyped, RulesTyped, ThreadsTyped, KeptTyped, HistoryTyped
<1> QED BY <1>1, <1>2, <1>3, <1>4, <1>5 DEF PersonStep

\* The threads that deliver events are threads.
LEMMA TheThreads == Reader \in Threads /\ Timer \in Threads /\ Writers \subseteq Threads
BY DEF Threads

LEMMA DeliveryTypes ==
  ASSUME TypeOK,
         \/ \E w \in Writers : Typed(w)
         \/ Heard \/ SilencesStartAgain \/ Said
         \/ \E up \in BOOLEAN : DeviceState(up)
         \/ ReadQuiet \/ MarkSilent
  PROVE  TypeOK'
<1>0. /\ ClockTyped /\ TableTyped /\ RulesTyped /\ ThreadsTyped /\ KeptTyped /\ HistoryTyped
      /\ rules \subseteq Objects
  BY TypeParts, RulesAreObjects
<1> USE DEF clock, table, delivery, kept, history
<1>1. ASSUME NEW w \in Writers, Typed(w) PROVE TypeOK'
  <2>1. /\ MatchSome(w, "tx") /\ events' = events + 1
        /\ UNCHANGED <<clock, table, cur, at, kept, history>>
    BY <1>1 DEF Typed, Begin
  <2>2. /\ pc' \in [Threads -> {"idle", "heard", "said", "quiet", "matching", "counting", "acting", "telling"}]
        /\ todo' \in [Threads -> SUBSET Objects]
    BY <1>0, <2>1, TheThreads, MatchSomeTypes
  <2>3. ThreadsTyped' BY <1>0, <2>1, <2>2 DEF ThreadsTyped
  <2> QED BY <1>0, <2>1, <2>3
          DEF TypeOK, ClockTyped, TableTyped, RulesTyped, ThreadsTyped, KeptTyped, HistoryTyped
<1>2. ASSUME Heard PROVE TypeOK'
  <2>1. ThreadsTyped' BY <1>0, <1>2, TheThreads DEF Heard, Begin, ThreadsTyped
  <2>2. ClockTyped' /\ HistoryTyped' BY <1>0, <1>2 DEF Heard, ClockTyped, HistoryTyped
  <2>3. TableTyped' /\ RulesTyped' /\ KeptTyped'
    BY <1>0, <1>2 DEF Heard, TableTyped, RulesTyped, KeptTyped
  <2> QED BY <2>1, <2>2, <2>3
          DEF TypeOK, ClockTyped, TableTyped, RulesTyped, ThreadsTyped, KeptTyped, HistoryTyped
<1>3. ASSUME SilencesStartAgain PROVE TypeOK'
  <2>1. \A o \in Objects : [rule[o] EXCEPT !.silentFired = FALSE] \in RuleObject
    BY <1>0, FieldChanges
  <2>2. \A o \in Objects : [rule[o] EXCEPT !.silentFired = FALSE].fireTimes = rule[o].fireTimes
    BY <1>0 DEF RulesTyped, RuleObject
  <2>3. rule' = [o \in Objects |-> IF o \in rules THEN [rule[o] EXCEPT !.silentFired = FALSE] ELSE rule[o]]
    BY <1>3 DEF SilencesStartAgain
  <2>4. RulesTyped' BY <1>0, <2>1, <2>2, <2>3 DEF RulesTyped
  <2>5. ThreadsTyped' BY <1>0, <1>3 DEF SilencesStartAgain, ThreadsTyped
  <2>6. ClockTyped' /\ TableTyped' /\ KeptTyped' /\ HistoryTyped'
    BY <1>0, <1>3 DEF SilencesStartAgain, ClockTyped, TableTyped, KeptTyped, HistoryTyped
  <2> QED BY <2>4, <2>5, <2>6
          DEF TypeOK, ClockTyped, TableTyped, RulesTyped, ThreadsTyped, KeptTyped, HistoryTyped
<1>4. ASSUME Said PROVE TypeOK'
  <2>1. MatchSome(Reader, "rx") /\ UNCHANGED <<clock, table, cur, at, events, kept, history>>
    BY <1>4 DEF Said
  <2>2. /\ pc' \in [Threads -> {"idle", "heard", "said", "quiet", "matching", "counting", "acting", "telling"}]
        /\ todo' \in [Threads -> SUBSET Objects]
    BY <1>0, <2>1, TheThreads, MatchSomeTypes
  <2>3. ThreadsTyped' BY <1>0, <2>1, <2>2 DEF ThreadsTyped
  <2> QED BY <1>0, <2>1, <2>3
          DEF TypeOK, ClockTyped, TableTyped, RulesTyped, ThreadsTyped, KeptTyped, HistoryTyped
<1>5. ASSUME NEW up \in BOOLEAN, DeviceState(up) PROVE TypeOK'
  <2>1. /\ MatchSome(Reader, "state") \/ UNCHANGED <<todo, pc>>
        /\ events' = events + 1
        /\ UNCHANGED <<now, table, cur, at, kept, history>>
    BY <1>5 DEF DeviceState, Begin
  <2>2. /\ pc' \in [Threads -> {"idle", "heard", "said", "quiet", "matching", "counting", "acting", "telling"}]
        /\ todo' \in [Threads -> SUBSET Objects]
    <3>1. CASE MatchSome(Reader, "state") BY <1>0, <3>1, TheThreads, MatchSomeTypes
    <3>2. CASE UNCHANGED <<todo, pc>> BY <1>0, <3>2 DEF ThreadsTyped
    <3> QED BY <2>1, <3>1, <3>2
  <2>3. ThreadsTyped' BY <1>0, <2>1, <2>2 DEF ThreadsTyped
  <2>4. ClockTyped' BY <1>0, <1>5 DEF DeviceState, ClockTyped
  <2> QED BY <1>0, <2>1, <2>3, <2>4
          DEF TypeOK, ClockTyped, TableTyped, RulesTyped, ThreadsTyped, KeptTyped, HistoryTyped
<1>6. ASSUME ReadQuiet PROVE TypeOK'
  <2>1. ThreadsTyped' BY <1>0, <1>6, TheThreads DEF ReadQuiet, ThreadsTyped
  <2> QED BY <1>0, <1>6, <2>1
          DEF ReadQuiet, TypeOK, ClockTyped, TableTyped, RulesTyped, ThreadsTyped, KeptTyped, HistoryTyped
<1>7. ASSUME MarkSilent PROVE TypeOK'
  <2> DEFINE hits == {o \in rules : rule[o].kind = "silence" /\ ~rule[o].silentFired}
  <2>1. /\ rule' = [o \in Objects |-> IF o \in hits THEN [rule[o] EXCEPT !.silentFired = TRUE] ELSE rule[o]]
        /\ todo' = [todo EXCEPT ![Timer] = hits]
        /\ pc' = [pc EXCEPT ![Timer] = IF hits = {} THEN "idle" ELSE "matching"]
        /\ UNCHANGED <<made, rules, clock, cur, at, events, kept, history>>
    BY <1>7 DEF MarkSilent
  <2>2. hits \in SUBSET Objects BY <1>0
  <2> HIDE DEF hits
  <2>3. \A o \in Objects : [rule[o] EXCEPT !.silentFired = TRUE] \in RuleObject
    BY <1>0, FieldChanges
  <2>4. \A o \in Objects : [rule[o] EXCEPT !.silentFired = TRUE].fireTimes = rule[o].fireTimes
    BY <1>0 DEF RulesTyped, RuleObject
  <2>5. RulesTyped' BY <1>0, <2>1, <2>3, <2>4 DEF RulesTyped
  <2>6. ThreadsTyped' BY <1>0, <2>1, <2>2 DEF ThreadsTyped
  <2> QED BY <1>0, <2>1, <2>5, <2>6
          DEF TypeOK, ClockTyped, TableTyped, RulesTyped, ThreadsTyped, KeptTyped, HistoryTyped
<1> QED BY <1>1, <1>2, <1>3, <1>4, <1>5, <1>6, <1>7

\* What a thread has to match, and is matching, are rules that have been made.
Known ==
  \A t \in Threads :
    /\ todo[t] \subseteq 1..made
    /\ pc[t] \in {"counting", "acting"} => cur[t] \in 1..made

\* What the locked part of _matched does to the times of a rule keeps them times.
LEMMA MatchedTimes ==
  ASSUME TypeOK, Known, NEW t \in Threads, pc[t] \in {"counting", "acting"}
  PROVE  /\ cur[t] \in Objects /\ at[t] \in Nat /\ rule[cur[t]] \in RuleObject
         /\ Matches(t, cur[t]) \in Seq(Nat)
         /\ Recent(rule[cur[t]].fireTimes, t, Minute) \in Seq(Nat)
         /\ Len(Recent(rule[cur[t]].fireTimes, t, Minute)) <= MaxPerMinute
<1>1. cur[t] \in Objects /\ at[t] \in Nat /\ rule[cur[t]] \in RuleObject
  BY TypeParts, RulesAreObjects DEF Known, ThreadsTyped, RulesTyped
<1>2. /\ rule[cur[t]].matchTimes \in Seq(Nat) /\ rule[cur[t]].fireTimes \in Seq(Nat)
      /\ Len(rule[cur[t]].fireTimes) <= MaxPerMinute
  BY <1>1, TypeParts DEF RulesTyped, RuleObject
<1>3. Append(rule[cur[t]].matchTimes, at[t]) \in Seq(Nat)
  BY <1>1, <1>2
<1>4. Matches(t, cur[t]) \in Seq(Nat)
  BY <1>1, <1>3, LimitsAreNumbers, RecentTyped DEF Matches
<1>5. /\ Recent(rule[cur[t]].fireTimes, t, Minute) \in Seq(Nat)
      /\ Len(Recent(rule[cur[t]].fireTimes, t, Minute)) <= Len(rule[cur[t]].fireTimes)
  BY <1>1, <1>2, LimitsAreNumbers, RecentTyped
<1>6. Len(Recent(rule[cur[t]].fireTimes, t, Minute)) <= MaxPerMinute
  BY <1>2, <1>5, LimitsAreNumbers
<1> QED BY <1>1, <1>4, <1>5, <1>6

LEMMA MatchTypes ==
  ASSUME TypeOK, Known, NEW t \in Threads, MatchStep(t)
  PROVE  TypeOK'
<1>0. ClockTyped /\ TableTyped /\ RulesTyped /\ ThreadsTyped /\ KeptTyped /\ HistoryTyped
  BY TypeParts
<1> USE DEF clock, table, delivery, kept, history
<1> DEFINE o == cur[t]
           recent == Recent(rule[o].fireTimes, t, Minute)
<1>1. ASSUME NEW x \in todo[t], BeginMatch(t, x) PROVE TypeOK'
  <2>1. x \in Objects BY <1>0 DEF ThreadsTyped
  <2>2. ThreadsTyped' BY <1>0, <1>1, <2>1 DEF BeginMatch, ThreadsTyped, ClockTyped
  <2> QED BY <1>0, <1>1, <2>2
          DEF BeginMatch, TypeOK, ClockTyped, TableTyped, RulesTyped, ThreadsTyped, KeptTyped, HistoryTyped
<1>2. ASSUME Ignore(t) PROVE TypeOK'
  <2>1. ThreadsTyped' BY <1>0, <1>2, NextRuleTypes DEF Ignore
  <2> QED BY <1>0, <1>2, <2>1
          DEF Ignore, TypeOK, ClockTyped, TableTyped, RulesTyped, ThreadsTyped, KeptTyped, HistoryTyped
<1>3. ASSUME pc[t] = "counting", NextRule(t), UNCHANGED <<made, rules, clock, kept, history>>,
             NEW m \in Seq(Nat), rule' = [rule EXCEPT ![o].matchTimes = m]
      PROVE  TypeOK'
  <2>1. ThreadsTyped' BY <1>0, <1>3, NextRuleTypes
  <2>2. o \in Objects /\ rule[o] \in RuleObject BY <1>3, MatchedTimes
  <2> HIDE DEF o
  <2>3. [rule[o] EXCEPT !.matchTimes = m] \in RuleObject BY <1>0, <2>2, FieldChanges
  <2>4. [rule[o] EXCEPT !.matchTimes = m].fireTimes = rule[o].fireTimes BY <2>2 DEF RuleObject
  <2>5. RulesTyped' BY <1>0, <1>3, <2>2, <2>3, <2>4, OneRuleChanges DEF RulesTyped
  <2> QED BY <1>0, <1>3, <2>1, <2>5
          DEF TypeOK, ClockTyped, TableTyped, RulesTyped, ThreadsTyped, KeptTyped, HistoryTyped
<1>4. ASSUME CountOnly(t) PROVE TypeOK'
  <2>1. /\ pc[t] = "counting" /\ NextRule(t) /\ UNCHANGED <<made, rules, clock, kept, history>>
        /\ rule' = [rule EXCEPT ![o].matchTimes = Matches(t, o)]
    BY <1>4 DEF CountOnly
  <2>2. Matches(t, o) \in Seq(Nat) BY <2>1, MatchedTimes
  <2> QED BY <1>3, <2>1, <2>2
<1>5. ASSUME CoolDown(t) PROVE TypeOK'
  <2>1. /\ pc[t] = "counting" /\ NextRule(t) /\ UNCHANGED <<made, rules, clock, kept, history>>
        /\ rule' = [rule EXCEPT ![o].matchTimes = <<>>]
    BY <1>5 DEF CoolDown, Enough
  <2>2. <<>> \in Seq(Nat) OBVIOUS
  <2> QED BY <1>3, <2>1, <2>2
<1>6. ASSUME TurnOff(t) PROVE TypeOK'
  <2>1. /\ pc[t] = "counting" /\ NextRule(t) /\ UNCHANGED <<made, rules, clock, kept, history>>
        /\ rule' = [rule EXCEPT ![o] = [rule[o] EXCEPT !.matchTimes = <<>>, !.fireTimes = recent,
                                                     !.enabled = FALSE]]
    BY <1>6 DEF TurnOff, Enough
  <2>2. o \in Objects /\ rule[o] \in RuleObject /\ recent \in Seq(Nat) /\ Len(recent) <= MaxPerMinute
    BY <2>1, MatchedTimes
  <2>3. ThreadsTyped' BY <1>0, <2>1, NextRuleTypes
  <2> HIDE DEF o, recent
  <2>4. [rule[o] EXCEPT !.matchTimes = <<>>, !.fireTimes = recent, !.enabled = FALSE] \in RuleObject
    <3>1. <<>> \in Seq(Nat) /\ FALSE \in BOOLEAN OBVIOUS
    <3> QED BY <1>0, <2>2, <3>1, FieldChanges
  <2>5. [rule[o] EXCEPT !.matchTimes = <<>>, !.fireTimes = recent, !.enabled = FALSE].fireTimes = recent
    BY <2>2 DEF RuleObject
  <2>6. RulesTyped' BY <1>0, <2>1, <2>2, <2>4, <2>5, OneRuleChanges
  <2> QED BY <1>0, <2>1, <2>3, <2>6
          DEF TypeOK, ClockTyped, TableTyped, RulesTyped, ThreadsTyped, KeptTyped, HistoryTyped
<1>7. ASSUME Fire(t) PROVE TypeOK'
  <2> DEFINE times == Append(recent, at[t])
             on == ~rule[o].limit.once
  <2>1. /\ pc[t] = "counting" /\ ~Storms(t, o)
        /\ rule' = [rule EXCEPT ![o] = [rule[o] EXCEPT !.matchTimes = <<>>, !.fireTimes = times,
                                                     !.lastFire = {at[t]}, !.enabled = on]]
        /\ fires' = [fires EXCEPT ![o] = Append(fires[o], at[t])]
        /\ pc' = [pc EXCEPT ![t] = "acting"]
        /\ UNCHANGED <<made, rules, clock, todo, cur, at, events, kept, lastOutput, armed, sent, approvals>>
    BY <1>7 DEF Fire, Enough
  <2>2. o \in Objects /\ at[t] \in Nat /\ rule[o] \in RuleObject /\ recent \in Seq(Nat)
    BY <2>1, MatchedTimes
  <2>3. Len(recent) < MaxPerMinute BY <2>1, <2>2, LimitsAreNumbers DEF Storms
  <2>4. on \in BOOLEAN OBVIOUS
  <2>5. ThreadsTyped' BY <1>0, <2>1 DEF ThreadsTyped
  <2> HIDE DEF o, recent, on
  <2>6. times \in Seq(Nat) /\ Len(times) <= MaxPerMinute BY <2>2, <2>3, LimitsAreNumbers
  <2> HIDE DEF times
  <2>7. [rule[o] EXCEPT !.matchTimes = <<>>, !.fireTimes = times, !.lastFire = {at[t]}, !.enabled = on]
          \in RuleObject
    <3>1. {at[t]} \in SUBSET Nat /\ <<>> \in Seq(Nat) BY <2>2
    <3> QED BY <1>0, <2>2, <2>4, <2>6, <3>1, FieldChanges
  <2>8. [rule[o] EXCEPT !.matchTimes = <<>>, !.fireTimes = times, !.lastFire = {at[t]}, !.enabled = on].fireTimes
          = times
    BY <2>2 DEF RuleObject
  <2>9. RulesTyped' BY <1>0, <2>1, <2>2, <2>6, <2>7, <2>8, OneRuleChanges
  <2>10. HistoryTyped' BY <1>0, <2>1, <2>2 DEF HistoryTyped
  <2> QED BY <1>0, <2>1, <2>5, <2>9, <2>10
          DEF TypeOK, ClockTyped, TableTyped, RulesTyped, ThreadsTyped, KeptTyped, HistoryTyped
<1>8. ASSUME Act(t) PROVE TypeOK'
  <2>1. o \in Objects /\ rule[o] \in RuleObject BY <1>8, MatchedTimes DEF Act
  <2>2. rule[o].content # Tells => <<rule[o].id, rule[o].content>> \in Nat \X Contents
    BY <2>1 DEF RuleObject, AnyContent
  <2>3. sent' \subseteq Nat \X Contents BY <1>0, <1>8, <2>2 DEF Act, HistoryTyped
  <2>4. ThreadsTyped' BY <1>0, <1>8 DEF Act, ThreadsTyped
  <2>5. KeptTyped' BY <1>0, <1>8 DEF Act, KeptTyped
  <2> QED BY <1>0, <1>8, <2>3, <2>4, <2>5
          DEF Act, TypeOK, ClockTyped, TableTyped, RulesTyped, ThreadsTyped, KeptTyped, HistoryTyped
<1>9. ASSUME Tell(t) PROVE TypeOK'
  <2>1. ThreadsTyped' BY <1>0, <1>9, NextRuleTypes DEF Tell
  <2>2. /\ ring' = IF Len(Append(ring, number[t])) > EventRing THEN Tail(Append(ring, number[t]))
                                                              ELSE Append(ring, number[t])
        /\ number' = [number EXCEPT ![t] = 0] /\ seq' = seq
    BY <1>9 DEF Tell
  <2>3. KeptTyped' BY <1>0, <2>2, LimitsAreNumbers DEF KeptTyped
  <2> QED BY <1>0, <1>9, <2>1, <2>3
          DEF Tell, TypeOK, ClockTyped, TableTyped, RulesTyped, ThreadsTyped, KeptTyped, HistoryTyped
<1> QED BY <1>1, <1>2, <1>4, <1>5, <1>6, <1>7, <1>8, <1>9 DEF MatchStep

LEMMA KnownHits ==
  ASSUME TypeOK, Known, NEW t \in Threads, NEW kind, MatchSome(t, kind), UNCHANGED <<made, cur>>
  PROVE  Known'
<1>1. PICK hits \in SUBSET {o \in rules : rule[o].kind = kind} :
        /\ todo' = [todo EXCEPT ![t] = hits]
        /\ pc'   = [pc EXCEPT ![t] = IF hits = {} THEN "idle" ELSE "matching"]
  BY DEF MatchSome
<1>2. hits \subseteq 1..made BY DEF TypeOK
<1> QED BY <1>1, <1>2 DEF Known, TypeOK

LEMMA KnownNextRule ==
  ASSUME TypeOK, Known, NEW t \in Threads, NextRule(t), made' = made
  PROVE  Known'
BY DEF Known, NextRule, TypeOK

LEMMA KnownStep == TypeOK /\ Known /\ [Next]_vars => Known'
<1> SUFFICES ASSUME TypeOK, Known, [Next]_vars PROVE Known' OBVIOUS
<1> USE DEF clock, table, delivery, kept, history
<1>1. CASE PersonStep
  <2>1. UNCHANGED delivery /\ made' \in {made, made + 1}
    BY <1>1 DEF PersonStep, Add, Insert, Make, Update, Approve, Enable, Remove
  <2>2. 1..made \subseteq 1..made' BY <2>1 DEF TypeOK
  <2> QED BY <2>1, <2>2 DEF Known
<1>2. CASE EngineStep
  <2>1. ASSUME NEW w \in Writers, Typed(w) PROVE Known'
    BY <2>1, TheThreads, KnownHits DEF Typed
  <2>2. CASE Heard BY <2>2, TheThreads DEF Heard, Known, TypeOK
  <2>3. CASE SilencesStartAgain BY <2>3, TheThreads DEF SilencesStartAgain, Known, TypeOK
  <2>4. CASE Said BY <2>4, TheThreads, KnownHits DEF Said
  <2>5. ASSUME NEW up \in BOOLEAN, DeviceState(up) PROVE Known'
    <3>1. CASE connected # up BY <2>5, <3>1, TheThreads, KnownHits DEF DeviceState
    <3>2. CASE connected = up BY <2>5, <3>2 DEF DeviceState, Known
    <3> QED BY <3>1, <3>2
  <2>6. CASE ReadQuiet BY <2>6, TheThreads DEF ReadQuiet, Known, TypeOK
  <2>7. CASE MarkSilent
    <3> DEFINE hits == {o \in rules : rule[o].kind = "silence" /\ ~rule[o].silentFired}
    <3>1. /\ todo' = [todo EXCEPT ![Timer] = hits]
          /\ pc' = [pc EXCEPT ![Timer] = IF hits = {} THEN "idle" ELSE "matching"]
          /\ UNCHANGED <<made, cur>>
      BY <2>7 DEF MarkSilent
    <3>2. hits \subseteq 1..made BY DEF TypeOK
    <3> HIDE DEF hits
    <3> QED BY <3>1, <3>2 DEF Known, TypeOK
  <2>8. ASSUME NEW t \in Threads, MatchStep(t) PROVE Known'
    <3>1. ASSUME NEW o \in todo[t], BeginMatch(t, o) PROVE Known'
      <4>1. o \in 1..made BY <3>1 DEF Known
      <4> QED BY <3>1, <4>1 DEF BeginMatch, Known, TypeOK
    <3>2. CASE Ignore(t) \/ CountOnly(t) \/ CoolDown(t) \/ TurnOff(t) \/ Tell(t)
      <4>1. NextRule(t) /\ made' = made
        BY <3>2 DEF Ignore, CountOnly, CoolDown, TurnOff, Tell
      <4> QED BY <4>1, KnownNextRule
    <3>3. CASE Fire(t)
      <4>1. /\ pc[t] = "counting" /\ pc' = [pc EXCEPT ![t] = "acting"]
            /\ UNCHANGED <<made, todo, cur>>
        BY <3>3 DEF Fire, Enough
      <4> QED BY <4>1 DEF Known, TypeOK
    <3>4. CASE Act(t) BY <3>4 DEF Act, Known, TypeOK
    <3> QED BY <2>8, <3>1, <3>2, <3>3, <3>4 DEF MatchStep
  <2> QED BY <1>2, <2>1, <2>2, <2>3, <2>4, <2>5, <2>6, <2>7, <2>8 DEF EngineStep
<1>3. CASE Tick BY <1>3 DEF Tick, Known
<1>4. CASE UNCHANGED vars BY <1>4 DEF vars, Known
<1> QED BY <1>1, <1>2, <1>3, <1>4 DEF Next

LEMMA TypesStep == TypeOK /\ Known /\ [Next]_vars => TypeOK'
<1> SUFFICES ASSUME TypeOK, Known, [Next]_vars PROVE TypeOK' OBVIOUS
<1>1. CASE EngineStep
  <2>1. ASSUME NEW t \in Threads, MatchStep(t) PROVE TypeOK' BY <2>1, MatchTypes
  <2> QED BY <1>1, <2>1, DeliveryTypes DEF EngineStep
<1>2. CASE Tick
  BY <1>2 DEF Tick, TypeOK, clock, table, delivery, kept, history
<1>3. CASE UNCHANGED vars
  BY <1>3 DEF vars, TypeOK, clock, table, delivery, kept, history
<1> QED BY <1>1, <1>2, <1>3, PersonTypes DEF Next

LEMMA TypesAtFirst == Init => TypeOK /\ Known
<1> SUFFICES ASSUME Init PROVE TypeOK /\ Known OBVIOUS
<1>1. NewRule(0, "rx", Tells, [once |-> FALSE, after |-> 1], FALSE, {}) \in RuleObject
  BY DEF NewRule, RuleObject, AnyContent
<1>2. RulesTyped
  <2> DEFINE r == NewRule(0, "rx", Tells, [once |-> FALSE, after |-> 1], FALSE, {})
  <2>1. r \in RuleObject /\ r.fireTimes = <<>> BY <1>1 DEF NewRule
  <2>2. rule = [o \in Objects |-> r] BY DEF Init
  <2> HIDE DEF r
  <2> QED BY <2>1, <2>2, LimitsAreNumbers DEF RulesTyped
<1>3. ClockTyped BY DEF Init, ClockTyped
<1>8. TableTyped BY LimitsAreNumbers DEF Init, TableTyped
<1>5. ThreadsTyped BY DEF Init, ThreadsTyped
<1>6. KeptTyped BY LimitsAreNumbers DEF Init, KeptTyped
<1>7. HistoryTyped BY DEF Init, HistoryTyped
<1>4. Known BY DEF Init, Known
<1> QED BY <1>2, <1>3, <1>4, <1>5, <1>6, <1>7, <1>8, TypeParts

LEMMA KnownAlways == Spec => [](TypeOK /\ Known)
<1>1. TypeOK /\ Known /\ [Next]_vars => (TypeOK /\ Known)'
  BY TypesStep, KnownStep
<1> QED BY <1>1, TypesAtFirst, PTL DEF Spec

\* The state is what the code says it is: no rule holds more times than MaxPerMinute and the
\* ring no more events than EVENT_RING, whatever the threads do.
THEOREM TypeCorrect == Spec => []TypeOK
BY KnownAlways, PTL

-----------------------------------------------------------------------------
(* What a step does to the rule objects *)

\* All but the matches counted and the mark of the silence is as it was.
SameRule(o) ==
  /\ rule'[o].id = rule[o].id /\ rule'[o].content = rule[o].content
  /\ rule'[o].approved = rule[o].approved /\ rule'[o].limit = rule[o].limit
  /\ rule'[o].enabled = rule[o].enabled /\ rule'[o].fireTimes = rule[o].fireTimes
  /\ rule'[o].lastFire = rule[o].lastFire

\* A rule object is made: it comes with no approval, or with that of the one it replaces.
Makes(id, content, limit, enabled, approved) ==
  /\ \E kind \in Kinds \union {"rx"} : Make(id, kind, content, limit, enabled, approved)
  /\ approved = {} \/ \E o \in Objects : rule[o].id = id /\ rule[o].approved = approved
  /\ UNCHANGED history

AnyMakes ==
  \E id \in Nat, content \in AnyContent, limit \in [once : BOOLEAN, after : Nat], enabled \in BOOLEAN,
     approved \in SUBSET AnyContent : Makes(id, content, limit, enabled, approved)

\* Nothing of a rule changes that its limits and its approval depend on; a rule may act.
LeavesRules ==
  /\ UNCHANGED <<made, fires, armed, approvals>>
  /\ \A o \in Objects : SameRule(o)
  /\ sent' = sent \/ \E t \in Threads : Act(t)

LEMMA StepKinds ==
  ASSUME TypeOK, Known, [Next]_vars
  PROVE  \/ AnyMakes
         \/ \E o \in Objects : Approve(o)
         \/ \E o \in Objects, on \in BOOLEAN : Enable(o, on)
         \/ \E t \in Threads : TurnOff(t) \/ Fire(t)
         \/ LeavesRules
<1> USE DEF clock, table, delivery, kept, history
<1>0. rule \in [Objects -> RuleObject] /\ rules \subseteq Objects /\ made \in Nat
  BY TypeParts, RulesAreObjects DEF RulesTyped, TableTyped, TypeOK
<1>1. ASSUME UNCHANGED <<table, fires, armed, approvals, sent>> PROVE LeavesRules
  BY <1>1 DEF LeavesRules, SameRule
<1>2. CASE PersonStep
  <2>1. ASSUME NEW kind \in Kinds, NEW content \in AnyContent, NEW limit \in Limits, NEW enabled \in BOOLEAN,
               Add(kind, content, limit, enabled)
        PROVE  AnyMakes
    <3>1. Makes(made + 1, content, limit, enabled, {})
      BY <2>1 DEF Add, Insert, Makes
    <3>2. made + 1 \in Nat /\ limit \in [once : BOOLEAN, after : Nat] /\ {} \in SUBSET AnyContent
      BY <1>0, LimitsAreNumbers
    <3> QED BY <3>1, <3>2 DEF AnyMakes
  <2>2. ASSUME NEW o \in rules, NEW content \in AnyContent, NEW enabled \in BOOLEAN, Update(o, content, enabled)
        PROVE  AnyMakes
    <3>1. /\ rule[o].id \in Nat /\ rule[o].kind \in Kinds \union {"rx"} /\ o \in Objects
          /\ rule[o].limit \in [once : BOOLEAN, after : Nat] /\ rule[o].approved \in SUBSET AnyContent
      BY <1>0 DEF RuleObject
    <3>2. Makes(rule[o].id, content, rule[o].limit, enabled, rule[o].approved)
      BY <2>2, <3>1 DEF Update, Makes
    <3> QED BY <3>1, <3>2 DEF AnyMakes
  <2>3. ASSUME NEW gone \in SUBSET rules, Remove(gone) PROVE LeavesRules
    BY <2>3 DEF Remove, LeavesRules, SameRule
  <2> QED BY <1>0, <1>2, <2>1, <2>2, <2>3 DEF PersonStep
<1>3. CASE EngineStep
  <2>1. CASE \/ \E w \in Writers : Typed(w)
             \/ \E up \in BOOLEAN : DeviceState(up)
             \/ Heard \/ Said \/ ReadQuiet
    <3>1. UNCHANGED <<table, fires, armed, approvals, sent>>
      BY <2>1 DEF Typed, Heard, Said, DeviceState, ReadQuiet
    <3> QED BY <1>1, <3>1
  <2>2. ASSUME NEW marked \in BOOLEAN, NEW these,
               rule' = [o \in Objects |-> IF o \in these THEN [rule[o] EXCEPT !.silentFired = marked]
                                                        ELSE rule[o]],
               UNCHANGED <<made, fires, armed, approvals, sent>>
        PROVE  LeavesRules
    BY <1>0, <2>2 DEF LeavesRules, SameRule, RuleObject
  <2>3. CASE SilencesStartAgain BY <2>2, <2>3 DEF SilencesStartAgain
  <2>4. CASE MarkSilent BY <2>2, <2>4 DEF MarkSilent
  <2>5. ASSUME NEW t \in Threads, MatchStep(t)
        PROVE  TurnOff(t) \/ Fire(t) \/ LeavesRules
    <3>1. CASE \/ \E o \in todo[t] : BeginMatch(t, o)
               \/ Ignore(t) \/ Tell(t)
      <4>1. UNCHANGED <<table, fires, armed, approvals, sent>>
        BY <3>1 DEF BeginMatch, Ignore, Tell
      <4> QED BY <1>1, <4>1
    <3>2. CASE CountOnly(t) \/ CoolDown(t)
      <4>1. /\ \E m \in {Matches(t, cur[t]), <<>>} : rule' = [rule EXCEPT ![cur[t]].matchTimes = m]
            /\ UNCHANGED <<made, fires, armed, approvals, sent>>
        BY <3>2 DEF CountOnly, CoolDown
      <4> QED BY <1>0, <4>1 DEF LeavesRules, SameRule, RuleObject
    <3>3. CASE Act(t)
      <4>1. UNCHANGED <<table, fires, armed, approvals>> BY <3>3 DEF Act
      <4> QED BY <3>3, <4>1 DEF LeavesRules, SameRule
    <3> QED BY <2>5, <3>1, <3>2, <3>3 DEF MatchStep
  <2> QED BY <1>3, <2>1, <2>3, <2>4, <2>5 DEF EngineStep
<1>4. CASE Tick BY <1>1, <1>4 DEF Tick
<1>5. CASE UNCHANGED vars BY <1>1, <1>5 DEF vars
<1> QED BY <1>2, <1>3, <1>4, <1>5 DEF Next

\* The rule object that is made is a new one, and it has not fired.
LEMMA TheMade ==
  ASSUME TypeOK, NEW id \in Nat, NEW content \in AnyContent, NEW limit \in [once : BOOLEAN, after : Nat],
         NEW enabled \in BOOLEAN, NEW approved \in SUBSET AnyContent,
         Makes(id, content, limit, enabled, approved)
  PROVE  /\ made + 1 \in Objects /\ made' = made + 1
         /\ rule'[made + 1].id = id /\ rule'[made + 1].content = content
         /\ rule'[made + 1].approved = approved /\ rule'[made + 1].limit = limit
         /\ rule'[made + 1].enabled = enabled
         /\ rule'[made + 1].fireTimes = <<>> /\ rule'[made + 1].lastFire = {}
         /\ \A o \in Objects : o # made + 1 => rule'[o] = rule[o]
         /\ UNCHANGED <<fires, armed, sent, approvals>>
<1>1. PICK kind \in Kinds \union {"rx"} : Make(id, kind, content, limit, enabled, approved)
  BY DEF Makes
<1> DEFINE r == NewRule(id, kind, content, limit, enabled, approved)
<1>2. /\ made \in Nat /\ made + 1 \in Objects /\ made' = made + 1
      /\ rule \in [Objects -> RuleObject] /\ rule' = [rule EXCEPT ![made + 1] = r]
  BY <1>1, LimitsAreNumbers DEF Make, Objects, TypeOK
<1>3. /\ r.id = id /\ r.content = content /\ r.approved = approved /\ r.limit = limit
      /\ r.enabled = enabled /\ r.fireTimes = <<>> /\ r.lastFire = {}
  BY DEF NewRule
<1>4. UNCHANGED <<fires, armed, sent, approvals>>
  BY DEF Makes, history
<1> HIDE DEF r
<1> QED BY <1>2, <1>3, <1>4

\* The rule object that is turned off keeps the end of its times, and does not fire.
LEMMA TheTurnedOff ==
  ASSUME TypeOK, Known, NEW t \in Threads, TurnOff(t)
  PROVE  /\ cur[t] \in 1..made /\ cur[t] \in Objects /\ at[t] \in Nat
         /\ rule'[cur[t]].fireTimes = Recent(rule[cur[t]].fireTimes, t, Minute)
         /\ rule'[cur[t]].enabled = FALSE /\ rule'[cur[t]].lastFire = rule[cur[t]].lastFire
         /\ \A o \in Objects : /\ rule'[o].id = rule[o].id /\ rule'[o].approved = rule[o].approved
                               /\ rule'[o].limit = rule[o].limit
                               /\ o # cur[t] => rule'[o] = rule[o]
         /\ UNCHANGED <<made, fires, armed, sent, approvals>>
<1> DEFINE o == cur[t]
           f == Recent(rule[o].fireTimes, t, Minute)
<1>1. pc[t] = "counting" BY DEF TurnOff, Enough
<1>2. o \in 1..made /\ o \in Objects /\ at[t] \in Nat /\ rule[o] \in RuleObject
  BY <1>1, MatchedTimes DEF Known
<1>3. rule \in [Objects -> RuleObject] BY DEF TypeOK
<1>4. rule' = [rule EXCEPT ![o] = [rule[o] EXCEPT !.matchTimes = <<>>, !.fireTimes = f, !.enabled = FALSE]]
  BY DEF TurnOff
<1>5. UNCHANGED <<made, fires, armed, sent, approvals>> BY DEF TurnOff, history
<1> HIDE DEF f, o
<1>6. /\ rule'[o] = [rule[o] EXCEPT !.matchTimes = <<>>, !.fireTimes = f, !.enabled = FALSE]
      /\ \A p \in Objects : p # o => rule'[p] = rule[p]
  BY <1>2, <1>3, <1>4
<1>7. /\ rule'[o].fireTimes = f /\ rule'[o].enabled = FALSE /\ rule'[o].lastFire = rule[o].lastFire
      /\ rule'[o].id = rule[o].id /\ rule'[o].approved = rule[o].approved /\ rule'[o].limit = rule[o].limit
  BY <1>2, <1>6 DEF RuleObject
<1>8. \A p \in Objects : /\ rule'[p].id = rule[p].id /\ rule'[p].approved = rule[p].approved
                         /\ rule'[p].limit = rule[p].limit
                         /\ p # o => rule'[p] = rule[p]
  BY <1>6, <1>7
<1> QED BY <1>2, <1>5, <1>7, <1>8 DEF o, f

\* The rule object that fires was enabled, its cooldown over and its minute not full; it
\* keeps the end of its times and the new one, and goes off if it fires once.
LEMMA TheFired ==
  ASSUME TypeOK, Known, NEW t \in Threads, Fire(t)
  PROVE  /\ cur[t] \in 1..made /\ cur[t] \in Objects /\ at[t] \in Nat
         /\ rule[cur[t]].enabled /\ ~Cooling(t, cur[t]) /\ ~Storms(t, cur[t])
         /\ rule'[cur[t]].fireTimes = Append(Recent(rule[cur[t]].fireTimes, t, Minute), at[t])
         /\ rule'[cur[t]].enabled = ~rule[cur[t]].limit.once /\ rule'[cur[t]].lastFire = {at[t]}
         /\ \A o \in Objects : /\ rule'[o].id = rule[o].id /\ rule'[o].approved = rule[o].approved
                               /\ rule'[o].limit = rule[o].limit
                               /\ o # cur[t] => rule'[o] = rule[o]
         /\ fires' = [fires EXCEPT ![cur[t]] = Append(fires[cur[t]], at[t])]
         /\ UNCHANGED <<made, armed, sent, approvals>>
<1> DEFINE o == cur[t]
           f == Append(Recent(rule[o].fireTimes, t, Minute), at[t])
           on == ~rule[o].limit.once
<1>1. pc[t] = "counting" /\ rule[o].enabled /\ ~Cooling(t, o) /\ ~Storms(t, o)
  BY DEF Fire, Enough, Counts
<1>2. o \in 1..made /\ o \in Objects /\ at[t] \in Nat /\ rule[o] \in RuleObject
  BY <1>1, MatchedTimes DEF Known
<1>3. rule \in [Objects -> RuleObject] BY DEF TypeOK
<1>4. rule' = [rule EXCEPT ![o] = [rule[o] EXCEPT !.matchTimes = <<>>, !.fireTimes = f,
                                                !.lastFire = {at[t]}, !.enabled = on]]
  BY DEF Fire
<1>5. /\ fires' = [fires EXCEPT ![o] = Append(fires[o], at[t])]
      /\ UNCHANGED <<made, armed, sent, approvals>>
  BY DEF Fire, table
<1> HIDE DEF f, o, on
<1>6. /\ rule'[o] = [rule[o] EXCEPT !.matchTimes = <<>>, !.fireTimes = f, !.lastFire = {at[t]}, !.enabled = on]
      /\ \A p \in Objects : p # o => rule'[p] = rule[p]
  BY <1>2, <1>3, <1>4
<1>7. /\ rule'[o].fireTimes = f /\ rule'[o].enabled = on /\ rule'[o].lastFire = {at[t]}
      /\ rule'[o].id = rule[o].id /\ rule'[o].approved = rule[o].approved /\ rule'[o].limit = rule[o].limit
  BY <1>2, <1>6 DEF RuleObject
<1>8. \A p \in Objects : /\ rule'[p].id = rule[p].id /\ rule'[p].approved = rule[p].approved
                         /\ rule'[p].limit = rule[p].limit
                         /\ p # o => rule'[p] = rule[p]
  BY <1>6, <1>7
<1> QED BY <1>1, <1>2, <1>5, <1>7, <1>8 DEF o, f, on

\* The rule object that a person turns on may fire again, and its minute starts anew.
LEMMA TheEnabled ==
  ASSUME TypeOK, NEW o \in Objects, NEW on \in BOOLEAN, Enable(o, on)
  PROVE  /\ rule'[o].enabled = on
         /\ rule'[o].fireTimes = (IF on THEN <<>> ELSE rule[o].fireTimes)
         /\ rule'[o].lastFire = rule[o].lastFire
         /\ \A p \in Objects : /\ rule'[p].id = rule[p].id /\ rule'[p].approved = rule[p].approved
                               /\ rule'[p].limit = rule[p].limit
                               /\ p # o => rule'[p] = rule[p]
         /\ armed' = (IF on THEN [armed EXCEPT ![o] = Len(fires[o])] ELSE armed)
         /\ UNCHANGED <<made, fires, sent, approvals>>
<1> DEFINE times == IF on THEN <<>> ELSE rule[o].fireTimes
<1>1. rule \in [Objects -> RuleObject] BY DEF TypeOK
<1>2. rule' = [rule EXCEPT ![o] = [rule[o] EXCEPT !.enabled = on, !.fireTimes = times]]
  BY DEF Enable
<1>3. /\ armed' = IF on THEN [armed EXCEPT ![o] = Len(fires[o])] ELSE armed
      /\ UNCHANGED <<made, fires, sent, approvals>>
  BY DEF Enable
<1> HIDE DEF times
<1>4. /\ rule'[o].enabled = on /\ rule'[o].fireTimes = times /\ rule'[o].lastFire = rule[o].lastFire
      /\ \A p \in Objects : /\ rule'[p].id = rule[p].id /\ rule'[p].approved = rule[p].approved
                            /\ rule'[p].limit = rule[p].limit
                            /\ p # o => rule'[p] = rule[p]
  BY <1>1, <1>2 DEF RuleObject
<1> QED BY <1>3, <1>4 DEF times

-----------------------------------------------------------------------------
(* Approval *)

\* What a rule object has as its approval, a person has approved under its id.
ApprovalsAreGiven ==
  /\ \A o \in Objects : \A content \in rule[o].approved : <<rule[o].id, content>> \in approvals
  /\ sent \subseteq approvals

LEMMA ApprovalsStep ==
  ASSUME TypeOK, Known, ApprovalsAreGiven, [Next]_vars
  PROVE  ApprovalsAreGiven'
<1>0. rule \in [Objects -> RuleObject] /\ Objects \subseteq Nat
  BY DEF TypeOK, Objects
<1>1. CASE AnyMakes
  <2>1. PICK id \in Nat, content \in AnyContent, limit \in [once : BOOLEAN, after : Nat], enabled \in BOOLEAN,
             approved \in SUBSET AnyContent : Makes(id, content, limit, enabled, approved)
    BY <1>1 DEF AnyMakes
  <2>2. /\ rule'[made + 1].id = id /\ rule'[made + 1].approved = approved
        /\ \A o \in Objects : o # made + 1 => rule'[o] = rule[o]
        /\ UNCHANGED <<sent, approvals>>
    BY <2>1, TheMade
  <2>3. \A c \in approved : <<id, c>> \in approvals
    BY <2>1 DEF Makes, ApprovalsAreGiven
  <2> QED BY <2>2, <2>3 DEF ApprovalsAreGiven
<1>2. ASSUME NEW o \in Objects, Approve(o) PROVE ApprovalsAreGiven'
  <2>1. /\ rule' = [rule EXCEPT ![o].approved = {rule[o].content}]
        /\ approvals' = approvals \union {<<rule[o].id, rule[o].content>>} /\ sent' = sent
    BY <1>2 DEF Approve, Approved
  <2>2. /\ rule'[o].approved = {rule[o].content} /\ rule'[o].id = rule[o].id
        /\ \A p \in Objects : p # o => rule'[p] = rule[p]
    BY <1>0, <2>1 DEF RuleObject
  <2> QED BY <2>1, <2>2 DEF ApprovalsAreGiven
<1>3. ASSUME \A o \in Objects : rule'[o].id = rule[o].id /\ rule'[o].approved = rule[o].approved,
             approvals' = approvals, sent' \subseteq approvals
      PROVE  ApprovalsAreGiven'
  BY <1>3 DEF ApprovalsAreGiven
<1>4. ASSUME NEW o \in Objects, NEW on \in BOOLEAN, Enable(o, on) PROVE ApprovalsAreGiven'
  <2>1. \A p \in Objects : rule'[p].id = rule[p].id /\ rule'[p].approved = rule[p].approved
    BY <1>4, TheEnabled
  <2>2. sent' = sent /\ approvals' = approvals
    BY <1>4, TheEnabled
  <2> QED BY <1>3, <2>1, <2>2 DEF ApprovalsAreGiven
<1>5. ASSUME NEW t \in Threads, TurnOff(t) \/ Fire(t) PROVE ApprovalsAreGiven'
  <2>1. \A p \in Objects : rule'[p].id = rule[p].id /\ rule'[p].approved = rule[p].approved
    BY <1>5, TheTurnedOff, TheFired
  <2>2. sent' = sent /\ approvals' = approvals
    BY <1>5, TheTurnedOff, TheFired
  <2> QED BY <1>3, <2>1, <2>2 DEF ApprovalsAreGiven
<1>6. CASE LeavesRules
  <2>1. sent' \subseteq approvals
    <3>1. ASSUME NEW t \in Threads, Act(t) PROVE sent' \subseteq approvals
      <4>1. cur[t] \in Objects BY <3>1, MatchedTimes DEF Act
      <4>2. rule[cur[t]].approved = {rule[cur[t]].content}
              => <<rule[cur[t]].id, rule[cur[t]].content>> \in approvals
        BY <4>1 DEF ApprovalsAreGiven
      <4> QED BY <3>1, <4>2 DEF Act, ApprovalsAreGiven
    <3> QED BY <1>6, <3>1 DEF LeavesRules, ApprovalsAreGiven
  <2> QED BY <1>3, <1>6, <2>1 DEF LeavesRules, SameRule
<1> QED BY <1>1, <1>2, <1>4, <1>5, <1>6, StepKinds

\* S46, a rule never sends to the device what no person approved under its id, although it
\* may be edited, and replaced, while a thread is matching it (triggers.py:276, 517).
THEOREM SendsOnlyTheApproved == Spec => []OnlyTheApprovedIsSent
<1>1. Init => ApprovalsAreGiven
  BY DEF Init, ApprovalsAreGiven, NewRule
<1>2. TypeOK /\ Known /\ ApprovalsAreGiven /\ [Next]_vars => ApprovalsAreGiven'
  BY ApprovalsStep
<1>3. ApprovalsAreGiven => OnlyTheApprovedIsSent
  BY DEF ApprovalsAreGiven, OnlyTheApprovedIsSent
<1> QED BY <1>1, <1>2, <1>3, KnownAlways, PTL DEF Spec

-----------------------------------------------------------------------------
(* Once, and the cooldown *)

\* A rule object that is not made has not fired; one that fires once and is enabled has not
\* fired since; the last time kept is that of the last firing.
FiringsOf(o) ==
  /\ o > made => fires[o] = <<>> /\ armed[o] = 0
  /\ armed[o] <= Len(fires[o])
  /\ rule[o].limit.once => Len(fires[o]) <= armed[o] + 1
  /\ rule[o].limit.once /\ rule[o].enabled => Len(fires[o]) = armed[o]
  /\ fires[o] = <<>> => rule[o].lastFire = {}
  /\ fires[o] # <<>> => rule[o].lastFire = {fires[o][Len(fires[o])]}

FiringsAreKept == \A o \in Objects : FiringsOf(o)

\* Nothing changes for a rule object that neither fires nor is turned on.
LEMMA FiringsStay ==
  ASSUME NEW o \in Objects, FiringsOf(o), made \in Nat, made' \in {made, made + 1},
         fires'[o] = fires[o], armed'[o] = armed[o], rule'[o].limit = rule[o].limit,
         rule'[o].lastFire = rule[o].lastFire,
         rule'[o].enabled = rule[o].enabled \/ ~rule'[o].enabled
  PROVE  FiringsOf(o)'
<1>1. o \in Nat BY DEF Objects
<1> QED BY <1>1 DEF FiringsOf

LEMMA FiringsStep ==
  ASSUME TypeOK, Known, FiringsAreKept, [Next]_vars
  PROVE  FiringsAreKept'
<1>0. /\ rule \in [Objects -> RuleObject] /\ Objects \subseteq Nat /\ made \in Nat
      /\ fires \in [Objects -> Seq(Nat)] /\ armed \in [Objects -> Nat]
  BY DEF TypeOK, Objects
<1> SUFFICES ASSUME NEW p \in Objects PROVE FiringsOf(p)'
  BY DEF FiringsAreKept
<1>a. FiringsOf(p) BY DEF FiringsAreKept
<1>1. CASE AnyMakes
  <2>1. PICK id \in Nat, content \in AnyContent, limit \in [once : BOOLEAN, after : Nat], enabled \in BOOLEAN,
             approved \in SUBSET AnyContent : Makes(id, content, limit, enabled, approved)
    BY <1>1 DEF AnyMakes
  <2>2. /\ made + 1 \in Objects /\ made' = made + 1 /\ rule'[made + 1].lastFire = {}
        /\ \A o \in Objects : o # made + 1 => rule'[o] = rule[o]
        /\ fires' = fires /\ armed' = armed
    BY <2>1, TheMade
  <2>3. CASE p # made + 1 BY <1>0, <1>a, <2>2, <2>3, FiringsStay
  <2>4. CASE p = made + 1
    <3>1. fires[p] = <<>> /\ armed[p] = 0 /\ Len(fires[p]) = 0
      BY <1>0, <1>a, <2>4 DEF FiringsOf
    <3> QED BY <1>0, <2>2, <2>4, <3>1 DEF FiringsOf
  <2> QED BY <2>3, <2>4
<1>2. ASSUME NEW o \in Objects, Approve(o) PROVE FiringsOf(p)'
  <2>1. /\ UNCHANGED <<made, fires, armed>>
        /\ rule'[p].limit = rule[p].limit /\ rule'[p].lastFire = rule[p].lastFire
        /\ rule'[p].enabled = rule[p].enabled
    BY <1>0, <1>2 DEF Approve, Approved, RuleObject
  <2> QED BY <1>0, <1>a, <2>1, FiringsStay
<1>3. ASSUME NEW o \in Objects, NEW on \in BOOLEAN, Enable(o, on) PROVE FiringsOf(p)'
  <2>1. /\ rule'[o].enabled = on /\ rule'[o].lastFire = rule[o].lastFire
        /\ rule'[o].limit = rule[o].limit /\ (p # o => rule'[p] = rule[p])
        /\ armed' = (IF on THEN [armed EXCEPT ![o] = Len(fires[o])] ELSE armed)
        /\ made' = made /\ fires' = fires
    BY <1>3, TheEnabled
  <2>2. CASE p # o
    <3>1. armed'[p] = armed[p] BY <1>0, <2>1, <2>2
    <3> QED BY <1>0, <1>a, <2>1, <2>2, <3>1, FiringsStay
  <2>3. CASE p = o /\ ~on BY <1>0, <1>a, <2>1, <2>3, FiringsStay
  <2>4. CASE p = o /\ on
    <3>1. armed'[p] = Len(fires[p]) /\ Len(fires[p]) \in Nat /\ (fires[p] = <<>> => Len(fires[p]) = 0)
      BY <1>0, <2>1, <2>4
    <3> QED BY <1>0, <1>a, <2>1, <2>4, <3>1 DEF FiringsOf
  <2> QED BY <2>2, <2>3, <2>4
<1>4. ASSUME NEW t \in Threads, TurnOff(t) PROVE FiringsOf(p)'
  <2>1. /\ UNCHANGED <<made, fires, armed>>
        /\ rule'[p].limit = rule[p].limit /\ rule'[p].lastFire = rule[p].lastFire
        /\ rule'[p].enabled = rule[p].enabled \/ ~rule'[p].enabled
    BY <1>4, TheTurnedOff
  <2> QED BY <1>0, <1>a, <2>1, FiringsStay
<1>5. ASSUME NEW t \in Threads, Fire(t) PROVE FiringsOf(p)'
  <2> DEFINE o == cur[t]
  <2>1. /\ o \in 1..made /\ o \in Objects /\ at[t] \in Nat /\ rule[o].enabled
        /\ rule'[o].enabled = ~rule[o].limit.once /\ rule'[o].lastFire = {at[t]}
        /\ rule'[o].limit = rule[o].limit /\ (p # o => rule'[p] = rule[p])
        /\ fires' = [fires EXCEPT ![o] = Append(fires[o], at[t])]
        /\ made' = made /\ armed' = armed
    BY <1>5, TheFired
  <2> HIDE DEF o
  <2>2. CASE p # o
    <3>1. fires'[p] = fires[p] BY <1>0, <2>1, <2>2
    <3> QED BY <1>0, <1>a, <2>1, <2>2, <3>1, FiringsStay
  <2>3. CASE p = o
    <3>1. /\ fires'[p] = Append(fires[p], at[t]) /\ fires'[p] # <<>>
          /\ Len(fires'[p]) = Len(fires[p]) + 1 /\ fires'[p][Len(fires'[p])] = at[t]
      BY <1>0, <2>1, <2>3
    <3>2. rule[p].limit.once => Len(fires[p]) = armed[p]
      BY <1>a, <2>1, <2>3 DEF FiringsOf
    <3>3. armed[p] \in Nat /\ Len(fires[p]) \in Nat /\ armed[p] <= Len(fires[p]) /\ ~(p > made)
      BY <1>0, <1>a, <2>1, <2>3 DEF FiringsOf
    <3>4. armed'[p] <= Len(fires'[p]) /\ ~(p > made')
      BY <2>1, <3>1, <3>3
    <3>5. rule'[p].limit.once => Len(fires'[p]) <= armed'[p] + 1
      BY <2>1, <2>3, <3>1, <3>2, <3>3
    <3>6. ~(rule'[p].limit.once /\ rule'[p].enabled)
      BY <2>1, <2>3
    <3>7. rule'[p].lastFire = {fires'[p][Len(fires'[p])]} BY <2>1, <2>3, <3>1
    <3> QED BY <3>1, <3>4, <3>5, <3>6, <3>7 DEF FiringsOf
  <2> QED BY <2>2, <2>3
<1>6. CASE LeavesRules
  BY <1>0, <1>a, <1>6, FiringsStay DEF LeavesRules, SameRule
<1> QED BY <1>1, <1>2, <1>3, <1>4, <1>5, <1>6, StepKinds

LEMMA FiringsAlways == Spec => []FiringsAreKept
<1>1. ASSUME Init PROVE FiringsAreKept
  <2>1. \A o \in Objects : fires[o] = <<>> /\ armed[o] = 0 /\ rule[o].lastFire = {}
    BY <1>1 DEF Init, NewRule
  <2>2. Len(<<>>) = 0 OBVIOUS
  <2> QED BY <2>1, <2>2 DEF FiringsAreKept, FiringsOf
<1>2. TypeOK /\ Known /\ FiringsAreKept /\ [Next]_vars => FiringsAreKept'
  BY FiringsStep
<1> QED BY <1>1, <1>2, KnownAlways, PTL DEF Spec

\* S46, "once": a rule object that fires once does so a single time until a person turns it
\* on again, however many threads were matching it when it did (triggers.py:476).
THEOREM OnceIsOnce == Spec => []OnceMeansOnce
<1>1. FiringsAreKept => OnceMeansOnce
  BY DEF FiringsAreKept, FiringsOf, OnceMeansOnce
<1> QED BY <1>1, FiringsAlways, PTL

LEMMA CooldownStep ==
  ASSUME TypeOK, Known, FiringsAreKept, CooldownHolds, [Next]_vars
  PROVE  CooldownHolds'
<1>0. fires \in [Objects -> Seq(Nat)] BY DEF TypeOK
<1>1. ASSUME NEW t \in Threads, Fire(t) PROVE CooldownHolds'
  <2> DEFINE o == cur[t]
  <2>1. /\ o \in Objects /\ at[t] \in Nat /\ ~Cooling(t, o)
        /\ fires' = [fires EXCEPT ![o] = Append(fires[o], at[t])]
    BY <1>1, TheFired
  <2>2. fires[o] # <<>> => rule[o].lastFire = {fires[o][Len(fires[o])]}
    BY <2>1 DEF FiringsAreKept, FiringsOf
  <2> HIDE DEF o
  <2>3. fires[o] \in Seq(Nat) BY <1>0, <2>1
  <2>4. fires[o] # <<>> => fires[o][Len(fires[o])] + Cooldown <= at[t]
    <3>1. ASSUME fires[o] # <<>> PROVE fires[o][Len(fires[o])] + Cooldown <= at[t]
      <4>1. fires[o][Len(fires[o])] \in Nat BY <2>3, <3>1
      <4>2. ~(at[t] < fires[o][Len(fires[o])] + Cooldown) BY <2>1, <2>2, <3>1 DEF Cooling
      <4> QED BY <2>1, <4>1, <4>2, LimitsAreNumbers
    <3> QED BY <3>1
  <2>5. ASSUME NEW p \in Objects, NEW n \in DOMAIN fires'[p], n > 1
        PROVE  fires'[p][n - 1] + Cooldown <= fires'[p][n]
    <3>1. CASE p # o BY <1>0, <2>1, <2>5, <3>1 DEF CooldownHolds
    <3>2. CASE p = o
      <4>1. fires'[p] = Append(fires[p], at[t]) BY <1>0, <2>1, <3>2
      <4>2. CASE n \in DOMAIN fires[p]
        <5>1. fires'[p][n - 1] = fires[p][n - 1] /\ fires'[p][n] = fires[p][n]
          BY <2>3, <2>5, <3>2, <4>1, <4>2
        <5> QED BY <2>5, <4>2, <5>1 DEF CooldownHolds
      <4>3. CASE n = Len(fires[p]) + 1
        <5>1. fires[p] # <<>> /\ fires'[p][n] = at[t] /\ fires'[p][n - 1] = fires[p][Len(fires[p])]
          BY <2>1, <2>3, <2>5, <3>2, <4>1, <4>3
        <5> QED BY <2>4, <3>2, <5>1
      <4> QED BY <2>3, <2>5, <3>2, <4>1, <4>2, <4>3
    <3> QED BY <3>1, <3>2
  <2> QED BY <2>5 DEF CooldownHolds
<1>2. ASSUME fires' = fires PROVE CooldownHolds'
  BY <1>2 DEF CooldownHolds
<1>3. AnyMakes => fires' = fires
  BY DEF AnyMakes, Makes, history
<1>4. \A o \in Objects, on \in BOOLEAN : Approve(o) \/ Enable(o, on) => fires' = fires
  BY DEF Approve, Enable
<1>5. \A t \in Threads : TurnOff(t) => fires' = fires
  BY DEF TurnOff, history
<1>6. LeavesRules => fires' = fires
  BY DEF LeavesRules
<1> QED BY <1>1, <1>2, <1>3, <1>4, <1>5, <1>6, StepKinds

\* S46, "cooldown": two firings of a rule object are at least that far apart, although every
\* thread reads the clock before it takes the lock, so that their times come in any order
\* (triggers.py:460, 474).
THEOREM CooldownIsKept == Spec => []CooldownHolds
<1>1. Init => CooldownHolds
  BY DEF Init, CooldownHolds
<1>2. TypeOK /\ Known /\ FiringsAreKept /\ CooldownHolds /\ [Next]_vars => CooldownHolds'
  BY CooldownStep
<1> QED BY <1>1, <1>2, KnownAlways, FiringsAlways, PTL DEF Spec

-----------------------------------------------------------------------------
(* The cap *)

\* An end of a sequence.
LEMMA AnEnd ==
  ASSUME NEW s \in Seq(Nat), NEW m \in 1..(Len(s) + 1)
  PROVE  /\ SubSeq(s, m, Len(s)) \in Seq(Nat) /\ Len(SubSeq(s, m, Len(s))) = Len(s) - m + 1
         /\ \A i \in 1..(Len(s) - m + 1) : SubSeq(s, m, Len(s))[i] = s[m + i - 1]
<1> DEFINE n == Len(s)
<1>1. n \in Nat /\ m \in Int /\ n \in Int /\ 1 <= m /\ m <= n + 1 /\ \A i \in m..n : s[i] \in Nat
  OBVIOUS
<1>2. /\ SubSeq(s, m, n) \in Seq(Nat) /\ Len(SubSeq(s, m, n)) = IF m <= n THEN n - m + 1 ELSE 0
      /\ \A i \in 1..(n - m + 1) : SubSeq(s, m, n)[i] = s[m + i - 1]
  BY <1>1, SubSeqProperties
<1> HIDE DEF n
<1>3. Len(SubSeq(s, m, n)) = n - m + 1 BY <1>1, <1>2
<1> QED BY <1>2, <1>3 DEF n

\* An end of an end of a sequence is an end of it.
LEMMA EndOfAnEnd ==
  ASSUME NEW s \in Seq(Nat), NEW d \in 0..Len(s), NEW e, e = SubSeq(s, d + 1, Len(s)),
         NEW k \in 1..(Len(e) + 1)
  PROVE  /\ e \in Seq(Nat) /\ Len(e) = Len(s) - d /\ \A i \in 1..Len(e) : e[i] = s[d + i]
         /\ d + k - 1 \in d..Len(s)
         /\ SubSeq(e, k, Len(e)) = SubSeq(s, d + k, Len(s))
<1>1. d + 1 \in 1..(Len(s) + 1) /\ d \in Nat /\ Len(s) \in Nat
  OBVIOUS
<1>2. /\ e \in Seq(Nat) /\ Len(e) = Len(s) - d /\ \A i \in 1..Len(e) : e[i] = s[d + i]
  <2>1. /\ SubSeq(s, d + 1, Len(s)) \in Seq(Nat)
        /\ Len(SubSeq(s, d + 1, Len(s))) = Len(s) - (d + 1) + 1
        /\ \A i \in 1..(Len(s) - (d + 1) + 1) : SubSeq(s, d + 1, Len(s))[i] = s[d + 1 + i - 1]
    BY <1>1, AnEnd
  <2> QED BY <1>1, <2>1
<1>3. /\ SubSeq(e, k, Len(e)) \in Seq(Nat) /\ Len(SubSeq(e, k, Len(e))) = Len(e) - k + 1
      /\ \A i \in 1..(Len(e) - k + 1) : SubSeq(e, k, Len(e))[i] = e[k + i - 1]
  BY <1>2, AnEnd
<1>4. k \in Nat /\ 1 <= k /\ k <= Len(e) + 1 /\ d + k \in 1..(Len(s) + 1) /\ d + k - 1 \in d..Len(s)
  BY <1>1, <1>2
<1>5. /\ SubSeq(s, d + k, Len(s)) \in Seq(Nat) /\ Len(SubSeq(s, d + k, Len(s))) = Len(s) - (d + k) + 1
      /\ \A i \in 1..(Len(s) - (d + k) + 1) : SubSeq(s, d + k, Len(s))[i] = s[d + k + i - 1]
  BY <1>4, AnEnd
<1> DEFINE f == SubSeq(e, k, Len(e))
           g == SubSeq(s, d + k, Len(s))
<1>6. Len(f) = Len(g) BY <1>1, <1>2, <1>3, <1>4, <1>5
<1>7. ASSUME NEW i \in 1..Len(f) PROVE f[i] = g[i]
  <2>1. i \in Nat /\ 1 <= i /\ i <= Len(e) - k + 1 BY <1>2, <1>3, <1>4
  <2>2. f[i] = e[k + i - 1] BY <1>2, <1>3, <1>4, <2>1
  <2>3. e[k + i - 1] = s[d + k + i - 1]
    <3>1. k + i - 1 \in 1..Len(e) /\ d + (k + i - 1) = d + k + i - 1 BY <1>1, <1>2, <1>4, <2>1
    <3> QED BY <1>2, <3>1
  <2>4. g[i] = s[d + k + i - 1]
    <3>1. i \in 1..(Len(s) - (d + k) + 1) BY <1>1, <1>2, <1>4, <2>1
    <3> QED BY <1>5, <3>1
  <2> QED BY <2>2, <2>3, <2>4
<1>8. f \in Seq(Nat) /\ g \in Seq(Nat) BY <1>3, <1>5
<1> HIDE DEF f, g
<1>9. f = g BY <1>6, <1>7, <1>8, SeqEqual
<1> QED BY <1>2, <1>4, <1>9 DEF f, g

\* An end of a sequence and one more is an end of the sequence and one more.
LEMMA EndAndOneMore ==
  ASSUME NEW s \in Seq(Nat), NEW m \in 1..(Len(s) + 1), NEW x \in Nat
  PROVE  Append(SubSeq(s, m, Len(s)), x) = SubSeq(Append(s, x), m, Len(Append(s, x)))
<1> DEFINE f == SubSeq(s, m, Len(s))
           all == Append(s, x)
           g == SubSeq(all, m, Len(all))
<1>1. /\ f \in Seq(Nat) /\ Len(f) = Len(s) - m + 1
      /\ \A i \in 1..(Len(s) - m + 1) : f[i] = s[m + i - 1]
  BY AnEnd
<1>2. /\ all \in Seq(Nat) /\ Len(all) = Len(s) + 1 /\ all[Len(s) + 1] = x
      /\ \A i \in 1..Len(s) : all[i] = s[i]
  OBVIOUS
<1> HIDE DEF all
<1>3. m \in 1..(Len(all) + 1) /\ m \in Nat /\ 1 <= m /\ m <= Len(s) + 1 /\ Len(s) \in Nat BY <1>2
<1>4. /\ g \in Seq(Nat) /\ Len(g) = Len(all) - m + 1
      /\ \A i \in 1..(Len(all) - m + 1) : g[i] = all[m + i - 1]
  BY <1>2, <1>3, AnEnd
<1> HIDE DEF f, g
<1>5. /\ Append(f, x) \in Seq(Nat) /\ Len(Append(f, x)) = Len(f) + 1
      /\ Append(f, x)[Len(f) + 1] = x /\ \A i \in 1..Len(f) : Append(f, x)[i] = f[i]
  BY <1>1, AppendProperties
<1>6. Len(Append(f, x)) = Len(g) BY <1>1, <1>2, <1>3, <1>4, <1>5
<1>7. ASSUME NEW i \in 1..Len(Append(f, x)) PROVE Append(f, x)[i] = g[i]
  <2>1. i \in Nat /\ 1 <= i /\ i <= Len(s) - m + 2 BY <1>1, <1>3, <1>5
  <2>2. g[i] = all[m + i - 1] BY <1>2, <1>3, <1>4, <2>1
  <2>3. CASE i = Len(f) + 1
    <3>1. m + i - 1 = Len(s) + 1 BY <1>1, <1>3, <2>3
    <3> QED BY <1>2, <1>5, <2>2, <2>3, <3>1
  <2>4. CASE i # Len(f) + 1
    <3>1. Len(f) = Len(s) - m + 1 /\ Len(s) \in Nat /\ m \in Nat /\ 1 <= m BY <1>1, <1>3
    <3>2. i \in 1..(Len(s) - m + 1) BY <2>1, <2>4, <3>1
    <3>3. i \in 1..Len(f) /\ m + i - 1 \in 1..Len(s) BY <3>1, <3>2
    <3> QED BY <1>1, <1>2, <1>5, <2>2, <3>2, <3>3
  <2> QED BY <2>3, <2>4
<1>8. Append(f, x) = g BY <1>4, <1>5, <1>6, <1>7, SeqEqual
<1> QED BY <1>8 DEF f, g, all

\* How many of the times of a rule object are no longer kept.
Gone(o) == Len(fires[o]) - Len(rule[o].fireTimes)

\* The times a rule object keeps are those of its last firings; while it is enabled, those
\* that went since it was turned on are more than a minute before its last.
KeepsTheEnd(o) ==
  /\ Gone(o) \in armed[o]..Len(fires[o])
  /\ rule[o].fireTimes = SubSeq(fires[o], Gone(o) + 1, Len(fires[o]))

GoneAreOld(o) ==
  \A i \in (armed[o] + 1)..Gone(o) : fires[o][i] + Minute < fires[o][Len(fires[o])]

CapOf(o) ==
  /\ KeepsTheEnd(o)
  /\ rule[o].enabled => GoneAreOld(o)
  /\ \A n \in DOMAIN fires[o] :
       n > armed[o] + MaxPerMinute => fires[o][n] > fires[o][n - MaxPerMinute] + Minute

CapInv == \A o \in Objects : CapOf(o)

LEMMA CapStays ==
  ASSUME NEW o \in Objects, CapOf(o), fires'[o] = fires[o], armed'[o] = armed[o],
         rule'[o].fireTimes = rule[o].fireTimes,
         rule'[o].enabled = rule[o].enabled \/ ~rule'[o].enabled
  PROVE  CapOf(o)'
BY DEF CapOf, KeepsTheEnd, GoneAreOld, Gone

\* What is taken off the times by a thread leaves the end of the firings.
LEMMA RecentOfTheKept ==
  ASSUME TypeOK, NEW o \in Objects, NEW t \in Threads, at[t] \in Nat, KeepsTheEnd(o)
  PROVE  \E e \in Gone(o)..Len(fires[o]) :
           /\ Recent(rule[o].fireTimes, t, Minute) = SubSeq(fires[o], e + 1, Len(fires[o]))
           /\ Len(Recent(rule[o].fireTimes, t, Minute)) = Len(fires[o]) - e
           /\ \A i \in (Gone(o) + 1)..e : fires[o][i] + Minute < at[t]
<1> DEFINE s == fires[o]
           times == rule[o].fireTimes
           d == Gone(o)
<1>1. s \in Seq(Nat) /\ armed[o] \in Nat /\ d \in 0..Len(s) /\ times = SubSeq(s, d + 1, Len(s))
  BY DEF KeepsTheEnd, TypeOK
<1> HIDE DEF s, times, d
<1>2. d + 1 \in 1..(Len(s) + 1) /\ Len(s) \in Nat /\ d \in Nat BY <1>1
<1>3. times \in Seq(Nat) BY <1>1, <1>2, AnEnd
<1>4. PICK k \in 1..(Len(times) + 1) :
        /\ Recent(times, t, Minute) = SubSeq(times, k, Len(times))
        /\ \A i \in 1..(k - 1) : at[t] > times[i] + Minute
  BY <1>3, RecentIsTheEnd, LimitsAreNumbers
<1>5. /\ Len(times) = Len(s) - d /\ \A i \in 1..Len(times) : times[i] = s[d + i]
      /\ d + k - 1 \in d..Len(s)
      /\ SubSeq(times, k, Len(times)) = SubSeq(s, d + k, Len(s))
  BY <1>1, EndOfAnEnd, SMTT(30)
<1> DEFINE e == d + k - 1
<1>6. e \in d..Len(s) /\ e + 1 = d + k /\ e + 1 \in 1..(Len(s) + 1) BY <1>2, <1>5
<1>7. Recent(times, t, Minute) = SubSeq(s, e + 1, Len(s)) BY <1>4, <1>5, <1>6
<1>8. Len(SubSeq(s, e + 1, Len(s))) = Len(s) - (e + 1) + 1 BY <1>1, <1>6, AnEnd
<1>9. Len(Recent(times, t, Minute)) = Len(s) - e BY <1>2, <1>6, <1>7, <1>8
<1>10. ASSUME NEW i \in (d + 1)..e PROVE s[i] + Minute < at[t]
  <2>1. i - d \in 1..(k - 1) /\ i - d \in 1..Len(times) /\ d + (i - d) = i
    BY <1>2, <1>5, <1>6
  <2>2. times[i - d] = s[i] BY <1>5, <2>1
  <2>3. at[t] > times[i - d] + Minute BY <1>4, <2>1
  <2>4. i \in 1..Len(s) BY <1>2, <1>6
  <2>5. s[i] \in Nat BY <1>1, <2>4, SMTT(30)
  <2> QED BY <2>2, <2>3, <2>5, LimitsAreNumbers
<1> HIDE DEF e
<1> QED BY <1>6, <1>7, <1>9, <1>10 DEF s, times, d

\* The firing is at least as late as the last, and not too soon after those it takes off.
LEMMA CapWhenItFires ==
  ASSUME TypeOK, Known, FiringsAreKept, CapInv, NEW t \in Threads, Fire(t),
         NEW o \in Objects, o = cur[t]
  PROVE  CapOf(o)'
<1> DEFINE s == fires[o]
           x == at[t]
           recent == Recent(rule[o].fireTimes, t, Minute)
<1>1. /\ x \in Nat /\ rule'[o].fireTimes = Append(recent, x)
      /\ fires' = [fires EXCEPT ![o] = Append(s, x)] /\ armed' = armed
  BY TheFired
<1>0. rule[o].enabled /\ ~Cooling(t, o) /\ ~Storms(t, o)
  BY TheFired
<1>2. s \in Seq(Nat) /\ armed[o] \in Nat /\ fires'[o] = Append(s, x) BY <1>1 DEF TypeOK
<1> DEFINE d == Gone(o)
<1>3. KeepsTheEnd(o) /\ GoneAreOld(o) BY <1>0 DEF CapInv, CapOf
<1>4. PICK e \in d..Len(s) :
        /\ recent = SubSeq(s, e + 1, Len(s))
        /\ Len(recent) = Len(s) - e
        /\ \A i \in (d + 1)..e : s[i] + Minute < x
  BY <1>1, <1>3, RecentOfTheKept
<1>5. d \in armed[o]..Len(s) /\ \A i \in (armed[o] + 1)..d : s[i] + Minute < s[Len(s)]
  BY <1>3 DEF KeepsTheEnd, GoneAreOld
<1>6. s # <<>> => s[Len(s)] <= x
  <2>1. s # <<>> => rule[o].lastFire = {s[Len(s)]} BY DEF FiringsAreKept, FiringsOf
  <2>2. \A last \in rule[o].lastFire : ~(x < last + Cooldown) BY <1>0 DEF Cooling
  <2> HIDE DEF s, x
  <2>3. ASSUME s # <<>> PROVE s[Len(s)] <= x
    <3>1. s[Len(s)] \in Nat BY <1>2, <2>3
    <3>2. ~(x < s[Len(s)] + Cooldown) BY <2>1, <2>2, <2>3
    <3> QED BY <1>1, <3>1, <3>2, LimitsAreNumbers
  <2> QED BY <2>3
<1>7. Len(recent) < MaxPerMinute
  <2>1. ~(Len(recent) >= MaxPerMinute) BY <1>0 DEF Storms
  <2>2. Len(recent) \in Int BY <1>2, <1>4, <1>5
  <2> HIDE DEF recent
  <2> QED BY <2>1, <2>2, LimitsAreNumbers
<1>8. \A n \in DOMAIN s : n > armed[o] + MaxPerMinute => s[n] > s[n - MaxPerMinute] + Minute
  BY <1>1 DEF CapInv, CapOf
<1> HIDE DEF s, x, recent, d
<1>9. /\ Len(s) \in Nat /\ armed[o] \in Nat /\ d \in Nat /\ e \in Nat
      /\ armed[o] <= d /\ d <= e /\ e <= Len(s)
  BY <1>2, <1>4, <1>5
<1>10. /\ Append(s, x) \in Seq(Nat) /\ Len(Append(s, x)) = Len(s) + 1 /\ Append(s, x)[Len(s) + 1] = x
       /\ \A i \in 1..Len(s) : Append(s, x)[i] = s[i]
  BY <1>1, <1>2, AppendProperties
<1> DEFINE all == Append(s, x)
<1>11. \A i \in 1..Len(s) : all[i] = s[i] /\ s[i] \in Nat BY <1>2, <1>10
<1> HIDE DEF all
<1>12. ASSUME NEW i \in (armed[o] + 1)..e PROVE all[i] + Minute < x
  <2>1. i \in 1..Len(s) /\ i \in Nat BY <1>9
  <2>2. CASE i <= d
    <3>1. i \in (armed[o] + 1)..d /\ s # <<>> BY <1>2, <1>9, <2>1, <2>2
    <3>2. s[i] + Minute < s[Len(s)] /\ s[Len(s)] <= x BY <1>5, <1>6, <3>1
    <3>3. Len(s) \in 1..Len(s) BY <1>9, <2>1
    <3>4. s[i] \in Nat /\ s[Len(s)] \in Nat /\ all[i] = s[i] BY <1>11, <2>1, <3>3
    <3> QED BY <1>1, <3>2, <3>4, LimitsAreNumbers
  <2>3. CASE i > d
    <3>1. i \in (d + 1)..e BY <1>9, <2>1, <2>3
    <3>2. s[i] + Minute < x /\ all[i] = s[i] BY <1>4, <1>11, <2>1, <3>1
    <3> QED BY <3>2
  <2> QED BY <1>9, <2>1, <2>2, <2>3
<1>13. rule'[o].fireTimes = SubSeq(all, e + 1, Len(all))
  <2>1. e + 1 \in 1..(Len(s) + 1) BY <1>9
  <2> QED BY <1>1, <1>2, <1>4, <2>1, EndAndOneMore DEF all
<1>14. fires'[o] = all BY <1>2 DEF all
<1>15. Len(all) = Len(s) + 1 /\ all[Len(s) + 1] = x /\ all \in Seq(Nat) BY <1>10 DEF all
<1>16. Gone(o)' = e
  <2>1. Len(rule'[o].fireTimes) = Len(all) - (e + 1) + 1
    <3>1. e + 1 \in 1..(Len(all) + 1) BY <1>9, <1>15
    <3> QED BY <1>13, <1>15, <3>1, AnEnd
  <2>2. Len(fires'[o]) - Len(rule'[o].fireTimes) = e BY <1>9, <1>14, <1>15, <2>1
  <2> QED BY <2>2 DEF Gone
<1>17. KeepsTheEnd(o)'
  <2>1. e \in armed'[o]..Len(all) BY <1>1, <1>9, <1>15
  <2> QED BY <1>13, <1>14, <1>16, <2>1 DEF KeepsTheEnd
<1>18. GoneAreOld(o)'
  <2>1. armed'[o] = armed[o] /\ all[Len(all)] = x BY <1>1, <1>15
  <2> QED BY <1>12, <1>14, <1>16, <2>1 DEF GoneAreOld
<1>19. ASSUME NEW n \in DOMAIN all, n > armed[o] + MaxPerMinute
       PROVE  all[n] > all[n - MaxPerMinute] + Minute
  <2>1. n \in 1..(Len(s) + 1) BY <1>15
  <2>2. n - MaxPerMinute \in 1..Len(s) BY <1>9, <1>19, <2>1, LimitsAreNumbers
  <2>3. CASE n = Len(s) + 1
    <3>1. n - MaxPerMinute \in (armed[o] + 1)..e
      <4>1. Len(s) - e < MaxPerMinute BY <1>4, <1>7
      <4> QED BY <1>9, <1>19, <2>3, <4>1, LimitsAreNumbers
    <3>2. all[n - MaxPerMinute] + Minute < x BY <1>12, <3>1
    <3>3. all[n - MaxPerMinute] \in Nat /\ all[n] = x BY <1>11, <1>15, <2>2, <2>3
    <3> QED BY <1>1, <3>2, <3>3, LimitsAreNumbers
  <2>4. CASE n # Len(s) + 1
    <3>1. n \in 1..Len(s) /\ n \in DOMAIN s BY <1>2, <1>9, <2>1, <2>4
    <3>2. s[n] > s[n - MaxPerMinute] + Minute BY <1>8, <1>19, <3>1
    <3>3. all[n] = s[n] /\ all[n - MaxPerMinute] = s[n - MaxPerMinute] BY <1>11, <2>2, <3>1
    <3> QED BY <3>2, <3>3
  <2> QED BY <2>3, <2>4
<1>20. armed'[o] = armed[o] BY <1>1
<1> QED BY <1>14, <1>17, <1>18, <1>19, <1>20 DEF CapOf

\* A rule object that has not fired, or not since it was turned on, keeps no time.
Anew(o) == fires[o] \in Seq(Nat) /\ armed[o] = Len(fires[o]) /\ rule[o].fireTimes = <<>>

LEMMA CapAnew == \A o \in Objects : Anew(o) => CapOf(o)
<1> SUFFICES ASSUME NEW o \in Objects, Anew(o) PROVE CapOf(o) OBVIOUS
<1> DEFINE n == Len(fires[o])
<1>1. fires[o] \in Seq(Nat) /\ armed[o] = n /\ rule[o].fireTimes = <<>> BY DEF Anew
<1>2. n \in Nat /\ Len(<<>>) = 0 BY <1>1
<1>3. Gone(o) = n BY <1>1, <1>2 DEF Gone
<1>4. SubSeq(fires[o], n + 1, n) = <<>> BY <1>2, SubSeqEmpty
<1>5. n \in armed[o]..n BY <1>1, <1>2
<1>6. KeepsTheEnd(o) BY <1>1, <1>3, <1>4, <1>5 DEF KeepsTheEnd
<1>7. GoneAreOld(o) BY <1>1, <1>2, <1>3 DEF GoneAreOld
<1>8. \A m \in DOMAIN fires[o] : ~(m > armed[o] + MaxPerMinute) BY <1>1, <1>2, LimitsAreNumbers
<1> QED BY <1>6, <1>7, <1>8 DEF CapOf

LEMMA CapAnewNext == (\A o \in Objects : Anew(o) => CapOf(o))'
BY CapAnew, PTL

LEMMA CapStep ==
  ASSUME TypeOK, Known, FiringsAreKept, CapInv, [Next]_vars
  PROVE  CapInv'
<1>0. /\ rule \in [Objects -> RuleObject] /\ Objects \subseteq Nat /\ made \in Nat
      /\ fires \in [Objects -> Seq(Nat)] /\ armed \in [Objects -> Nat]
  BY DEF TypeOK, Objects
<1> SUFFICES ASSUME NEW p \in Objects PROVE CapOf(p)'
  BY DEF CapInv
<1>a. CapOf(p) BY DEF CapInv
<1>b. Anew(p)' => CapOf(p)' BY CapAnewNext
<1>1. CASE AnyMakes
  <2>1. PICK id \in Nat, content \in AnyContent, limit \in [once : BOOLEAN, after : Nat], enabled \in BOOLEAN,
             approved \in SUBSET AnyContent : Makes(id, content, limit, enabled, approved)
    BY <1>1 DEF AnyMakes
  <2>2. /\ made + 1 \in Objects /\ rule'[made + 1].fireTimes = <<>>
        /\ \A o \in Objects : o # made + 1 => rule'[o] = rule[o]
        /\ fires' = fires /\ armed' = armed
    BY <2>1, TheMade
  <2>3. CASE p # made + 1 BY <1>a, <2>2, <2>3, CapStays
  <2>4. CASE p = made + 1
    <3>1. fires[p] = <<>> /\ armed[p] = 0 /\ Len(<<>>) = 0
      BY <1>0, <2>4 DEF FiringsAreKept, FiringsOf
    <3>2. Anew(p)' BY <1>0, <2>2, <2>4, <3>1 DEF Anew
    <3> QED BY <3>2, <1>b
  <2> QED BY <2>3, <2>4
<1>2. ASSUME NEW o \in Objects, Approve(o) PROVE CapOf(p)'
  <2>1. /\ fires' = fires /\ armed' = armed
        /\ rule'[p].fireTimes = rule[p].fireTimes /\ rule'[p].enabled = rule[p].enabled
    BY <1>0, <1>2 DEF Approve, Approved, RuleObject
  <2> QED BY <1>a, <2>1, CapStays
<1>3. ASSUME NEW o \in Objects, NEW on \in BOOLEAN, Enable(o, on) PROVE CapOf(p)'
  <2>1. /\ rule'[o].enabled = on
        /\ rule'[o].fireTimes = (IF on THEN <<>> ELSE rule[o].fireTimes)
        /\ (p # o => rule'[p] = rule[p])
        /\ armed' = (IF on THEN [armed EXCEPT ![o] = Len(fires[o])] ELSE armed)
        /\ fires' = fires
    BY <1>3, TheEnabled
  <2>2. CASE p # o
    <3>1. armed'[p] = armed[p] BY <1>0, <2>1, <2>2
    <3> QED BY <1>a, <2>1, <2>2, <3>1, CapStays
  <2>3. CASE p = o /\ ~on BY <1>a, <2>1, <2>3, CapStays
  <2>4. CASE p = o /\ on
    <3>1. Anew(p)' BY <1>0, <2>1, <2>4 DEF Anew
    <3> QED BY <3>1, <1>b
  <2> QED BY <2>2, <2>3, <2>4
<1>4. ASSUME NEW t \in Threads, TurnOff(t) PROVE CapOf(p)'
  <2> DEFINE o == cur[t]
  <2>1. /\ o \in Objects /\ at[t] \in Nat /\ ~rule'[o].enabled
        /\ rule'[o].fireTimes = Recent(rule[o].fireTimes, t, Minute)
        /\ (p # o => rule'[p] = rule[p])
        /\ fires' = fires /\ armed' = armed
    BY <1>4, TheTurnedOff
  <2> HIDE DEF o
  <2>2. CASE p # o BY <1>a, <2>1, <2>2, CapStays
  <2>3. CASE p = o
    <3> DEFINE d == Gone(p)
    <3>1. KeepsTheEnd(p) BY <1>a DEF CapOf
    <3>2. PICK e \in d..Len(fires[p]) :
            /\ Recent(rule[p].fireTimes, t, Minute) = SubSeq(fires[p], e + 1, Len(fires[p]))
            /\ Len(Recent(rule[p].fireTimes, t, Minute)) = Len(fires[p]) - e
      BY <2>1, <3>1, RecentOfTheKept
    <3>3. e \in Nat /\ e \in armed[p]..Len(fires[p]) /\ Len(fires[p]) \in Nat
      <4>1. armed[p] \in Nat /\ Len(fires[p]) \in Nat BY <1>0
      <4> QED BY <3>1, <3>2, <4>1 DEF KeepsTheEnd
    <3>4. Gone(p)' = e
      <4>1. fires'[p] = fires[p] /\ rule'[p].fireTimes = Recent(rule[p].fireTimes, t, Minute) BY <2>1, <2>3
      <4>2. Len(rule'[p].fireTimes) = Len(fires[p]) - e BY <3>2, <4>1
      <4>3. Len(fires[p]) - (Len(fires[p]) - e) = e BY <3>3
      <4> QED BY <4>1, <4>2, <4>3 DEF Gone
    <3>5. KeepsTheEnd(p)' BY <2>1, <2>3, <3>2, <3>3, <3>4 DEF KeepsTheEnd
    <3>6. \A n \in DOMAIN fires'[p] :
            n > armed'[p] + MaxPerMinute => fires'[p][n] > fires'[p][n - MaxPerMinute] + Minute
      BY <1>a, <2>1 DEF CapOf
    <3> QED BY <2>1, <2>3, <3>5, <3>6 DEF CapOf
  <2> QED BY <2>2, <2>3
<1>5. ASSUME NEW t \in Threads, Fire(t) PROVE CapOf(p)'
  <2>1. /\ cur[t] \in Objects /\ (p # cur[t] => rule'[p] = rule[p]) /\ armed' = armed
        /\ fires' = [fires EXCEPT ![cur[t]] = Append(fires[cur[t]], at[t])]
    BY <1>5, TheFired
  <2>2. CASE p # cur[t]
    <3>1. fires'[p] = fires[p] BY <1>0, <2>1, <2>2
    <3> QED BY <1>a, <2>1, <2>2, <3>1, CapStays
  <2>3. CASE p = cur[t] BY <1>5, <2>3, CapWhenItFires
  <2> QED BY <2>2, <2>3
<1>6. CASE LeavesRules
  BY <1>a, <1>6, CapStays DEF LeavesRules, SameRule
<1> QED BY <1>1, <1>2, <1>3, <1>4, <1>5, <1>6, StepKinds

\* S46, "a rule that hits max_per_minute is disabled": since it was last turned on, no rule
\* object fires more than MaxPerMinute times in a minute, on however many threads it matches
\* and whatever order they read the clock in (triggers.py:467).
THEOREM CapIsKept == Spec => []CapHolds
<1>1. ASSUME Init PROVE CapInv
  <2>1. \A o \in Objects : fires[o] = <<>> /\ armed[o] = 0 /\ rule[o].fireTimes = <<>>
    BY <1>1 DEF Init, NewRule
  <2>2. <<>> \in Seq(Nat) /\ Len(<<>>) = 0 OBVIOUS
  <2> QED BY <2>1, <2>2, CapAnew DEF CapInv, Anew
<1>2. TypeOK /\ Known /\ FiringsAreKept /\ CapInv /\ [Next]_vars => CapInv'
  BY CapStep
<1>3. CapInv => CapHolds
  BY DEF CapInv, CapOf, CapHolds
<1> QED BY <1>1, <1>2, <1>3, KnownAlways, FiringsAlways, PTL DEF Spec
=============================================================================
