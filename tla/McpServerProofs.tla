--------------------------- MODULE McpServerProofs ---------------------------
(***************************************************************************)
(* What holds of the MCP server, the session client it drives and the      *)
(* share it is a client of, for any number of callers and connections, any *)
(* policy, any sizes of the rings and queues, and any uses.                *)
(*                                                                         *)
(* The types, and what becomes of a client's rules, stand alone.  Then the *)
(* answers: what a step does to what is on its way is stated once, for     *)
(* every step (StepKinds), and the invariants on numbers, on connections   *)
(* to come, on the server's table, on the truth of what is told and on     *)
(* answers being returned once each ask only that.  Last, the marks of     *)
(* the tools that read.                                                    *)
(***************************************************************************)
EXTENDS McpServer, SequenceTheorems, TLAPS

USE PolicyAssumption, StatesAssumption, ShareBounds, ClientAssumption, CallersAssumption

-----------------------------------------------------------------------------
(* Types.  They rest on who may be in a request, and on what the rings hold. *)

LockInv ==
  /\ socket \/ connected => conn # 0
  /\ \A t \in Callers : asking[t] \in {"send", "await"} => asker = t
  /\ \A t \in Callers : asking[t] = "send" => asked < MaxRequests
  /\ \A t \in Callers : asking[t] \in {"await", "decision"} => request[t].about \in Requests

Consecutive(ring, last) == \A i \in DOMAIN ring : ring[i] = last - Len(ring) + i
Rising(ring) == \A i, j \in DOMAIN ring : i < j => ring[i] < ring[j]

RingInv ==
  /\ Len(lines) <= lastN /\ (lastN > 0 => Len(lines) > 0)
  /\ Consecutive(lines, lastN)
  /\ Rising(events)

Messages == Answer \union Told

LEMMA MessageTypes ==
  /\ \A is \in {"line", "prompt", "trigger", "pong"} : [is |-> is] \in Messages
  /\ \A state \in States : [is |-> "status", state |-> state] \in Messages
  /\ \A is \in {"watch_ok", "watch_fail", "watch_list"}, a \in Requests :
       [is |-> is, about |-> a, status |-> "done"] \in Messages
  /\ \A status \in {"refused", "pending", "declined", "accepted"}, a \in Requests :
       [is |-> "proposal", about |-> a, status |-> status] \in Messages
BY DEF Messages, Answer, Told

Rules == [id : Requests, kind : RuleKinds, conn : Conns, approved : BOOLEAN]

LEMMA RuleTypes ==
  \A p \in Requests, kind \in {"watch", "rule"}, c \in Conns, approved \in BOOLEAN :
    [id |-> p, kind |-> kind, conn |-> c, approved |-> approved] \in Rules
BY DEF Rules, RuleKinds

LEMMA ConnTypes == conn \in 0..MaxConns /\ conn # 0 => conn \in Conns
BY DEF Conns

ToClientOK == toClient \in [Conns -> Seq(Messages)] /\ \A c \in Conns : Len(toClient[c]) <= QueueMax

LEMMA ReplyTypes ==
  ASSUME ToClientOK, NEW c \in Conns, NEW msg \in Messages, Reply(c, msg)
  PROVE  ToClientOK'
<1>1. CASE toClient' = [toClient EXCEPT ![c] = Append(@, msg)] /\ Len(toClient[c]) < QueueMax
  <2>1. Append(toClient[c], msg) \in Seq(Messages) /\ Len(Append(toClient[c], msg)) = Len(toClient[c]) + 1
    BY DEF ToClientOK
  <2> QED BY <1>1, <2>1 DEF ToClientOK
<1>2. CASE toClient' = toClient
  BY <1>2 DEF ToClientOK
<1> QED BY <1>1, <1>2 DEF Reply

LEMMA PublishTypes ==
  ASSUME ShareTypeOK, ToClientOK, NEW msg \in Messages, Publish(msg)
  PROVE  /\ ToClientOK' /\ said' \in 0..MaxSaid
         /\ link' \in [Conns -> {"none", "up", "silent", "closed"}]
<1>1. ASSUME NEW c \in Conns PROVE toClient'[c] \in Seq(Messages) /\ Len(toClient'[c]) <= QueueMax
  <2>1. CASE toClient'[c] = Append(toClient[c], msg) /\ Len(toClient[c]) # QueueMax
    <3>1. Append(toClient[c], msg) \in Seq(Messages) /\ Len(Append(toClient[c], msg)) = Len(toClient[c]) + 1
      BY DEF ToClientOK
    <3> QED BY <2>1, <3>1 DEF ToClientOK
  <2>2. CASE toClient'[c] = toClient[c]
    BY <2>2 DEF ToClientOK
  <2> QED BY <2>1, <2>2 DEF Publish
<1>2. toClient' = [c \in Conns |-> toClient'[c]]
  BY DEF Publish
<1>3. ToClientOK'
  BY <1>1, <1>2 DEF ToClientOK
<1> QED BY <1>3 DEF Publish, ShareTypeOK

LEMMA ShareTypes == ShareTypeOK => ToClientOK
BY DEF ShareTypeOK, ToClientOK, Messages

LEMMA ServeTypes ==
  ASSUME ShareTypeOK, NEW c \in Conns, NEW kind, Serve(c, kind)
  PROVE  /\ Head(toServer[c]) \in Request /\ About(c) \in Requests
         /\ toServer' \in [Conns -> Seq(Request)]
<1>1. toServer[c] \in Seq(Request) /\ toServer[c] # <<>>
  BY DEF ShareTypeOK, Serve
<1>2. Head(toServer[c]) \in Request /\ Tail(toServer[c]) \in Seq(Request)
  BY <1>1
<1> QED BY <1>2 DEF Serve, ShareTypeOK, About, Request

LEMMA HandlerTypes ==
  ASSUME ShareTypeOK, NEW c \in Conns, ServerHandles(c)
  PROVE  ShareTypeOK'
<1>0. ToClientOK
  BY ShareTypes
<1>1. CASE RefuseWatch(c)
  <2>1. About(c) \in Requests /\ toServer' \in [Conns -> Seq(Request)]
    BY <1>1, ServeTypes DEF RefuseWatch
  <2>2. ToClientOK'
    BY <1>0, <1>1, <2>1, ReplyTypes, MessageTypes DEF RefuseWatch, AnswerWatch
  <2> QED BY <1>1, <2>1, <2>2 DEF RefuseWatch, Serve, ShareTypeOK, ToClientOK, Messages
<1>2. CASE AddWatch(c)
  <2>1. About(c) \in Requests /\ toServer' \in [Conns -> Seq(Request)]
    BY <1>2, ServeTypes DEF AddWatch
  <2>2. ToClientOK'
    BY <1>0, <1>2, <2>1, ReplyTypes, MessageTypes DEF AddWatch, AnswerWatch
  <2>3. rules' \subseteq Rules
    BY <1>2, <2>1, RuleTypes DEF AddWatch, ShareTypeOK, Rules
  <2> QED BY <1>2, <2>1, <2>2, <2>3 DEF AddWatch, Serve, ShareTypeOK, ToClientOK, Messages, Rules
<1>3. CASE RemoveWatch(c)
  <2>1. About(c) \in Requests /\ toServer' \in [Conns -> Seq(Request)]
    BY <1>3, ServeTypes DEF RemoveWatch
  <2>2. ToClientOK'
    <3>1. \E is \in {"watch_ok", "watch_fail"} : AnswerWatch(c, is)
      BY <1>3 DEF RemoveWatch
    <3> QED BY <1>0, <2>1, <3>1, ReplyTypes, MessageTypes DEF AnswerWatch
  <2>3. rules' \subseteq rules
    BY <1>3 DEF RemoveWatch
  <2> QED BY <1>3, <2>1, <2>2, <2>3 DEF RemoveWatch, Serve, ShareTypeOK, ToClientOK, Messages
<1>4. CASE ListWatches(c)
  <2>1. About(c) \in Requests /\ toServer' \in [Conns -> Seq(Request)]
    BY <1>4, ServeTypes DEF ListWatches
  <2>2. ToClientOK'
    BY <1>0, <1>4, <2>1, ReplyTypes, MessageTypes DEF ListWatches, AnswerWatch
  <2> QED BY <1>4, <2>1, <2>2 DEF ListWatches, Serve, ShareTypeOK, ToClientOK, Messages
<1>5. CASE RefuseProposal(c)
  <2>1. About(c) \in Requests /\ toServer' \in [Conns -> Seq(Request)]
    BY <1>5, ServeTypes DEF RefuseProposal
  <2>2. ToClientOK'
    BY <1>0, <1>5, <2>1, ReplyTypes, MessageTypes DEF RefuseProposal
  <2> QED BY <1>5, <2>1, <2>2 DEF RefuseProposal, Serve, ShareTypeOK, ToClientOK, Messages
<1>6. CASE TakeProposal(c)
  <2>1. About(c) \in Requests /\ toServer' \in [Conns -> Seq(Request)]
    BY <1>6, ServeTypes DEF TakeProposal
  <2>2. ToClientOK'
    BY <1>0, <1>6, <2>1, ReplyTypes, MessageTypes DEF TakeProposal
  <2>3. proposal' \in [Requests -> [step : {"none", "asking", "added", "approved", "done"}, conn : Conns]]
    BY <1>6, <2>1 DEF TakeProposal, ShareTypeOK
  <2> QED BY <1>6, <2>1, <2>2, <2>3 DEF TakeProposal, Serve, ShareTypeOK, ToClientOK, Messages
<1>7. CASE Leave(c)
  BY <1>7 DEF Leave, ShareTypeOK
<1>8. CASE RemoveLeft(c)
  BY <1>8 DEF RemoveLeft, ShareTypeOK
<1> QED BY <1>1, <1>2, <1>3, <1>4, <1>5, <1>6, <1>7, <1>8 DEF ServerHandles

LEMMA DecideTypes ==
  ASSUME ShareTypeOK, NEW p \in Requests, Decide(p)
  PROVE  ShareTypeOK'
<1>0. ToClientOK /\ proposal[p].conn \in Conns
  BY ShareTypes DEF ShareTypeOK
<1>1. ASSUME NEW from, NEW to \in {"added", "approved", "done"}, Step(p, from, to)
      PROVE  proposal' \in [Requests -> [step : {"none", "asking", "added", "approved", "done"}, conn : Conns]]
  BY <1>1 DEF Step, ShareTypeOK
<1>2. CASE Decline(p)
  <2>1. ToClientOK'
    BY <1>0, <1>2, ReplyTypes, MessageTypes DEF Decline, Tell
  <2> QED BY <1>1, <1>2, <2>1 DEF Decline, Step, ShareTypeOK, ToClientOK, Messages
<1>3. CASE AddAgreed(p)
  <2>1. rules' \subseteq Rules
    BY <1>0, <1>3, RuleTypes DEF AddAgreed, ShareTypeOK, Rules
  <2> QED BY <1>1, <1>3, <2>1 DEF AddAgreed, Step, ShareTypeOK, Rules
<1>4. CASE ApproveAdded(p)
  <2>1. PICK r \in rules : rules' = (rules \ {r}) \union {[r EXCEPT !.approved = TRUE]}
    BY <1>4 DEF ApproveAdded
  <2>2. rules' \subseteq [id : Requests, kind : RuleKinds, conn : Conns, approved : BOOLEAN]
    BY <2>1 DEF ShareTypeOK
  <2> QED BY <1>1, <1>4, <2>2 DEF ApproveAdded, Step, ShareTypeOK
<1>5. CASE ApproveRaises(p)
  BY <1>1, <1>5 DEF ApproveRaises, Step, ShareTypeOK
<1>6. CASE AnswerAccepted(p)
  <2>1. ToClientOK'
    BY <1>0, <1>6, ReplyTypes, MessageTypes DEF AnswerAccepted, Tell
  <2> QED BY <1>1, <1>6, <2>1 DEF AnswerAccepted, Step, ShareTypeOK, ToClientOK, Messages
<1> QED BY <1>2, <1>3, <1>4, <1>5, <1>6 DEF Decide

LEMMA WorldTypes ==
  ASSUME ShareTypeOK, World
  PROVE  ShareTypeOK'
<1>0. ToClientOK
  BY ShareTypes
<1>1. ASSUME NEW kind \in {"line", "prompt", "trigger"}, DeviceSays(kind) PROVE ShareTypeOK'
  <2>1. ToClientOK' /\ said' \in 0..MaxSaid /\ link' \in [Conns -> {"none", "up", "silent", "closed"}]
    BY <1>0, <1>1, PublishTypes, MessageTypes DEF DeviceSays
  <2> QED BY <1>1, <2>1 DEF DeviceSays, Publish, ShareTypeOK, ToClientOK, Messages
<1>2. ASSUME NEW state \in States, StatusChanges(state) PROVE ShareTypeOK'
  <2>1. ToClientOK' /\ said' \in 0..MaxSaid /\ link' \in [Conns -> {"none", "up", "silent", "closed"}]
    BY <1>0, <1>2, PublishTypes, MessageTypes DEF StatusChanges
  <2> QED BY <1>2, <2>1 DEF StatusChanges, Publish, ShareTypeOK, ToClientOK, Messages
<1>3. ASSUME NEW c \in Conns, LinkGoesSilent(c) PROVE ShareTypeOK'
  BY <1>3 DEF LinkGoesSilent, ShareTypeOK
<1>4. CASE StopShare
  <2>1. PICK sent \in [Conns -> 0..QueueMax] :
          /\ \A c \in Conns : sent[c] <= Len(toClient[c])
          /\ toClient' = [c \in Conns |-> SubSeq(toClient[c], 1, sent[c])]
    BY <1>4 DEF StopShare
  <2>2. ASSUME NEW c \in Conns PROVE toClient'[c] \in Seq(Messages) /\ Len(toClient'[c]) <= QueueMax
    <3>1. toClient[c] \in Seq(Messages) /\ sent[c] \in 0..Len(toClient[c])
      BY <1>0, <2>1 DEF ToClientOK
    <3> QED BY <2>1, <3>1, SubSeqProperties DEF ToClientOK
  <2>3. ToClientOK'
    BY <2>1, <2>2 DEF ToClientOK
  <2> QED BY <1>4, <2>3 DEF StopShare, ShareTypeOK, ToClientOK, Messages
<1>5. CASE StopRemovesRules
  BY <1>5 DEF StopRemovesRules, ShareTypeOK
<1> QED BY <1>1, <1>2, <1>3, <1>4, <1>5, HandlerTypes, DecideTypes DEF World

-----------------------------------------------------------------------------

\* What is left when n is put at the end of a ring.
IsPushed(new, ring, n, max) ==
  /\ new \in Seq(Nat) /\ Len(new) = (IF Len(ring) < max THEN Len(ring) + 1 ELSE max)
  /\ Len(new) \in Nat /\ Len(new) <= Len(ring) + 1
  /\ new[Len(new)] = n
  /\ \A i \in 1..(Len(new) - 1) : new[i] = ring[i + (Len(ring) + 1 - Len(new))]

LEMMA PushedIs ==
  ASSUME NEW ring \in Seq(Nat), NEW n \in Nat, NEW max \in Nat \ {0}, Len(ring) <= max
  PROVE  IsPushed(Pushed(ring, n, max), ring, n, max)
<1> SUFFICES ASSUME NEW new, new = Pushed(ring, n, max) PROVE IsPushed(new, ring, n, max)
  OBVIOUS
<1>1. CASE Len(ring) < max
  BY <1>1 DEF Pushed, IsPushed
<1>2. CASE ~(Len(ring) < max)
  <2>1. new = Append(Tail(ring), n) /\ Len(ring) = max /\ ring # <<>>
    BY <1>2 DEF Pushed
  <2>2. Tail(ring) \in Seq(Nat) /\ Len(Tail(ring)) = max - 1
    BY <2>1
  <2>3. \A i \in 1..(max - 1) : Tail(ring)[i] = ring[i + 1]
    BY <2>1
  <2>4. new \in Seq(Nat) /\ Len(new) = max /\ new[max] = n
    BY <2>1, <2>2
  <2>5. \A i \in 1..(max - 1) : new[i] = Tail(ring)[i]
    BY <2>1, <2>2
  <2> QED BY <1>2, <2>1, <2>3, <2>4, <2>5 DEF IsPushed
<1> QED BY <1>1, <1>2

LEMMA PushedRuns ==
  ASSUME NEW ring \in Seq(Nat), NEW last \in Nat, NEW max \in Nat \ {0}, Len(ring) <= max,
         Consecutive(ring, last), NEW new, new = Pushed(ring, last + 1, max)
  PROVE  Consecutive(new, last + 1)
<1> SUFFICES ASSUME NEW i \in DOMAIN new PROVE new[i] = last + 1 - Len(new) + i
  BY DEF Consecutive
<1>0. last + 1 \in Nat
  OBVIOUS
<1>1. /\ new \in Seq(Nat) /\ Len(new) \in Nat /\ Len(new) <= Len(ring) + 1
      /\ new[Len(new)] = last + 1
      /\ \A k \in 1..(Len(new) - 1) : new[k] = ring[k + (Len(ring) + 1 - Len(new))]
  <2>1. IsPushed(new, ring, last + 1, max)
    BY <1>0, PushedIs
  <2> QED BY <2>1 DEF IsPushed
<1>2. /\ DOMAIN new = 1..Len(new) /\ DOMAIN ring = 1..Len(ring)
      /\ Len(ring) \in Nat /\ Len(new) \in Nat /\ Len(new) <= Len(ring) + 1
  BY <1>1
<1>3. CASE i = Len(new)
  BY <1>1, <1>2, <1>3
<1>4. CASE i # Len(new)
  <2>1. i \in 1..(Len(new) - 1) /\ i + (Len(ring) + 1 - Len(new)) \in 1..Len(ring)
    BY <1>2, <1>4
  <2>2. new[i] = last - Len(ring) + (i + (Len(ring) + 1 - Len(new)))
    BY <1>1, <1>2, <2>1 DEF Consecutive
  <2> QED BY <1>2, <2>1, <2>2
<1> QED BY <1>3, <1>4

LEMMA PushedRises ==
  ASSUME NEW ring \in Seq(Nat), NEW n \in Nat, NEW max \in Nat \ {0}, Len(ring) <= max,
         Rising(ring), \A i \in DOMAIN ring : ring[i] < n,
         NEW new, new = Pushed(ring, n, max)
  PROVE  Rising(new)
<1> SUFFICES ASSUME NEW i \in DOMAIN new, NEW j \in DOMAIN new, i < j
             PROVE  new[i] < new[j]
  BY DEF Rising
<1>1. /\ new \in Seq(Nat) /\ Len(new) \in Nat /\ Len(new) <= Len(ring) + 1
      /\ new[Len(new)] = n
      /\ \A k \in 1..(Len(new) - 1) : new[k] = ring[k + (Len(ring) + 1 - Len(new))]
  <2>1. IsPushed(new, ring, n, max)
    BY PushedIs
  <2> QED BY <2>1 DEF IsPushed
<1>2. /\ DOMAIN new = 1..Len(new) /\ DOMAIN ring = 1..Len(ring)
      /\ Len(ring) \in Nat /\ Len(new) \in Nat /\ Len(new) <= Len(ring) + 1
  BY <1>1
<1>3. i \in 1..(Len(new) - 1) /\ i + (Len(ring) + 1 - Len(new)) \in 1..Len(ring)
  BY <1>1, <1>2
<1>4. CASE j = Len(new)
  BY <1>1, <1>2, <1>3, <1>4
<1>5. CASE j # Len(new)
  <2>1. j \in 1..(Len(new) - 1) /\ j + (Len(ring) + 1 - Len(new)) \in 1..Len(ring)
    BY <1>2, <1>5
  <2>2. i + (Len(ring) + 1 - Len(new)) < j + (Len(ring) + 1 - Len(new))
    BY <1>2, <1>3, <2>1
  <2> QED BY <1>1, <1>2, <1>3, <2>1, <2>2 DEF Rising
<1> QED BY <1>4, <1>5

LEMMA ReceiveTypes ==
  ASSUME ShareTypeOK, ClientTypeOK, NEW is, Receive(is)
  PROVE  /\ conn \in Conns /\ toClient[conn] \in Seq(Messages) /\ toClient[conn] # <<>>
         /\ Head(toClient[conn]) \in Messages
         /\ ShareTypeOK'
<1>1. conn \in Conns
  BY ConnTypes DEF Receive, Hears, ClientTypeOK
<1>2. toClient[conn] \in Seq(Messages) /\ toClient[conn] # <<>>
  BY <1>1, ShareTypes DEF Receive, ToClientOK
<1>3. Head(toClient[conn]) \in Messages /\ Tail(toClient[conn]) \in Seq(Messages)
      /\ Len(Tail(toClient[conn])) <= Len(toClient[conn])
  BY <1>2
<1>4. ToClientOK'
  BY <1>1, <1>3, ShareTypes DEF Receive, ToClientOK
<1> QED BY <1>1, <1>2, <1>3, <1>4 DEF Receive, ShareTypeOK, ToClientOK, Messages

ClientInv == ShareTypeOK /\ ClientTypeOK /\ LockInv /\ RingInv

LEMMA ReceiverTypes ==
  ASSUME ClientInv, ReceiverStep \/ ReceiverChecks
  PROVE  ClientInv'
<1> USE DEF ClientInv
<1>1. ASSUME NEW between, ReceiveLine(between) PROVE ClientInv'
  <2>1. Receive("line") /\ lastN' = lastN + 1 /\ lines' = Pushed(lines, lastN + 1, RingMax)
    BY <1>1 DEF ReceiveLine
  <2>2. lines \in Seq(Nat) /\ Len(lines) <= RingMax /\ lastN \in Nat /\ lastN + 1 \in Nat /\ RingMax \in Nat \ {0}
    BY DEF ClientTypeOK
  <2>3. lines' \in Seq(Nat) /\ Len(lines') = (IF Len(lines) < RingMax THEN Len(lines) + 1 ELSE RingMax)
    BY <2>1, <2>2, PushedIs DEF IsPushed
  <2>4. Consecutive(lines', lastN')
    BY <2>1, <2>2, PushedRuns DEF RingInv
  <2>5. RingInv'
    BY <2>1, <2>2, <2>3, <2>4, <1>1 DEF RingInv, ReceiveLine
  <2>6. ShareTypeOK'
    BY <2>1, ReceiveTypes
  <2>7. ClientTypeOK'
    BY <1>1, <2>1, <2>2, <2>3, SMTT(30) DEF ReceiveLine, Receive, ClientTypeOK, asks, answers
  <2>8. LockInv'
    BY <1>1 DEF ReceiveLine, Receive, LockInv, asks
  <2> QED BY <2>5, <2>6, <2>7, <2>8
<1>2. CASE EndOfChunk
  BY <1>2 DEF EndOfChunk, server, answers, asks, ShareTypeOK, ClientTypeOK, LockInv, RingInv
<1>3. CASE ReceivePrompt
  <2>1. ShareTypeOK'
    BY <1>3, ReceiveTypes DEF ReceivePrompt
  <2>2. ClientTypeOK'
    BY <1>3 DEF ReceivePrompt, Receive, ClientTypeOK, asks, answers
  <2> QED BY <1>3, <2>1, <2>2 DEF ReceivePrompt, Receive, LockInv, RingInv, asks
<1>4. CASE ReceiveEvent
  <2>1. ShareTypeOK'
    BY <1>4, ReceiveTypes DEF ReceiveEvent
  <2> DEFINE n == IF events = <<>> THEN 1 ELSE Last(events) + 1
  <2>2. events \in Seq(Nat) /\ Len(events) <= EventsMax /\ EventsMax \in Nat \ {0}
    BY DEF ClientTypeOK
  <2>3. n \in Nat /\ \A i \in DOMAIN events : events[i] < n
    <3>1. CASE events = <<>>
      BY <2>2, <3>1
    <3>2. CASE events # <<>>
      <4>1. Len(events) \in DOMAIN events /\ n = events[Len(events)] + 1 /\ events[Len(events)] \in Nat
        BY <2>2, <3>2 DEF Last
      <4>2. \A i \in DOMAIN events : events[i] \in Nat /\ (i < Len(events) \/ i = Len(events))
        BY <2>2
      <4>3. ASSUME NEW i \in DOMAIN events PROVE events[i] <= events[Len(events)]
        BY <4>1, <4>2 DEF RingInv, Rising
      <4> HIDE DEF n
      <4> QED BY <4>1, <4>2, <4>3
    <3> QED BY <3>1, <3>2
  <2>4. events' = Pushed(events, n, EventsMax)
    BY <1>4 DEF ReceiveEvent
  <2> HIDE DEF n
  <2>5. events' \in Seq(Nat)
        /\ Len(events') = (IF Len(events) < EventsMax THEN Len(events) + 1 ELSE EventsMax)
    BY <2>2, <2>3, <2>4, PushedIs DEF IsPushed
  <2>6. Rising(events')
    BY <2>2, <2>3, <2>4, PushedRises DEF RingInv
  <2>7. RingInv'
    BY <1>4, <2>6 DEF ReceiveEvent, RingInv
  <2>8. ClientTypeOK'
    BY <1>4, <2>2, <2>5 DEF ReceiveEvent, Receive, ClientTypeOK, asks, answers
  <2> QED BY <1>4, <2>1, <2>7, <2>8 DEF ReceiveEvent, Receive, LockInv, asks
<1>5. CASE ReceiveStatus
  <2>1. ShareTypeOK' /\ Head(toClient[conn]) \in Messages /\ Head(toClient[conn]).is = "status"
    BY <1>5, ReceiveTypes DEF ReceiveStatus, Receive
  <2>2. Head(toClient[conn]).state \in States
    BY <2>1 DEF Messages, Answer, Told
  <2>3. ClientTypeOK'
    BY <1>5, <2>2 DEF ReceiveStatus, Receive, ClientTypeOK, asks, answers
  <2> QED BY <1>5, <2>1, <2>3 DEF ReceiveStatus, Receive, LockInv, RingInv, asks
<1>6. CASE ReceivePong
  <2>1. ShareTypeOK'
    BY <1>6, ReceiveTypes DEF ReceivePong
  <2> QED BY <1>6, <2>1 DEF ReceivePong, Receive, ClientTypeOK, LockInv, RingInv, asks, answers, rings
<1>7. CASE ReceiveWatchAnswer
  <2>1. PICK is \in {"watch_ok", "watch_fail", "watch_list"} : Receive(is)
    BY <1>7 DEF ReceiveWatchAnswer
  <2>2. ShareTypeOK' /\ Head(toClient[conn]) \in Messages /\ Head(toClient[conn]).is = is
    BY <2>1, ReceiveTypes DEF Receive
  <2>3. Head(toClient[conn]) \in Answer
    BY <2>2 DEF Messages, Told
  <2>4. replies' \in Seq(Answer)
    BY <1>7, <2>3 DEF ReceiveWatchAnswer, ClientTypeOK
  <2>5. ClientTypeOK'
    BY <1>7, <2>1, <2>4 DEF ReceiveWatchAnswer, Receive, ClientTypeOK, asks, rings
  <2> QED BY <1>7, <2>1, <2>2, <2>5 DEF ReceiveWatchAnswer, Receive, LockInv, RingInv, asks, rings
<1>8. CASE ReceiveProposal
  <2>1. Receive("proposal")
    BY <1>8 DEF ReceiveProposal
  <2>2. ShareTypeOK' /\ Head(toClient[conn]) \in Messages /\ Head(toClient[conn]).is = "proposal"
    BY <2>1, ReceiveTypes DEF Receive
  <2>3. /\ Head(toClient[conn]) \in Answer /\ Head(toClient[conn]).about \in Requests
        /\ Head(toClient[conn]).status \in {"refused", "pending", "declined", "accepted"}
    BY <2>2 DEF Messages, Told, Answer
  <2>4. Short(Head(toClient[conn])) \in Results \ {None, GaveUp}
    BY <2>3 DEF Short, Results, None, GaveUp
  <2>5. Append(replies, Head(toClient[conn])) \in Seq(Answer)
    BY <2>3 DEF ClientTypeOK
  <2>6. replies' \in Seq(Answer) /\ awaiting' \subseteq Requests /\ decided' \subseteq Results \ {None, GaveUp}
    BY <1>8, <2>3, <2>4, <2>5 DEF ReceiveProposal, ClientTypeOK
  <2>7. ClientTypeOK'
    BY <1>8, <2>1, <2>6 DEF ReceiveProposal, Receive, ClientTypeOK, asks, rings
  <2> QED BY <1>8, <2>1, <2>2, <2>7 DEF ReceiveProposal, Receive, LockInv, RingInv, asks, rings
<1>9. CASE SeesTheEnd
  BY <1>9 DEF SeesTheEnd, server, rings, answers, asks, ShareTypeOK, ClientTypeOK, LockInv, RingInv
<1> QED BY <1>1, <1>2, <1>3, <1>4, <1>5, <1>6, <1>7, <1>8, <1>9 DEF ReceiverStep, ReceiverChecks

LEMMA AskTypes ==
  ASSUME ClientInv, NEW t \in Callers, Ask(t)
  PROVE  ClientInv'
<1> USE DEF ClientInv
<1>1. CASE Drain(t)
  <2>1. ShareTypeOK' /\ RingInv'
    BY <1>1 DEF Drain, server, rings, ShareTypeOK, RingInv
  <2>2. ClientTypeOK'
    BY <1>1 DEF Drain, rings, wires, ClientTypeOK
  <2>3. LockInv'
    BY <1>1 DEF Drain, wires, LockInv, ClientTypeOK
  <2> QED BY <2>1, <2>2, <2>3
<1>2. ASSUME NEW is \in RequestKinds, NEW target \in Requests, SendRequest(t, is, target)
      PROVE  ClientInv'
  <2>1. CASE socket
    <3>1. asked + 1 \in Requests /\ asked' = asked + 1 /\ conn \in Conns
      BY <1>2, <2>1, ConnTypes DEF SendRequest, LockInv, ClientTypeOK, Requests
    <3>2. [is |-> is, about |-> asked + 1, target |-> target] \in Request
      BY <3>1 DEF Request
    <3>3. toServer' \in [Conns -> Seq(Request)]
      <4>1. Append(toServer[conn], [is |-> is, about |-> asked + 1, target |-> target]) \in Seq(Request)
        BY <3>1, <3>2 DEF ShareTypeOK
      <4> QED BY <1>2, <2>1, <4>1 DEF SendRequest, ShareTypeOK
    <3>4. ShareTypeOK'
      BY <1>2, <3>3 DEF SendRequest, ShareTypeOK
    <3>5. /\ request' = [request EXCEPT ![t] = [is |-> is, about |-> asked + 1]]
          /\ asking' = [asking EXCEPT ![t] = "await"]
      BY <1>2, <2>1 DEF SendRequest
    <3>6. /\ asked' \in 0..MaxRequests
          /\ request' \in [Callers -> {NoRequest} \union [is : RequestKinds, about : Requests]]
          /\ asking' \in [Callers -> {"no", "send", "await", "decision"}]
      BY <3>1, <3>5 DEF ClientTypeOK, Requests
    <3>7. ClientTypeOK'
      BY <1>2, <2>1, <3>6 DEF SendRequest, rings, wires, answers, ClientTypeOK
    <3>8. LockInv'
      <4>1. asker = t /\ \A u \in Callers : u # t => asking[u] \notin {"send", "await"} /\ asking'[u] = asking[u]
        BY <1>2, <3>5 DEF LockInv, SendRequest, ClientTypeOK
      <4> QED BY <1>2, <2>1, <3>1, <3>5, <4>1 DEF SendRequest, LockInv, ClientTypeOK, wires
    <3>9. RingInv'
      BY <1>2 DEF SendRequest, rings, RingInv
    <3> QED BY <3>4, <3>7, <3>8, <3>9
  <2>2. CASE ~socket
    <3>1. ShareTypeOK' /\ RingInv'
      BY <1>2, <2>2 DEF SendRequest, rings, ShareTypeOK, RingInv
    <3>2. ClientTypeOK'
      BY <1>2, <2>2 DEF SendRequest, rings, wires, answers, ClientTypeOK
    <3>3. LockInv'
      BY <1>2, <2>2 DEF SendRequest, wires, LockInv, ClientTypeOK
    <3> QED BY <3>1, <3>2, <3>3
  <2> QED BY <2>1, <2>2
<1>3. ASSUME NEW what \in Results, NEW then \in {"no", "decision"}, asking[t] \in {"await", "decision"},
             Return(t, what, then)
      PROVE  /\ result' \in [Requests -> Results]
             /\ asking' \in [Callers -> {"no", "send", "await", "decision"}]
             /\ \A u \in Callers : asking'[u] = (IF u = t THEN then ELSE asking[u])
             /\ request[t].about \in Requests
  BY <1>3 DEF Return, ClientTypeOK, LockInv
<1>4. CASE TakeReply(t)
  <2>1. ShareTypeOK' /\ RingInv'
    BY <1>4 DEF TakeReply, server, rings, ShareTypeOK, RingInv
  <2>2. Head(replies) \in Answer /\ Tail(replies) \in Seq(Answer)
    BY <1>4 DEF TakeReply, ClientTypeOK
  <2>3. Short(Head(replies)) \in Results
    BY <2>2 DEF Answer, Short, Results
  <2>4. \/ \E then \in {"no", "decision"} : Return(t, Short(Head(replies)), then) /\ asker' = Nobody
        \/ UNCHANGED <<asking, result, asker>>
    BY <1>4 DEF TakeReply
  <2>5. CASE UNCHANGED <<asking, result, asker>>
    <3>1. ClientTypeOK'
      BY <1>4, <2>2, <2>5 DEF TakeReply, rings, wires, ClientTypeOK
    <3> QED BY <1>4, <2>1, <2>5, <3>1 DEF TakeReply, LockInv, wires
  <2>6. ASSUME NEW then \in {"no", "decision"}, Return(t, Short(Head(replies)), then), asker' = Nobody
        PROVE  ClientInv'
    <3>1. /\ result' \in [Requests -> Results]
          /\ asking' \in [Callers -> {"no", "send", "await", "decision"}]
          /\ \A u \in Callers : asking'[u] = (IF u = t THEN then ELSE asking[u])
          /\ request[t].about \in Requests
      BY <1>3, <1>4, <2>3, <2>6 DEF TakeReply
    <3>2. ClientTypeOK'
      BY <1>4, <2>2, <2>6, <3>1 DEF TakeReply, rings, wires, ClientTypeOK
    <3>3. LockInv'
      BY <1>4, <2>6, <3>1 DEF TakeReply, LockInv, wires
    <3> QED BY <2>1, <3>2, <3>3
  <2> QED BY <2>4, <2>5, <2>6
<1>5. CASE RequestTimesOut(t)
  <2>1. ShareTypeOK' /\ RingInv'
    BY <1>5 DEF RequestTimesOut, server, rings, ShareTypeOK, RingInv
  <2>2. /\ result' \in [Requests -> Results]
        /\ asking' \in [Callers -> {"no", "send", "await", "decision"}]
        /\ \A u \in Callers : asking'[u] = (IF u = t THEN "no" ELSE asking[u])
        /\ request[t].about \in Requests
    BY <1>3, <1>5 DEF RequestTimesOut, Results
  <2>3. ClientTypeOK'
    BY <1>5, <2>2 DEF RequestTimesOut, rings, wires, answers, ClientTypeOK
  <2>4. LockInv'
    BY <1>5, <2>2 DEF RequestTimesOut, LockInv, wires
  <2> QED BY <2>1, <2>3, <2>4
<1>6. CASE TakeDecision(t)
  <2>1. ShareTypeOK' /\ RingInv'
    BY <1>6 DEF TakeDecision, server, rings, ShareTypeOK, RingInv
  <2>2. PICK d \in decided : decided' = decided \ {d} /\ Return(t, d, "no")
    BY <1>6 DEF TakeDecision
  <2>3. /\ result' \in [Requests -> Results]
        /\ asking' \in [Callers -> {"no", "send", "await", "decision"}]
        /\ \A u \in Callers : asking'[u] = (IF u = t THEN "no" ELSE asking[u])
        /\ request[t].about \in Requests
    BY <1>3, <1>6, <2>2 DEF TakeDecision, ClientTypeOK
  <2>4. ClientTypeOK'
    BY <1>6, <2>2, <2>3 DEF TakeDecision, rings, wires, ClientTypeOK
  <2>5. LockInv'
    BY <1>6, <2>3 DEF TakeDecision, LockInv, wires
  <2> QED BY <2>1, <2>4, <2>5
<1>7. CASE StopWaiting(t)
  <2>1. ShareTypeOK' /\ RingInv'
    BY <1>7 DEF StopWaiting, server, rings, ShareTypeOK, RingInv
  <2>2. /\ result' \in [Requests -> Results]
        /\ asking' \in [Callers -> {"no", "send", "await", "decision"}]
        /\ \A u \in Callers : asking'[u] = (IF u = t THEN "no" ELSE asking[u])
        /\ request[t].about \in Requests
    BY <1>3, <1>7 DEF StopWaiting, Results
  <2>3. ClientTypeOK'
    BY <1>7, <2>2 DEF StopWaiting, rings, wires, ClientTypeOK
  <2>4. LockInv'
    BY <1>7, <2>2 DEF StopWaiting, LockInv, wires
  <2> QED BY <2>1, <2>3, <2>4
<1> QED BY <1>1, <1>2, <1>4, <1>5, <1>6, <1>7 DEF Ask

LEMMA LinkTypes ==
  ASSUME ClientInv, BeatStep \/ CloseClient
  PROVE  ClientInv'
<1> USE DEF ClientInv
<1>1. CASE Beat
  <2>1. conn \in Conns
    BY <1>1, ConnTypes DEF Beat, LockInv, ClientTypeOK
  <2>2. [is |-> "pong"] \in Messages
    BY MessageTypes
  <2>3. ToClientOK'
    BY <1>1, <2>1, <2>2, ShareTypes, ReplyTypes DEF Beat, ToClientOK
  <2>4. ShareTypeOK'
    BY <1>1, <2>3 DEF Beat, ShareTypeOK, ToClientOK, Messages
  <2>5. ClientTypeOK'
    BY <1>1 DEF Beat, rings, answers, asks, ClientTypeOK
  <2> QED BY <1>1, <2>4, <2>5 DEF Beat, rings, asks, LockInv, RingInv
<1>3. CASE BeatGivesUp \/ CloseClient
  <2>1. /\ Shut
        /\ UNCHANGED <<share, handler, toServer, rules, proposal, device, said, late,
                       rings, conn, receiving, quiet, answers, asks, unread>>
    BY <1>3 DEF BeatGivesUp, CloseClient
  <2>2. ToClientOK'
    <3>1. <<>> \in Seq(Messages) /\ Len(<<>>) = 0
      OBVIOUS
    <3>2. toClient' = [toClient EXCEPT ![conn] = <<>>] /\ ToClientOK
      BY <2>1, ShareTypes DEF Shut
    <3>3. toClient' \in [Conns -> Seq(Messages)]
      BY <3>1, <3>2 DEF ToClientOK
    <3>4. \A c \in Conns : toClient'[c] = <<>> \/ toClient'[c] = toClient[c]
      BY <3>2 DEF ToClientOK
    <3>5. \A c \in Conns : Len(toClient'[c]) <= QueueMax
      BY <3>1, <3>2, <3>4 DEF ToClientOK
    <3> QED BY <3>3, <3>5 DEF ToClientOK
  <2>3. ShareTypeOK'
    BY <2>1, <2>2 DEF Shut, ShareTypeOK, ToClientOK, Messages
  <2>4. ClientTypeOK'
    BY <2>1 DEF Shut, rings, answers, asks, ClientTypeOK
  <2> QED BY <2>1, <2>3, <2>4 DEF Shut, rings, asks, LockInv, RingInv
<1> QED BY <1>1, <1>3 DEF BeatStep

LEMMA AttachTypes ==
  ASSUME ClientInv, NEW history, Attach(history)
  PROVE  ClientInv'
<1> USE DEF ClientInv
<1> DEFINE kept == IF history < RingMax THEN history ELSE RingMax
<1>1. /\ history \in Nat /\ kept \in Nat /\ kept <= RingMax /\ kept <= history /\ (history > 0 => kept > 0)
      /\ lines' = [i \in 1..kept |-> history - kept + i] /\ lastN' = history
  BY DEF Attach
<1> HIDE DEF kept
<1>2. lines' \in Seq(Nat) /\ Len(lines') = kept /\ DOMAIN lines' = 1..kept
  <2>1. \A i \in 1..kept : history - kept + i \in Nat
    BY <1>1
  <2> QED BY <1>1, <2>1
<1>3. events' = <<>> /\ replies' = <<>>
  BY DEF Attach, Fresh
<1>4. RingInv'
  <2>1. Consecutive(lines', lastN')
    BY <1>1, <1>2 DEF Consecutive
  <2>2. Rising(events')
    BY <1>3 DEF Rising
  <2> QED BY <1>1, <1>2, <2>1, <2>2 DEF RingInv
<1>5. conn + 1 \in Conns /\ conn' = conn + 1
  BY DEF Attach, ClientTypeOK, Conns
<1>6. ShareTypeOK'
  BY <1>5 DEF Attach, ShareTypeOK
<1>7. ClientTypeOK'
  <2>1. events' \in Seq(Nat) /\ Len(events') = 0 /\ replies' \in Seq(Answer)
    BY <1>3
  <2>2. conn' \in 0..MaxConns /\ known' \in States
    BY <1>5 DEF Attach, ShareTypeOK, Conns
  <2> QED BY <1>1, <1>2, <2>1, <2>2 DEF Attach, Fresh, ClientTypeOK
<1>8. LockInv'
  BY <1>5 DEF Attach, Fresh, LockInv, Conns
<1> QED BY <1>4, <1>6, <1>7, <1>8

-----------------------------------------------------------------------------
(* What the tools read *)

LEMMA LinesKept ==
  ASSUME ClientTypeOK, RingInv
  PROVE  ToSet(lines) = (lastN - Len(lines) + 1)..lastN
<1>1. lines \in Seq(Nat) /\ DOMAIN lines = 1..Len(lines) /\ Len(lines) \in Nat /\ lastN \in Nat
  BY DEF ClientTypeOK
<1>2. \A i \in 1..Len(lines) : lines[i] = lastN - Len(lines) + i
  BY <1>1 DEF RingInv, Consecutive
<1>3. ASSUME NEW n \in (lastN - Len(lines) + 1)..lastN PROVE n \in ToSet(lines)
  <2>1. n - lastN + Len(lines) \in 1..Len(lines) /\ lines[n - lastN + Len(lines)] = n
    BY <1>1, <1>2
  <2> QED BY <1>1, <2>1 DEF ToSet
<1>4. ASSUME NEW n \in ToSet(lines) PROVE n \in (lastN - Len(lines) + 1)..lastN
  <2>1. PICK i \in 1..Len(lines) : n = lines[i]
    BY <1>1 DEF ToSet
  <2> QED BY <1>1, <1>2, <2>1
<1> QED BY <1>3, <1>4

\* A read that finds a line comes to the newest.
LEMMA NewestLine ==
  ASSUME ClientTypeOK, RingInv, NEW from \in Nat
  PROVE  /\ After(from) \subseteq Nat
         /\ After(from) # {} => lastN > from /\ lastN \in After(from) /\ Max(After(from)) = lastN
<1>1. ToSet(lines) = (lastN - Len(lines) + 1)..lastN /\ lastN \in Nat /\ Len(lines) \in Nat /\ Len(lines) <= lastN
  BY LinesKept DEF ClientTypeOK, RingInv
<1>2. \A n \in After(from) : n \in Nat /\ n <= lastN /\ n > from /\ n >= lastN - Len(lines) + 1
  BY <1>1 DEF After
<1>3. ASSUME After(from) # {} PROVE lastN > from /\ lastN \in After(from) /\ Max(After(from)) = lastN
  <2>1. lastN > from /\ lastN \in After(from)
    BY <1>1, <1>2, <1>3 DEF After
  <2>2. \A n \in After(from) : lastN >= n
    BY <1>1, <1>2
  <2>3. Max(After(from)) \in After(from) /\ \A n \in After(from) : Max(After(from)) >= n
    BY <2>1, <2>2 DEF Max
  <2>4. Max(After(from)) \in Nat /\ Max(After(from)) <= lastN /\ Max(After(from)) >= lastN
    BY <1>2, <2>1, <2>3
  <2>5. \A m \in Nat : m <= lastN /\ m >= lastN => m = lastN
    BY <1>1
  <2> QED BY <2>1, <2>4, <2>5
<1> QED BY <1>2, <1>3

LEMMA AfterIs ==
  ASSUME ClientTypeOK, RingInv, NEW from \in Nat, NEW n \in After(from)
  PROVE  n \in Nat /\ n <= lastN /\ n > from
<1>1. lastN \in Nat /\ Len(lines) \in Nat /\ Len(lines) <= lastN
  BY DEF ClientTypeOK, RingInv
<1>2. n \in (lastN - Len(lines) + 1)..lastN /\ n > from
  BY LinesKept DEF After
<1> QED BY <1>1, <1>2

LEMMA NothingNewer ==
  ASSUME ClientTypeOK, RingInv, NEW from \in Nat, After(from) = {}
  PROVE  lastN <= from
<1>1. lines \in Seq(Nat) /\ lastN \in Nat /\ Len(lines) \in Nat /\ (lastN > 0 => Len(lines) > 0)
  BY DEF ClientTypeOK, RingInv
<1>2. lastN > 0 => lastN \in ToSet(lines)
  BY <1>1, LinesKept
<1> QED BY <1>1, <1>2 DEF After

LEMMA DroppedIs ==
  ASSUME ClientTypeOK, RingInv, NEW from \in Nat
  PROVE  /\ Dropped(from) \in Nat
         /\ (from + 1)..(from + Dropped(from)) \subseteq Nat
         /\ \A n \in (from + 1)..lastN : n \in After(from) \/ n \in (from + 1)..(from + Dropped(from))
<1>1. ToSet(lines) = (lastN - Len(lines) + 1)..lastN /\ lastN \in Nat /\ Len(lines) \in Nat /\ Len(lines) <= lastN
  BY LinesKept DEF ClientTypeOK, RingInv
<1>2. lines \in Seq(Nat) /\ (lines # <<>> => Head(lines) = lines[1] /\ 1 \in DOMAIN lines)
  BY DEF ClientTypeOK
<1>3. lines # <<>> => Head(lines) = lastN - Len(lines) + 1
  BY <1>1, <1>2 DEF RingInv, Consecutive
<1>4. lines = <<>> => Len(lines) = 0
  BY <1>2
<1>5. CASE lastN > from
  <2> DEFINE first == lastN - Len(lines) + 1
  <2>1. Dropped(from) = (IF first > from + 1 THEN first - from - 1 ELSE 0)
    BY <1>1, <1>3, <1>4, <1>5 DEF Dropped
  <2>2. Dropped(from) \in Nat
    BY <1>1, <2>1
  <2>3. ASSUME NEW n \in (from + 1)..lastN PROVE n \in After(from) \/ n \in (from + 1)..(from + Dropped(from))
    BY <1>1, <2>1, <2>3 DEF After
  <2> QED BY <2>2, <2>3
<1>6. CASE ~(lastN > from)
  BY <1>1, <1>6 DEF Dropped
<1> QED BY <1>5, <1>6

LEMMA NewestEvent ==
  ASSUME ClientTypeOK, RingInv, NEW from \in Nat
  PROVE  /\ EventsAfter(from) \subseteq Nat
         /\ EventsAfter(from) # {} => Last(events) \in Nat /\ \A e \in EventsAfter(from) : e <= Last(events)
<1>1. events \in Seq(Nat) /\ DOMAIN events = 1..Len(events) /\ Len(events) \in Nat
  BY DEF ClientTypeOK
<1>2. \A e \in EventsAfter(from) : \E i \in 1..Len(events) : e = events[i]
  BY <1>1 DEF EventsAfter, ToSet
<1>3. ASSUME NEW i \in 1..Len(events)
      PROVE  /\ events[i] \in Nat /\ events[Len(events)] \in Nat
             /\ i = Len(events) \/ events[i] < events[Len(events)]
  <2>1. \A n \in Nat : \A k \in 1..n : n \in 1..n /\ (k = n \/ k < n)
    OBVIOUS
  <2>2. Len(events) \in 1..Len(events) /\ (i = Len(events) \/ i < Len(events))
    BY <1>1, <2>1, Zenon
  <2>3. events[i] \in Nat /\ events[Len(events)] \in Nat
    BY <1>1, <2>2, ElementOfSeq, Zenon
  <2>4. i < Len(events) => events[i] < events[Len(events)]
    BY <1>1, <2>2, Zenon DEF RingInv, Rising
  <2> QED BY <2>2, <2>3, <2>4
<1> QED BY <1>2, <1>3 DEF Last

-----------------------------------------------------------------------------

Call == [step : Reading \union {"idle"}, on : 0..MaxConns, from : Nat, to : Nat,
         found : SUBSET Nat, dropped : SUBSET Nat]

BaseInv == ClientInv /\ McpTypeOK

LEMMA LaterTypes == \A a, b \in Nat : Later(a, b) \in Nat /\ Later(a, b) >= a /\ Later(a, b) >= b
BY DEF Later

LEMMA AssessTypes == \A shared \in BOOLEAN : \A now : Assess(shared, now) \in Levels
BY DEF Assess, Levels

LEMMA GoesTypes ==
  ASSUME BaseInv, NEW t \in Callers, NEW from, NEW to \in Call, Goes(t, from, to)
  PROVE  ClientInv' /\ call' \in [Callers -> Call] /\ input' \in {"open", "closed"} /\ uses' \in Uses
         /\ check' \in [Checkers -> Levels \union {"none"}]
<1>1. ClientInv'
  BY DEF Goes, BaseInv, ClientInv, ShareTypeOK, ClientTypeOK, LockInv, RingInv,
         server, client, rings, wires, answers, asks
<1> QED BY <1>1 DEF Goes, BaseInv, McpTypeOK, Call

LEMMA CallTypes ==
  ASSUME BaseInv, NEW t \in Callers
  PROVE  call[t] \in Call /\ Idle \in Call
BY DEF BaseInv, McpTypeOK, Call, Idle, Reading

LEMMA CallStepTypes ==
  ASSUME BaseInv, NEW t \in Callers, CallStep(t)
  PROVE  BaseInv'
<1>0. call[t] \in Call /\ Idle \in Call /\ ClientTypeOK /\ RingInv /\ McpTypeOK
  BY CallTypes DEF BaseInv, ClientInv
<1>a. /\ call[t].from \in Nat /\ call[t].to \in Nat /\ call[t].found \in SUBSET Nat
      /\ call[t].dropped \in SUBSET Nat /\ lastN \in Nat
      /\ cursor \in Nat /\ mark \in Nat /\ eventsRead \in Nat /\ eventMark \in Nat
  BY <1>0 DEF Call, McpTypeOK, ClientTypeOK
<1>1. ASSUME NEW from, NEW to \in Call, Goes(t, from, to), UNCHANGED marks
      PROVE  BaseInv'
  BY <1>1, GoesTypes DEF BaseInv, McpTypeOK, Call, marks, lineMarks, eventMarks
<1>2. ASSUME NEW from, Goes(t, from, Idle),
             /\ cursor' \in Nat /\ mark' \in Nat /\ eventsRead' \in Nat /\ eventMark' \in Nat
             /\ handed' \subseteq Nat /\ accounted' \subseteq Nat /\ eventsHanded' \subseteq Nat,
             UNCHANGED <<level, overlapped>>
      PROVE  BaseInv'
  BY <1>0, <1>2, GoesTypes DEF BaseInv, McpTypeOK, Call
<1>3. CASE ReadLines(t)
  <2> DEFINE from == call[t].from
             new  == After(from)
             to   == [call[t] EXCEPT !.found = new,
                                     !.dropped = from + 1 .. from + Dropped(from),
                                     !.to = IF new = {} THEN from ELSE Max(new),
                                     !.step = IF new = {} THEN "reread" ELSE "set"]
  <2>1. new \in SUBSET Nat /\ (IF new = {} THEN from ELSE Max(new)) \in Nat
    BY <1>0, <1>a, NewestLine
  <2>2. (from + 1 .. from + Dropped(from)) \in SUBSET Nat
    BY <1>0, <1>a, DroppedIs
  <2>3. to \in Call
    BY <1>0, <2>1, <2>2 DEF Call, Reading
  <2>4. Goes(t, "lines", to) /\ UNCHANGED marks
    BY <1>3 DEF ReadLines
  <2> QED BY <1>1, <2>3, <2>4
<1>4. CASE RereadCursor(t)
  BY <1>0, <1>1, <1>4, <1>a DEF RereadCursor, Call, Reading
<1>5. CASE SetCursor(t)
  <2>1. Later(mark, call[t].to) \in Nat
    BY <1>a, LaterTypes
  <2> QED BY <1>0, <1>2, <1>5, <1>a, <2>1 DEF SetCursor, eventMarks, McpTypeOK
<1>6. CASE HitLine(t)
  <2>1. PICK n \in After(call[t].from) :
          Goes(t, "wait", [call[t] EXCEPT !.found = {n}, !.to = n, !.step = "hit"])
    BY <1>6 DEF HitLine
  <2>2. n \in Nat
    BY <1>0, <1>a, NewestLine
  <2>3. [call[t] EXCEPT !.found = {n}, !.to = n, !.step = "hit"] \in Call
    BY <1>0, <2>2 DEF Call, Reading
  <2> QED BY <1>1, <1>6, <2>1, <2>3 DEF HitLine
<1>7. CASE HitPartial(t)
  BY <1>0, <1>1, <1>7 DEF HitPartial, Call, Reading
<1>8. CASE MarkHit(t)
  <2>1. Later(mark, call[t].to) \in Nat
    BY <1>a, LaterTypes
  <2> QED BY <1>0, <1>2, <1>8, <1>a, <2>1 DEF MarkHit, eventMarks, McpTypeOK
<1>9. CASE MarkPartial(t)
  <2>1. Later(mark, lastN) \in Nat
    BY <1>a, LaterTypes
  <2> QED BY <1>0, <1>2, <1>9, <1>a, <2>1 DEF MarkPartial, eventMarks, McpTypeOK
<1>10. CASE Miss(t)
  BY <1>0, <1>1, <1>10 DEF Miss
<1>11. CASE TakeEvents(t)
  <2> DEFINE new == EventsAfter(call[t].from)
             to  == [call[t] EXCEPT !.found = new, !.to = Last(events), !.step = "setevents"]
  <2>1. new \in SUBSET Nat /\ (new # {} => Last(events) \in Nat)
    BY <1>0, <1>a, NewestEvent
  <2>2. new # {} => to \in Call
    BY <1>0, <2>1 DEF Call, Reading
  <2>3. Goes(t, "events", IF new = {} THEN Idle ELSE to) /\ UNCHANGED marks
    BY <1>11 DEF TakeEvents
  <2> QED BY <1>0, <1>1, <2>2, <2>3
<1>12. CASE SetEventsRead(t)
  <2>1. Later(eventMark, call[t].to) \in Nat
    BY <1>a, LaterTypes
  <2> QED BY <1>0, <1>2, <1>12, <1>a, <2>1 DEF SetEventsRead, lineMarks, McpTypeOK
<1>13. CASE HearEvent(t)
  <2>1. PICK e \in EventsAfter(call[t].from) :
          Goes(t, "expect", [call[t] EXCEPT !.found = {e}, !.to = e, !.step = "event"])
    BY <1>13 DEF HearEvent
  <2>2. e \in Nat
    BY <1>0, <1>a, NewestEvent
  <2>3. [call[t] EXCEPT !.found = {e}, !.to = e, !.step = "event"] \in Call
    BY <1>0, <2>2 DEF Call, Reading
  <2> QED BY <1>1, <1>13, <2>1, <2>3 DEF HearEvent
<1>14. CASE MarkEvent(t)
  <2>1. Later(eventMark, call[t].to) \in Nat
    BY <1>a, LaterTypes
  <2> QED BY <1>0, <1>2, <1>14, <1>a, <2>1 DEF MarkEvent, lineMarks, McpTypeOK
<1>15. CASE ReplacedCallEnds(t)
  BY <1>0, <1>15, ZenonT(30) DEF ReplacedCallEnds, BaseInv, ClientInv, ShareTypeOK, ClientTypeOK, LockInv, RingInv,
                     server, client, rings, wires, answers, asks, McpTypeOK, Call, marks, lineMarks, eventMarks
<1> QED BY <1>3, <1>4, <1>5, <1>6, <1>7, <1>8, <1>9, <1>10, <1>11, <1>12, <1>13, <1>14, <1>15 DEF CallStep

LEMMA BeginTypes ==
  ASSUME BaseInv, NEW t \in Callers, NEW tool, NEW step \in Reading, NEW from \in Nat, Begin(t, tool, step, from)
  PROVE  BaseInv'
<1>1. [Idle EXCEPT !.step = step, !.on = conn, !.from = from] \in Call
  BY DEF Idle, Call, BaseInv, ClientInv, ClientTypeOK
<1>2. ClientInv'
  BY DEF Begin, BaseInv, ClientInv, ShareTypeOK, ClientTypeOK, LockInv, RingInv,
         server, client, rings, wires, answers, asks
<1>3. McpTypeOK'
  BY <1>1 DEF Begin, BaseInv, McpTypeOK, Call, lineMarks, eventMarks
<1> QED BY <1>2, <1>3 DEF BaseInv

LEMMA BaseStep ==
  ASSUME BaseInv, [Next]_vars
  PROVE  BaseInv'
<1>0. /\ ClientInv /\ McpTypeOK /\ ClientTypeOK /\ ShareTypeOK /\ LockInv /\ RingInv
  BY DEF BaseInv, ClientInv
<1>1. ASSUME UNCHANGED mcp, ClientInv' PROVE BaseInv'
  BY <1>0, <1>1 DEF BaseInv, McpTypeOK, mcp, marks, lineMarks, eventMarks
<1>2. ASSUME UNCHANGED <<server, client>> PROVE ClientInv'
  BY <1>0, <1>2 DEF ClientInv, ShareTypeOK, ClientTypeOK, LockInv, RingInv,
                    server, client, rings, wires, answers, asks
<1>3. CASE World
  <2>1. ShareTypeOK'
    BY <1>0, <1>3, WorldTypes
  <2>2. ClientTypeOK' /\ LockInv' /\ RingInv'
    BY <1>0, <1>3 DEF World, ClientTypeOK, LockInv, RingInv, client, rings, wires, answers, asks
  <2> QED BY <1>1, <1>3, <2>1, <2>2 DEF World, ClientInv
<1>4. CASE ReceiverStep
  BY <1>0, <1>1, <1>4, ReceiverTypes DEF ReceiverStep
<1>5. CASE ReceiverChecks
  <2>1. ClientInv'
    BY <1>0, <1>5, ReceiverTypes
  <2>2. Assess(connected, known') \in Levels
    BY <1>0, AssessTypes DEF ClientTypeOK
  <2>3. check' \in [Checkers -> Levels \union {"none"}]
    BY <1>0, <1>5, <2>2 DEF ReceiverChecks, McpTypeOK
  <2> QED BY <1>0, <1>5, <2>1, <2>3 DEF ReceiverChecks, BaseInv, McpTypeOK, marks, lineMarks, eventMarks
<1>6. CASE BeatStep
  BY <1>0, <1>1, <1>6, LinkTypes DEF BeatStep
<1>7. ASSUME NEW history \in 0..MaxReplay, Join(history) PROVE BaseInv'
  <2>1. ClientInv'
    BY <1>0, <1>7, AttachTypes DEF Join
  <2>2. Assess(TRUE, device) \in Levels
    BY AssessTypes
  <2> QED BY <1>0, <1>7, <2>1, <2>2 DEF Join, BaseInv, McpTypeOK
<1>8. ASSUME NEW t \in Callers,
             BeginReadNew(t) \/ BeginWaitFor(t) \/ BeginSendAndWait(t) \/ BeginReadEvents(t) \/ BeginWaitForEvent(t)
      PROVE  BaseInv'
  <2>1. cursor \in Nat /\ lastN \in Nat /\ eventsRead \in Nat /\ Later(mark, cursor) \in Nat
        /\ Later(eventsRead, eventMark) \in Nat
    BY <1>0, LaterTypes DEF McpTypeOK, ClientTypeOK
  <2>2. {"lines", "wait", "events", "expect"} \subseteq Reading
    BY DEF Reading
  <2> QED BY <1>8, <2>1, <2>2, BeginTypes
           DEF BeginReadNew, BeginWaitFor, BeginSendAndWait, BeginReadEvents, BeginWaitForEvent
<1>9. ASSUME NEW t \in Callers, CallStep(t) PROVE BaseInv'
  BY <1>9, CallStepTypes
<1>10. ASSUME NEW t \in Callers, Ask(t) PROVE BaseInv'
  BY <1>0, <1>1, <1>10, AskTypes DEF Ask
<1>11. CASE Look("watcher")
  <2>1. Verdict \in Levels
    BY <1>0, AssessTypes DEF Verdict, ClientTypeOK
  <2> QED BY <1>0, <1>2, <1>11, <2>1 DEF Look, BaseInv, McpTypeOK, marks, lineMarks, eventMarks
<1>12. ASSUME NEW k \in Checkers, SetLevel(k) PROVE BaseInv'
  BY <1>0, <1>2, <1>12 DEF SetLevel, Looking, BaseInv, McpTypeOK, lineMarks, eventMarks
<1>13. CASE InputEnds
  BY <1>0, <1>2, <1>13 DEF InputEnds, BaseInv, McpTypeOK, marks, lineMarks, eventMarks
<1>14. CASE Close
  BY <1>0, <1>1, <1>14, LinkTypes DEF Close
<1>15. CASE UNCHANGED vars
  BY <1>0, <1>1, <1>2, <1>15 DEF vars
<1> QED BY <1>3, <1>4, <1>5, <1>6, <1>7, <1>8, <1>9, <1>10, <1>11, <1>12, <1>13, <1>14, <1>15 DEF Next

LEMMA BaseAlways == Spec => []BaseInv
<1>1. Init => BaseInv
  <2> SUFFICES ASSUME Init PROVE BaseInv
    OBVIOUS
  <2>1. ShareTypeOK
    <3>1. <<>> \in Seq(Request) /\ <<>> \in Seq(Messages) /\ Len(<<>>) = 0 /\ 1 \in Conns
      BY DEF Conns
    <3> QED BY <3>1 DEF Init, ShareInit, ShareTypeOK, Messages
  <2>2. ClientTypeOK /\ LockInv
    <3>1. <<>> \in Seq(Nat) /\ <<>> \in Seq(Answer) /\ Len(<<>>) = 0
      OBVIOUS
    <3>2. known \in States
      BY <2>1 DEF Init, ClientInit, ShareTypeOK
    <3>3. result \in [Requests -> Results]
      BY DEF Init, ClientInit, Results
    <3>4. asking \in [Callers -> {"no", "send", "await", "decision"}]
          /\ request \in [Callers -> {NoRequest} \union [is : RequestKinds, about : Requests]]
      BY DEF Init, ClientInit
    <3>5. conn \in 0..MaxConns /\ quiet \in 0..Beats /\ asked \in 0..MaxRequests
      BY DEF Init, ClientInit
    <3>6. /\ connected \in BOOLEAN /\ socket \in BOOLEAN /\ receiving \in {"off", "reading", "line"}
      BY DEF Init, ClientInit
    <3>7. lines \in Seq(Nat) /\ Len(lines) <= RingMax /\ events \in Seq(Nat) /\ Len(events) <= EventsMax
          /\ replies \in Seq(Answer)
      BY <3>1 DEF Init, ClientInit
    <3>8. lastN \in Nat /\ partial \in Nat /\ asker \in Callers \union {Nobody} /\ unread \subseteq Nat
          /\ awaiting \subseteq Requests /\ decided \subseteq Results \ {None, GaveUp}
      BY DEF Init, ClientInit
    <3>9. ClientTypeOK
      BY <3>2, <3>3, <3>4, <3>5, <3>6, <3>7, <3>8 DEF ClientTypeOK
    <3>10. LockInv
      BY DEF Init, ClientInit, LockInv
    <3> QED BY <3>9, <3>10
  <2>3. RingInv
    BY DEF Init, ClientInit, RingInv, Consecutive, Rising
  <2>4. McpTypeOK
    <3>1. Idle \in Call
      BY DEF Idle, Call
    <3> QED BY <3>1 DEF Init, McpTypeOK, Call, Levels
  <2> QED BY <2>1, <2>2, <2>3, <2>4 DEF BaseInv, ClientInv
<1> QED BY <1>1, BaseStep, PTL DEF Spec

\* Nothing the server, the client or the MCP server holds is ever out of its type, and no queue
\* or ring grows beyond its limit.
THEOREM TypeCorrect == Spec => []TypeOK
<1>1. BaseInv => TypeOK
  BY DEF BaseInv, ClientInv, TypeOK
<1> QED BY <1>1, BaseAlways, PTL

-----------------------------------------------------------------------------
(* Rules and their owners.  The promise is inductive by itself. *)

LEMMA OutlivesStep ==
  ASSUME BaseInv, NothingOutlivesItsClient, [Next]_vars
  PROVE  NothingOutlivesItsClient'
<1>0. /\ ShareTypeOK /\ ClientTypeOK
      /\ handler \in [Conns -> {"none", "serving", "leaving", "gone"}]
      /\ \A r \in rules : r.conn \in Conns
      /\ \A p \in Requests : proposal[p].conn \in Conns
  BY DEF BaseInv, ClientInv, ShareTypeOK
<1>1. ASSUME UNCHANGED <<share, handler, late>>, rules' \subseteq rules PROVE NothingOutlivesItsClient'
  BY <1>1 DEF NothingOutlivesItsClient
<1>2. ASSUME NEW c \in Conns, ServerHandles(c) PROVE NothingOutlivesItsClient'
  <2>1. CASE RefuseWatch(c) \/ RemoveWatch(c) \/ ListWatches(c) \/ RefuseProposal(c) \/ TakeProposal(c)
    BY <1>1, <2>1 DEF RefuseWatch, RemoveWatch, ListWatches, RefuseProposal, TakeProposal, Serve
  <2>2. CASE AddWatch(c)
    <3>1. /\ rules' = rules \union {[id |-> About(c), kind |-> "watch", conn |-> c, approved |-> FALSE]}
          /\ handler[c] = "serving" /\ UNCHANGED <<share, handler, late>>
      BY <2>2 DEF AddWatch, Serve
    <3> QED BY <3>1 DEF NothingOutlivesItsClient
  <2>3. CASE Leave(c)
    <3>1. /\ handler' = [handler EXCEPT ![c] = "leaving"] /\ handler[c] = "serving"
          /\ UNCHANGED <<share, rules, late>>
      BY <2>3 DEF Leave
    <3> QED BY <1>0, <3>1 DEF NothingOutlivesItsClient
  <2>4. CASE RemoveLeft(c)
    <3>1. /\ handler' = [handler EXCEPT ![c] = "gone"] /\ rules' = {r \in rules : r.conn # c}
          /\ UNCHANGED <<share, late>>
      BY <2>4 DEF RemoveLeft
    <3> QED BY <1>0, <3>1 DEF NothingOutlivesItsClient
  <2> QED BY <1>2, <2>1, <2>2, <2>3, <2>4 DEF ServerHandles
<1>3. ASSUME NEW p \in Requests, Decide(p) PROVE NothingOutlivesItsClient'
  <2>1. CASE Decline(p) \/ ApproveRaises(p) \/ AnswerAccepted(p)
    BY <1>1, <2>1 DEF Decline, ApproveRaises, AnswerAccepted, Step
  <2>2. CASE AddAgreed(p)
    <3>1. /\ rules' = rules \union {[id |-> p, kind |-> "rule", conn |-> proposal[p].conn, approved |-> FALSE]}
          /\ late' = (IF share = "off" \/ handler[proposal[p].conn] = "gone" THEN late \union {p} ELSE late)
          /\ UNCHANGED <<share, handler>>
      BY <2>2 DEF AddAgreed, Step
    <3> QED BY <3>1 DEF NothingOutlivesItsClient
  <2>3. CASE ApproveAdded(p)
    <3>1. PICK r \in rules : rules' = (rules \ {r}) \union {[r EXCEPT !.approved = TRUE]}
      BY <2>3 DEF ApproveAdded
    <3>2. r.id = [r EXCEPT !.approved = TRUE].id /\ r.kind = [r EXCEPT !.approved = TRUE].kind
          /\ r.conn = [r EXCEPT !.approved = TRUE].conn
      BY <1>0 DEF ShareTypeOK
    <3>3. UNCHANGED <<share, handler, late>>
      BY <2>3 DEF ApproveAdded, Step
    <3> QED BY <3>1, <3>2, <3>3 DEF NothingOutlivesItsClient
  <2> QED BY <1>3, <2>1, <2>2, <2>3 DEF Decide
<1>4. CASE World
  <2>1. CASE \E kind : DeviceSays(kind)
    BY <1>1, <2>1 DEF DeviceSays, Publish
  <2>2. CASE \E state : StatusChanges(state)
    BY <1>1, <2>2 DEF StatusChanges, Publish
  <2>3. CASE \E c \in Conns : LinkGoesSilent(c)
    BY <1>1, <2>3 DEF LinkGoesSilent
  <2>4. CASE StopShare
    BY <2>4 DEF StopShare, NothingOutlivesItsClient
  <2>5. CASE StopRemovesRules
    BY <2>5 DEF StopRemovesRules, NothingOutlivesItsClient
  <2> QED BY <1>2, <1>3, <1>4, <2>1, <2>2, <2>3, <2>4, <2>5 DEF World
<1>5. ASSUME UNCHANGED <<share, handler, rules, late>> PROVE NothingOutlivesItsClient'
  BY <1>1, <1>5
<1>6. CASE ReceiverStep \/ ReceiverChecks
  BY <1>5, <1>6
     DEF ReceiverStep, ReceiverChecks, ReceiveLine, EndOfChunk, ReceivePrompt, ReceiveEvent, ReceivePong,
         ReceiveStatus, ReceiveWatchAnswer, ReceiveProposal, Receive, SeesTheEnd, server
<1>7. CASE BeatStep \/ Close
  BY <1>5, <1>7 DEF BeatStep, Beat, BeatGivesUp, Close, CloseClient
<1>8. ASSUME NEW history, Join(history) PROVE NothingOutlivesItsClient'
  <2>1. /\ share = "on" /\ conn + 1 \in Conns /\ handler' = [handler EXCEPT ![conn + 1] = "serving"]
        /\ UNCHANGED <<share, rules, late>>
    BY <1>0, <1>8 DEF Join, Attach, ClientTypeOK, Conns
  <2> QED BY <1>0, <2>1 DEF NothingOutlivesItsClient
<1>9. ASSUME NEW t \in Callers, Ask(t) PROVE NothingOutlivesItsClient'
  BY <1>5, <1>9 DEF Ask, Drain, SendRequest, TakeReply, RequestTimesOut, TakeDecision, StopWaiting, server
<1>10. ASSUME NEW t \in Callers, CallStep(t) PROVE NothingOutlivesItsClient'
  BY <1>5, <1>10 DEF CallStep, ReadLines, RereadCursor, SetCursor, HitLine, HitPartial, MarkHit, MarkPartial, Miss,
                     TakeEvents, SetEventsRead, HearEvent, MarkEvent, ReplacedCallEnds, Goes, server
<1>11. ASSUME NEW t \in Callers,
              BeginReadNew(t) \/ BeginWaitFor(t) \/ BeginSendAndWait(t) \/ BeginReadEvents(t) \/ BeginWaitForEvent(t)
       PROVE  NothingOutlivesItsClient'
  BY <1>5, <1>11 DEF BeginReadNew, BeginWaitFor, BeginSendAndWait, BeginReadEvents, BeginWaitForEvent, Begin, server
<1>12. CASE Look("watcher") \/ (\E k \in Checkers : SetLevel(k)) \/ InputEnds \/ UNCHANGED vars
  BY <1>5, <1>12 DEF Look, SetLevel, InputEnds, vars, server
<1> QED BY <1>4, <1>6, <1>7, <1>8, <1>9, <1>10, <1>11, <1>12 DEF Next

\* What a client added goes with it, and with the share; but for a rule its owner agreed to after
\* that, which the thread that asked puts in the table all the same.
THEOREM RulesGoWithTheirClient == Spec => []NothingOutlivesItsClient
<1>1. Init => NothingOutlivesItsClient
  BY DEF Init, ShareInit, NothingOutlivesItsClient
<1> QED BY <1>1, OutlivesStep, BaseAlways, PTL DEF Spec

-----------------------------------------------------------------------------
(* Requests and their answers: the invariants *)

IsAnswer(msg) == msg.is \in {"watch_ok", "watch_fail", "watch_list", "proposal"}
IsPending(msg) == msg.is = "proposal" /\ msg.status = "pending"

SentOn(c)     == {toServer[c][i].about : i \in DOMAIN toServer[c]}
AnswersOn(c)  == {i \in DOMAIN toClient[c] : IsAnswer(toClient[c][i])}
AnsweredOn(c) == {toClient[c][i].about : i \in AnswersOn(c)}
Replied       == {replies[i].about : i \in DOMAIN replies}
Recorded      == {result[r].about : r \in Requests}
Settled       == {d.about : d \in decided}
Undecided(p)  == proposal[p].step \in {"asking", "added", "approved"}

\* Nothing is about a request that was not made.
NumberInv ==
  /\ \A c \in Conns : \A a \in SentOn(c) \union AnsweredOn(c) : a <= asked
  /\ \A p \in Requests : proposal[p].step # "none" => p <= asked
  /\ \A x \in rules : x.id <= asked
  /\ \A a \in Replied \union Recorded \union Settled : a <= asked

\* Nothing is there of a connection that is yet to be made.
FutureInv ==
  \A c \in Conns : c > conn =>
    /\ link[c] = "none" /\ handler[c] = "none" /\ toServer[c] = <<>> /\ toClient[c] = <<>>
    /\ \A p \in Requests : proposal[p].conn = c => ~Undecided(p)

\* What the server does with a request: one that is still to be served has left no trace, and a
\* rule is in the table once, approved when its owner's yes has been carried out.
SentOnce ==
  \A b, c \in Conns : \A i \in DOMAIN toServer[b], j \in DOMAIN toServer[c] :
    toServer[b][i].about = toServer[c][j].about => b = c /\ i = j
SentInv ==
  \A c \in Conns : \A a \in SentOn(c) : proposal[a].step = "none" /\ \A x \in rules : x.id # a
TableInv ==
  /\ \A x, y \in rules : x.id = y.id => x = y
  /\ \A p \in Requests : proposal[p].step = "asking" => \A x \in rules : x.id # p
  /\ \A p \in Requests : proposal[p].step = "approved" => \A x \in rules : x.id = p => x.approved
ServerInv == SentOnce /\ SentInv /\ TableInv

\* What may be told of a proposal.
TrueIn(proposals, table, p, status) ==
  /\ status = "accepted" => proposals[p].step = "done" /\ \A x \in table : x.id = p => x.approved
  /\ status = "declined" => proposals[p].step = "done" /\ \A x \in table : x.id # p
TrueOf(p, status)    == TrueIn(proposal, rules, p, status)
StillTrue(p, status) == TrueIn(proposal', rules', p, status)

TruthInv ==
  /\ \A c \in Conns : \A i \in AnswersOn(c) : TrueOf(toClient[c][i].about, toClient[c][i].status)
  /\ \A i \in DOMAIN replies : TrueOf(replies[i].about, replies[i].status)
  /\ \A d \in decided : TrueOf(d.about, d.status)
  /\ \A r \in Requests : TrueOf(result[r].about, result[r].status)

\* No answer is returned twice.
Known == Replied \union (Recorded \ {0})

OnceInv ==
  /\ \A q, r \in Requests : result[q].about = result[r].about /\ result[r].about # 0 => q = r
  /\ \A i, j \in DOMAIN replies : replies[i].about = replies[j].about => i = j
  /\ Replied \intersect Recorded \subseteq {0}

\* Of what is still to come on the connection nothing but a decision is about a request that has
\* had an answer, and then the decision is waited for.
Here(p, c) == Undecided(p) /\ proposal[p].conn = c

PairedOn(c) ==
  \A i, j \in AnswersOn(c) : i < j /\ toClient[c][i].about = toClient[c][j].about =>
    IsPending(toClient[c][i]) /\ toClient[c][j].is = "proposal" /\ ~IsPending(toClient[c][j])
FreshOn(c) == SentOn(c) \intersect (AnsweredOn(c) \union Known \union Settled) = {}
FinalOn(c) ==
  \A i \in AnswersOn(c) : ~IsPending(toClient[c][i]) => ~Here(toClient[c][i].about, c)
SettledOn(c) == \A p \in Settled : p \notin AnsweredOn(c) /\ ~Here(p, c)
AwaitedOn(c) ==
  /\ \A i \in AnswersOn(c) : toClient[c][i].about \in Known =>
       toClient[c][i].is = "proposal" /\ ~IsPending(toClient[c][i]) /\ toClient[c][i].about \in awaiting
  /\ \A p \in Known : Here(p, c) => p \in awaiting

StreamInv(c) == PairedOn(c) /\ FreshOn(c) /\ FinalOn(c) /\ SettledOn(c) /\ AwaitedOn(c)

AnswerInv == OnceInv /\ \A c \in Conns : c = conn => StreamInv(c)

-----------------------------------------------------------------------------
(* How a step leaves what is on its way *)

\* Nothing is new to one end: what is left is what there was, or all but the first of it.
Thinned(c) ==
  \E k \in {0, 1} : \A i \in AnswersOn(c)' :
    i \in Nat /\ i + k \in AnswersOn(c) /\ toClient'[c][i] = toClient[c][i + k]
Fewer(c) ==
  \E k \in {0, 1} : \A i \in DOMAIN toServer'[c] :
    i \in Nat /\ i + k \in DOMAIN toServer[c] /\ toServer'[c][i] = toServer[c][i + k]

\* A step that asks and answers nothing.
Lessens ==
  /\ \A c \in Conns : Thinned(c)
  /\ toServer' \in [Conns -> Seq(Request)] /\ \A c \in Conns : Fewer(c)
  /\ rules' \subseteq rules
  /\ UNCHANGED <<proposal, asked, result, replies, awaiting, decided, conn>>

LEMMA Streams ==
  ASSUME ToClientOK, NEW c \in Conns
  PROVE  /\ toClient[c] \in Seq(Messages) /\ DOMAIN toClient[c] = 1..Len(toClient[c]) /\ Len(toClient[c]) \in Nat
         /\ \A i \in DOMAIN toClient[c] : toClient[c][i] \in Messages
         /\ AnswersOn(c) \subseteq 1..Len(toClient[c]) /\ AnsweredOn(c) \subseteq Requests
         /\ \A i \in AnswersOn(c) : i \in Nat /\ toClient[c][i] \in Answer /\ toClient[c][i].about \in Requests
<1>1. /\ toClient[c] \in Seq(Messages) /\ DOMAIN toClient[c] = 1..Len(toClient[c]) /\ Len(toClient[c]) \in Nat
      /\ \A i \in 1..Len(toClient[c]) : toClient[c][i] \in Messages
  BY DEF ToClientOK
<1>2. \A msg \in Messages : IsAnswer(msg) => msg \in Answer /\ msg.about \in Requests
  BY DEF Messages, Told, Answer, IsAnswer
<1> QED BY <1>1, <1>2 DEF AnswersOn, AnsweredOn

LEMMA ThinnedSame ==
  ASSUME ToClientOK, NEW c \in Conns, toClient'[c] = toClient[c]
  PROVE  Thinned(c)
<1>1. \A i \in AnswersOn(c)' : i \in Nat /\ i + 0 \in AnswersOn(c) /\ toClient'[c][i] = toClient[c][i + 0]
  BY Streams DEF AnswersOn
<1> QED BY <1>1 DEF Thinned

LEMMA ThinnedTold ==
  ASSUME ToClientOK, NEW c \in Conns, NEW msg \in Messages, ~IsAnswer(msg), toClient'[c] = Append(toClient[c], msg)
  PROVE  Thinned(c)
<1>1. toClient[c] \in Seq(Messages)
  BY Streams
<1>2. ASSUME NEW i \in AnswersOn(c)' PROVE i \in Nat /\ i + 0 \in AnswersOn(c) /\ toClient'[c][i] = toClient[c][i + 0]
  <2>1. i \in 1..(Len(toClient[c]) + 1) /\ IsAnswer(toClient'[c][i])
    BY <1>1 DEF AnswersOn
  <2>2. toClient'[c][Len(toClient[c]) + 1] = msg
    BY <1>1
  <2>3. i \in 1..Len(toClient[c]) /\ toClient'[c][i] = toClient[c][i]
    BY <1>1, <2>1, <2>2
  <2> QED BY <1>1, <2>1, <2>3 DEF AnswersOn
<1> QED BY <1>2 DEF Thinned

LEMMA ThinnedTail ==
  ASSUME ToClientOK, NEW c \in Conns, toClient[c] # <<>>, toClient'[c] = Tail(toClient[c])
  PROVE  \A i \in AnswersOn(c)' : i \in Nat /\ i + 1 \in AnswersOn(c) /\ toClient'[c][i] = toClient[c][i + 1]
<1>1. toClient[c] \in Seq(Messages) /\ toClient[c] # <<>>
  BY Streams
<1>2. /\ DOMAIN Tail(toClient[c]) = 1..(Len(toClient[c]) - 1) /\ DOMAIN toClient[c] = 1..Len(toClient[c])
      /\ Len(toClient[c]) \in Nat /\ \A i \in 1..(Len(toClient[c]) - 1) : Tail(toClient[c])[i] = toClient[c][i + 1]
  BY <1>1
<1> QED BY <1>2 DEF AnswersOn

LEMMA ThinnedPrefix ==
  ASSUME ToClientOK, NEW c \in Conns, NEW n \in 0..Len(toClient[c]), toClient'[c] = SubSeq(toClient[c], 1, n)
  PROVE  Thinned(c)
<1>1. toClient[c] \in Seq(Messages) /\ Len(toClient[c]) \in Nat
  BY Streams
<1>2. /\ DOMAIN SubSeq(toClient[c], 1, n) = 1..n /\ DOMAIN toClient[c] = 1..Len(toClient[c])
      /\ \A i \in 1..n : SubSeq(toClient[c], 1, n)[i] = toClient[c][i]
  BY <1>1
<1>3. \A i \in AnswersOn(c)' : i \in Nat /\ i + 0 \in AnswersOn(c) /\ toClient'[c][i] = toClient[c][i + 0]
  BY <1>1, <1>2 DEF AnswersOn
<1> QED BY <1>3 DEF Thinned

LEMMA FewerSame ==
  ASSUME ShareTypeOK, NEW c \in Conns, toServer'[c] = toServer[c] \/ toServer'[c] = <<>>
  PROVE  Fewer(c)
<1>1. toServer[c] \in Seq(Request)
  BY DEF ShareTypeOK
<1>2. \A i \in DOMAIN toServer'[c] : i \in Nat /\ i + 0 \in DOMAIN toServer[c] /\ toServer'[c][i] = toServer[c][i + 0]
  BY <1>1
<1> QED BY <1>2 DEF Fewer

LEMMA FewerTail ==
  ASSUME ShareTypeOK, NEW c \in Conns, toServer[c] # <<>>, toServer'[c] = Tail(toServer[c])
  PROVE  /\ Fewer(c)
         /\ \A i \in DOMAIN toServer'[c] :
              i \in Nat /\ i + 1 \in DOMAIN toServer[c] /\ toServer'[c][i] = toServer[c][i + 1]
         /\ 1 \in DOMAIN toServer[c] /\ toServer[c][1].about = About(c) /\ About(c) \in SentOn(c)
<1>1. toServer[c] \in Seq(Request) /\ toServer[c] # <<>>
  BY DEF ShareTypeOK
<1>2. \A i \in DOMAIN toServer'[c] : i \in Nat /\ i + 1 \in DOMAIN toServer[c] /\ toServer'[c][i] = toServer[c][i + 1]
  BY <1>1
<1>3. 1 \in DOMAIN toServer[c] /\ Head(toServer[c]) = toServer[c][1]
  BY <1>1
<1> QED BY <1>2, <1>3 DEF Fewer, About, SentOn

\* An answer put at the end of what is on its way.
LEMMA Appended ==
  ASSUME ToClientOK, NEW c \in Conns, NEW msg \in Answer, toClient'[c] = Append(toClient[c], msg)
  PROVE  \E n \in Nat :
           /\ \A i \in AnswersOn(c) : i < n
           /\ \A i \in AnswersOn(c)' : i = n \/ (i \in AnswersOn(c) /\ toClient'[c][i] = toClient[c][i])
           /\ toClient'[c][n] = msg
<1>1. toClient[c] \in Seq(Messages) /\ msg \in Messages /\ Len(toClient[c]) \in Nat
  BY Streams DEF Messages
<1> DEFINE n == Len(toClient[c]) + 1
<1>2. DOMAIN toClient'[c] = 1..n /\ DOMAIN toClient[c] = 1..Len(toClient[c])
      /\ toClient'[c][n] = msg /\ \A i \in 1..Len(toClient[c]) : toClient'[c][i] = toClient[c][i]
  BY <1>1
<1>3. ASSUME NEW i \in AnswersOn(c)' PROVE i = n \/ (i \in AnswersOn(c) /\ toClient'[c][i] = toClient[c][i])
  <2>1. i \in 1..n /\ IsAnswer(toClient'[c][i])
    BY <1>2 DEF AnswersOn
  <2>2. i # n => i \in 1..Len(toClient[c])
    BY <1>1, <2>1
  <2> QED BY <1>2, <2>1, <2>2 DEF AnswersOn
<1>4. \A i \in AnswersOn(c) : i < n
  BY <1>1, <1>2 DEF AnswersOn
<1>5. n \in Nat
  BY <1>1
<1> HIDE DEF n
<1> QED BY <1>2, <1>3, <1>4, <1>5

LEMMA NotAnswers == \A msg : msg.is \in {"line", "prompt", "trigger", "pong", "status"} => ~IsAnswer(msg)
BY DEF IsAnswer

LEMMA QuietSteps ==
  ASSUME BaseInv,
         \/ World /\ ~(\E c \in Conns : \/ RefuseWatch(c) \/ AddWatch(c) \/ RemoveWatch(c) \/ ListWatches(c)
                                        \/ RefuseProposal(c) \/ TakeProposal(c))
                  /\ ~(\E p \in Requests : Decide(p))
         \/ (\E between : ReceiveLine(between)) \/ EndOfChunk \/ ReceivePrompt \/ ReceiveEvent \/ ReceivePong
         \/ ReceiveStatus \/ SeesTheEnd
         \/ Beat \/ BeatGivesUp \/ CloseClient
         \/ UNCHANGED <<server, client>>
  PROVE  Lessens
<1>0. /\ ShareTypeOK /\ ClientTypeOK /\ LockInv /\ ToClientOK /\ toServer \in [Conns -> Seq(Request)]
      /\ toClient \in [Conns -> Seq(Messages)]
  BY ShareTypes DEF BaseInv, ClientInv, ShareTypeOK, ToClientOK
<1> DEFINE Rest == UNCHANGED <<proposal, asked, result, replies, awaiting, decided, conn>> /\ rules' \subseteq rules
           Streams1 == \A c \in Conns : Thinned(c)
           Sent1 == toServer' \in [Conns -> Seq(Request)] /\ \A c \in Conns : Fewer(c)
<1>a. Rest /\ Streams1 /\ Sent1 => Lessens
  BY DEF Lessens
<1>b. toServer' = toServer => Sent1
  BY <1>0, FewerSame
<1>c. toClient' = toClient => Streams1
  BY <1>0, ThinnedSame
<1>d. ASSUME NEW msg \in Messages, ~IsAnswer(msg), Publish(msg) PROVE Streams1
  <2> SUFFICES ASSUME NEW c \in Conns PROVE Thinned(c)
    OBVIOUS
  <2>1. toClient'[c] = Append(toClient[c], msg) \/ toClient'[c] = toClient[c]
    BY <1>d DEF Publish
  <2> QED BY <1>0, <1>d, <2>1, ThinnedSame, ThinnedTold
<1>e. ASSUME NEW d \in Conns, NEW msg \in Messages, ~IsAnswer(msg), Reply(d, msg) PROVE Streams1
  <2> SUFFICES ASSUME NEW c \in Conns PROVE Thinned(c)
    OBVIOUS
  <2>1. toClient'[c] = Append(toClient[c], msg) \/ toClient'[c] = toClient[c]
    BY <1>0, <1>e DEF Reply
  <2> QED BY <1>0, <1>e, <2>1, ThinnedSame, ThinnedTold
<1>f. ASSUME NEW is, Receive(is) PROVE Streams1
  <2> SUFFICES ASSUME NEW c \in Conns PROVE Thinned(c)
    OBVIOUS
  <2>1. CASE c = conn
    <3>1. toClient[c] # <<>> /\ toClient'[c] = Tail(toClient[c])
      BY <1>0, <1>f, <2>1 DEF Receive
    <3> QED BY <1>0, <3>1, ThinnedTail DEF Thinned
  <2>2. CASE c # conn
    <3>1. toClient'[c] = toClient[c]
      BY <1>0, <1>f, <2>2 DEF Receive
    <3> QED BY <1>0, <3>1, ThinnedSame
  <2> QED BY <2>1, <2>2
<1>g. ASSUME Shut PROVE Streams1
  <2> SUFFICES ASSUME NEW c \in Conns PROVE Thinned(c)
    OBVIOUS
  <2>1. toClient'[c] = <<>> \/ toClient'[c] = toClient[c]
    BY <1>0, <1>g DEF Shut
  <2>2. CASE toClient'[c] = <<>>
    <3>1. AnswersOn(c)' = {}
      BY <2>2 DEF AnswersOn
    <3> QED BY <3>1 DEF Thinned
  <2> QED BY <1>0, <2>1, <2>2, ThinnedSame
<1> HIDE DEF Rest, Streams1, Sent1
<1>1. ASSUME NEW kind \in {"line", "prompt", "trigger"}, DeviceSays(kind), UNCHANGED client PROVE Lessens
  <2>1. [is |-> kind] \in Messages /\ ~IsAnswer([is |-> kind])
    BY MessageTypes, NotAnswers
  <2>2. Rest
    BY <1>1 DEF Rest, DeviceSays, Publish, client, wires, answers, asks
  <2> QED BY <1>1, <1>a, <1>b, <1>d, <2>1, <2>2 DEF DeviceSays, Publish
<1>2. ASSUME NEW state \in States, StatusChanges(state), UNCHANGED client PROVE Lessens
  <2>1. [is |-> "status", state |-> state] \in Messages /\ ~IsAnswer([is |-> "status", state |-> state])
    BY MessageTypes, NotAnswers
  <2>2. Rest
    BY <1>2 DEF Rest, StatusChanges, Publish, client, wires, answers, asks
  <2> QED BY <1>2, <1>a, <1>b, <1>d, <2>1, <2>2 DEF StatusChanges, Publish
<1>3. ASSUME NEW c \in Conns, Leave(c), UNCHANGED client PROVE Lessens
  <2>1. Rest /\ toClient' = toClient
    BY <1>3 DEF Rest, Leave, client, wires, answers, asks
  <2>2. Sent1
    <3>1. \A d \in Conns : toServer'[d] = toServer[d] \/ toServer'[d] = <<>>
      BY <1>0, <1>3 DEF Leave
    <3>2. <<>> \in Seq(Request)
      OBVIOUS
    <3>3. toServer' \in [Conns -> Seq(Request)]
      BY <1>0, <1>3, <3>2 DEF Leave
    <3> QED BY <1>0, <3>1, <3>3, FewerSame DEF Sent1
  <2> QED BY <1>a, <1>c, <2>1, <2>2
<1>4. ASSUME NEW c \in Conns, RemoveLeft(c) \/ LinkGoesSilent(c), UNCHANGED client PROVE Lessens
  <2>1. Rest /\ toClient' = toClient /\ toServer' = toServer
    BY <1>4 DEF Rest, RemoveLeft, LinkGoesSilent, client, wires, answers, asks
  <2> QED BY <1>a, <1>b, <1>c, <2>1
<1>5. ASSUME StopShare, UNCHANGED client PROVE Lessens
  <2>1. Rest /\ toServer' = toServer
    BY <1>5 DEF Rest, StopShare, client, wires, answers, asks
  <2>2. PICK sent \in [Conns -> 0..QueueMax] :
          /\ \A c \in Conns : sent[c] <= Len(toClient[c])
          /\ toClient' = [c \in Conns |-> SubSeq(toClient[c], 1, sent[c])]
    BY <1>5 DEF StopShare
  <2>3. ASSUME NEW c \in Conns PROVE Thinned(c)
    <3>1. sent[c] \in 0..Len(toClient[c]) /\ toClient'[c] = SubSeq(toClient[c], 1, sent[c])
      BY <1>0, <2>2, Streams
    <3> QED BY <1>0, <3>1, ThinnedPrefix
  <2> QED BY <1>a, <1>b, <2>1, <2>3 DEF Streams1
<1>6. ASSUME StopRemovesRules, UNCHANGED client PROVE Lessens
  <2>1. Rest /\ toClient' = toClient /\ toServer' = toServer
    BY <1>6 DEF Rest, StopRemovesRules, client, wires, answers, asks
  <2> QED BY <1>a, <1>b, <1>c, <2>1
<1>7. CASE \/ World /\ ~(\E c \in Conns : \/ RefuseWatch(c) \/ AddWatch(c) \/ RemoveWatch(c) \/ ListWatches(c)
                                          \/ RefuseProposal(c) \/ TakeProposal(c))
                    /\ ~(\E p \in Requests : Decide(p))
  <2>1. UNCHANGED client
    BY <1>7 DEF World
  <2>2. \/ \E kind \in {"line", "prompt", "trigger"} : DeviceSays(kind)
        \/ \E state \in States : StatusChanges(state)
        \/ \E c \in Conns : Leave(c) \/ RemoveLeft(c) \/ LinkGoesSilent(c)
        \/ StopShare \/ StopRemovesRules
    BY <1>7 DEF World, ServerHandles
  <2> QED BY <1>1, <1>2, <1>3, <1>4, <1>5, <1>6, <2>1, <2>2
<1>8. CASE (\E between : ReceiveLine(between)) \/ ReceivePrompt \/ ReceiveEvent \/ ReceivePong \/ ReceiveStatus
  <2>1. \E is : Receive(is)
    BY <1>8 DEF ReceiveLine, ReceivePrompt, ReceiveEvent, ReceivePong, ReceiveStatus
  <2>2. UNCHANGED <<answers, asks, conn, rules, proposal, toServer>>
    BY <1>8 DEF ReceiveLine, ReceivePrompt, ReceiveEvent, ReceivePong, ReceiveStatus, Receive
  <2>3. Rest
    BY <2>2 DEF Rest, answers, asks
  <2> QED BY <1>a, <1>b, <1>f, <2>1, <2>2, <2>3
<1>9. CASE EndOfChunk \/ SeesTheEnd \/ UNCHANGED <<server, client>>
  <2>1. Rest /\ toClient' = toClient /\ toServer' = toServer
    BY <1>9 DEF Rest, EndOfChunk, SeesTheEnd, server, client, wires, answers, asks
  <2> QED BY <1>a, <1>b, <1>c, <2>1
<1>10. CASE Beat
  <2>1. Rest /\ toServer' = toServer
    BY <1>10 DEF Rest, Beat, answers, asks
  <2>2. conn \in Conns /\ [is |-> "pong"] \in Messages /\ ~IsAnswer([is |-> "pong"])
    BY <1>0, <1>10, ConnTypes, MessageTypes, NotAnswers DEF Beat, LockInv, ClientTypeOK
  <2>3. Reply(conn, [is |-> "pong"]) \/ toClient' = toClient
    BY <1>10 DEF Beat
  <2> QED BY <1>a, <1>b, <1>c, <1>e, <2>1, <2>2, <2>3
<1>11. CASE BeatGivesUp \/ CloseClient
  <2>1. Rest /\ toServer' = toServer /\ Shut
    BY <1>11 DEF Rest, BeatGivesUp, CloseClient, answers, asks
  <2> QED BY <1>a, <1>b, <1>g, <2>1
<1> QED BY <1>7, <1>8, <1>9, <1>10, <1>11

\* Every step, by what it does to requests and answers.
LEMMA StepKinds ==
  ASSUME BaseInv, [Next]_vars
  PROVE  \/ Lessens
         \/ \E c \in Conns : (\/ RefuseWatch(c) \/ AddWatch(c) \/ RemoveWatch(c) \/ ListWatches(c)
                              \/ RefuseProposal(c) \/ TakeProposal(c)) /\ UNCHANGED client
         \/ \E p \in Requests : Decide(p) /\ UNCHANGED client
         \/ ReceiveWatchAnswer \/ ReceiveProposal
         \/ \E history : Attach(history)
         \/ \E t \in Callers : Ask(t)
<1>1. CASE World
  BY <1>1, QuietSteps DEF World
<1>2. CASE ReceiverStep \/ ReceiverChecks
  BY <1>2, QuietSteps DEF ReceiverStep, ReceiverChecks
<1>3. CASE BeatStep \/ Close
  BY <1>3, QuietSteps DEF BeatStep, Close
<1>4. CASE \E history : Join(history)
  BY <1>4 DEF Join
<1>5. CASE \E t \in Callers : CallStep(t)
  <2>1. UNCHANGED <<server, client>>
    BY <1>5 DEF CallStep, ReadLines, RereadCursor, SetCursor, HitLine, HitPartial, MarkHit, MarkPartial, Miss,
                TakeEvents, SetEventsRead, HearEvent, MarkEvent, ReplacedCallEnds, Goes
  <2> QED BY <2>1, QuietSteps
<1>6. CASE \E t \in Callers : BeginReadNew(t) \/ BeginWaitFor(t) \/ BeginSendAndWait(t)
                                \/ BeginReadEvents(t) \/ BeginWaitForEvent(t)
  <2>1. UNCHANGED <<server, client>>
    BY <1>6 DEF BeginReadNew, BeginWaitFor, BeginSendAndWait, BeginReadEvents, BeginWaitForEvent, Begin
  <2> QED BY <2>1, QuietSteps
<1>7. CASE Look("watcher") \/ (\E k \in Checkers : SetLevel(k)) \/ InputEnds \/ UNCHANGED vars
  <2>1. UNCHANGED <<server, client>>
    BY <1>7 DEF Look, SetLevel, InputEnds, vars
  <2> QED BY <2>1, QuietSteps
<1> QED BY <1>1, <1>2, <1>3, <1>4, <1>5, <1>6, <1>7 DEF Next

\* A request that is served: its answer, and what is left of it.
Served(c, msg) ==
  /\ msg \in Answer /\ msg.about = About(c) /\ Reply(c, msg)
  /\ handler[c] = "serving" /\ UNCHANGED <<link, handler>>
  /\ toServer[c] # <<>> /\ toServer' = [toServer EXCEPT ![c] = Tail(@)]
  /\ \/ /\ ~IsPending(msg) /\ msg.status \in {"done", "refused"}
        /\ proposal' = proposal
        /\ rules' \subseteq rules \union {[id |-> About(c), kind |-> "watch", conn |-> c, approved |-> FALSE]}
     \/ /\ IsPending(msg)
        /\ proposal' = [proposal EXCEPT ![About(c)] = [step |-> "asking", conn |-> c]]
        /\ rules' = rules
  /\ UNCHANGED client

LEMMA ServedIs ==
  ASSUME BaseInv, NEW c \in Conns,
         (\/ RefuseWatch(c) \/ AddWatch(c) \/ RemoveWatch(c) \/ ListWatches(c)
          \/ RefuseProposal(c) \/ TakeProposal(c)) /\ UNCHANGED client
  PROVE  \E msg : Served(c, msg)
<1>1. About(c) \in Requests
  BY ServeTypes DEF RefuseWatch, AddWatch, RemoveWatch, ListWatches, RefuseProposal, TakeProposal, BaseInv, ClientInv
<1>2. \A is \in {"watch_ok", "watch_fail", "watch_list"} :
        LET msg == [is |-> is, about |-> About(c), status |-> "done"]
        IN  msg \in Answer /\ msg.about = About(c) /\ ~IsPending(msg) /\ msg.status = "done"
  BY <1>1 DEF Answer, IsPending
<1>3. \A status \in {"refused", "pending"} :
        LET msg == [is |-> "proposal", about |-> About(c), status |-> status]
        IN  msg \in Answer /\ msg.about = About(c) /\ (IsPending(msg) <=> status = "pending") /\ msg.status = status
  BY <1>1 DEF Answer, IsPending
<1>4. \A kind : Serve(c, kind) =>
        /\ toServer[c] # <<>> /\ toServer' = [toServer EXCEPT ![c] = Tail(@)] /\ handler[c] = "serving"
        /\ UNCHANGED <<link, handler>>
  BY DEF Serve
<1>5. ASSUME NEW is \in {"watch_ok", "watch_fail", "watch_list"}, NEW kind, Serve(c, kind), AnswerWatch(c, is),
             UNCHANGED proposal,
             rules' \subseteq rules \union {[id |-> About(c), kind |-> "watch", conn |-> c, approved |-> FALSE]}
      PROVE  \E msg : Served(c, msg)
  <2>1. Served(c, [is |-> is, about |-> About(c), status |-> "done"])
    BY <1>2, <1>4, <1>5 DEF AnswerWatch, Served
  <2> QED BY <2>1
<1>6. CASE RefuseWatch(c)
  BY <1>5, <1>6 DEF RefuseWatch
<1>7. CASE AddWatch(c)
  BY <1>5, <1>7 DEF AddWatch
<1>8. CASE RemoveWatch(c)
  BY <1>5, <1>8 DEF RemoveWatch
<1>9. CASE ListWatches(c)
  BY <1>5, <1>9 DEF ListWatches
<1>10. CASE RefuseProposal(c)
  <2>1. Served(c, [is |-> "proposal", about |-> About(c), status |-> "refused"])
    BY <1>3, <1>4, <1>10 DEF RefuseProposal, Served
  <2> QED BY <2>1
<1>11. CASE TakeProposal(c)
  <2>1. Served(c, [is |-> "proposal", about |-> About(c), status |-> "pending"])
    BY <1>3, <1>4, <1>11 DEF TakeProposal, Served
  <2> QED BY <2>1
<1> QED BY <1>6, <1>7, <1>8, <1>9, <1>10, <1>11

\* A decision that is told: the last step of the thread that decides.
Decided(p, msg) ==
  /\ msg \in Answer /\ msg.about = p /\ msg.is = "proposal" /\ Reply(proposal[p].conn, msg)
  /\ \/ msg.status = "declined" /\ proposal[p].step = "asking"
     \/ msg.status = "accepted" /\ proposal[p].step = "approved"
  /\ proposal' = [proposal EXCEPT ![p].step = "done"]
  /\ UNCHANGED <<toServer, link, handler, rules>> /\ UNCHANGED client

LEMMA DecidedIs ==
  ASSUME NEW p \in Requests, Decline(p) \/ AnswerAccepted(p), UNCHANGED client
  PROVE  \E msg : Decided(p, msg)
<1>1. \A status \in {"declined", "accepted"} :
        LET msg == [is |-> "proposal", about |-> p, status |-> status]
        IN  msg \in Answer /\ msg.about = p /\ msg.is = "proposal" /\ msg.status = status
  BY DEF Answer
<1>2. CASE Decline(p)
  <2>1. Decided(p, [is |-> "proposal", about |-> p, status |-> "declined"])
    BY <1>1, <1>2 DEF Decline, Step, Tell, Decided
  <2> QED BY <2>1
<1>3. CASE AnswerAccepted(p)
  <2>1. Decided(p, [is |-> "proposal", about |-> p, status |-> "accepted"])
    BY <1>1, <1>3 DEF AnswerAccepted, Step, Tell, Decided
  <2> QED BY <2>1
<1> QED BY <1>2, <1>3

\* A reply changes what is on its way to one client, if that.
LEMMA ReplyElsewhere ==
  ASSUME ToClientOK, NEW c \in Conns, NEW msg, Reply(c, msg), NEW d \in Conns
  PROVE  \/ toClient'[d] = toClient[d] /\ Thinned(d)
         \/ d = c /\ link[c] = "up" /\ toClient'[c] = Append(toClient[c], msg)
<1>1. \/ toClient'[d] = toClient[d]
      \/ d = c /\ link[c] = "up" /\ toClient'[c] = Append(toClient[c], msg)
  BY DEF Reply, ToClientOK
<1> QED BY <1>1, ThinnedSame

LEMMA ThinnedAnswers ==
  ASSUME NEW c \in Conns, Thinned(c)
  PROVE  AnsweredOn(c)' \subseteq AnsweredOn(c)
BY DEF Thinned, AnsweredOn

LEMMA FewerSent ==
  ASSUME NEW c \in Conns, Fewer(c)
  PROVE  SentOn(c)' \subseteq SentOn(c)
BY DEF Fewer, SentOn

LEMMA AppendedAnswers ==
  ASSUME ToClientOK, NEW c \in Conns, NEW msg \in Answer, toClient'[c] = Append(toClient[c], msg)
  PROVE  AnsweredOn(c)' \subseteq AnsweredOn(c) \union {msg.about}
<1>1. PICK n \in Nat :
        /\ \A i \in AnswersOn(c)' : i = n \/ (i \in AnswersOn(c) /\ toClient'[c][i] = toClient[c][i])
        /\ toClient'[c][n] = msg
  BY Appended
<1>2. ASSUME NEW i \in AnswersOn(c)' PROVE toClient'[c][i].about \in AnsweredOn(c) \union {msg.about}
  BY <1>1, <1>2 DEF AnsweredOn
<1>3. AnsweredOn(c)' = {toClient'[c][i].about : i \in AnswersOn(c)'}
  BY DEF AnsweredOn
<1> QED BY <1>2, <1>3

LEMMA ReplyAnswers ==
  ASSUME ToClientOK, NEW c \in Conns, NEW msg \in Answer, Reply(c, msg), NEW d \in Conns
  PROVE  AnsweredOn(d)' \subseteq AnsweredOn(d) \union {msg.about}
BY ReplyElsewhere, ThinnedAnswers, AppendedAnswers

-----------------------------------------------------------------------------
(* Numbers, and the connections that are to come *)

LEMMA ResultTypes ==
  ASSUME NEW told \in Results
  PROVE  /\ told.about \in Nat /\ (told.about = 0 \/ told.about \in Requests)
         /\ (told \notin {None, GaveUp} => told.about \in Requests /\ told.about # 0)
<1>1. CASE told \in {None, GaveUp}
  <2>1. None.about = 0 /\ GaveUp.about = 0
    BY DEF None, GaveUp
  <2>2. told.about = 0
    BY <1>1, <2>1
  <2> QED BY <1>1, <2>2
<1>2. CASE told \notin {None, GaveUp}
  <2>1. told.about \in Requests
    BY <1>2 DEF Results
  <2> QED BY <1>2, <2>1 DEF Requests
<1> QED BY <1>1, <1>2

LEMMA BaseFacts ==
  ASSUME BaseInv
  PROVE  /\ ShareTypeOK /\ ClientTypeOK /\ LockInv /\ ToClientOK /\ asked \in Nat /\ conn \in Nat
         /\ toServer \in [Conns -> Seq(Request)] /\ replies \in Seq(Answer)
         /\ proposal \in [Requests -> [step : {"none", "asking", "added", "approved", "done"}, conn : Conns]]
<1>1. ShareTypeOK /\ ClientTypeOK /\ LockInv
  BY DEF BaseInv, ClientInv
<1>2. asked \in 0..MaxRequests /\ conn \in 0..MaxConns /\ replies \in Seq(Answer)
  BY <1>1 DEF ClientTypeOK
<1> QED BY <1>1, <1>2, ShareTypes DEF ShareTypeOK

\* A message that is taken off the stream.
LEMMA ReceivedIs ==
  ASSUME BaseInv, NEW is, Receive(is)
  PROVE  /\ conn \in Conns /\ toClient[conn] # <<>> /\ toClient'[conn] = Tail(toClient[conn])
         /\ \A c \in Conns : c # conn => toClient'[c] = toClient[c]
         /\ UNCHANGED <<asked, result, proposal, rules, toServer, conn, link, handler>>
         /\ Head(toClient[conn]).is = is /\ Head(toClient[conn]) = toClient[conn][1] /\ 1 \in DOMAIN toClient[conn]
<1>1. ShareTypeOK /\ ClientTypeOK /\ toClient \in [Conns -> Seq(Messages)]
  BY BaseFacts DEF ToClientOK
<1>2. conn \in Conns /\ toClient[conn] \in Seq(Messages) /\ toClient[conn] # <<>>
  BY <1>1, ReceiveTypes
<1>3. Head(toClient[conn]) = toClient[conn][1] /\ 1 \in DOMAIN toClient[conn]
  BY <1>2
<1>4. toClient' = [toClient EXCEPT ![conn] = Tail(@)] /\ Head(toClient[conn]).is = is
      /\ UNCHANGED <<asked, result, proposal, rules, toServer, conn, link, handler>>
  BY DEF Receive, asks
<1> QED BY <1>1, <1>2, <1>3, <1>4

LEMMA NumberStep ==
  ASSUME BaseInv, NumberInv, [Next]_vars
  PROVE  NumberInv'
<1>0. /\ ShareTypeOK /\ ClientTypeOK /\ LockInv /\ ToClientOK /\ asked \in Nat
      /\ toServer \in [Conns -> Seq(Request)]
  BY BaseFacts
<1> DEFINE Ons(c)  == SentOn(c) \union AnsweredOn(c)
           Heard == Replied \union Recorded \union Settled
<1>1. CASE Lessens
  <2>1. \A c \in Conns : Ons(c)' \subseteq Ons(c)
    BY <1>1, ThinnedAnswers, FewerSent DEF Lessens
  <2>2. Heard' = Heard /\ asked' = asked /\ proposal' = proposal /\ rules' \subseteq rules
    BY <1>1 DEF Lessens, Replied, Recorded, Settled
  <2> QED BY <2>1, <2>2 DEF NumberInv
<1>2. ASSUME NEW c \in Conns, NEW msg, Served(c, msg) PROVE NumberInv'
  <2>1. /\ msg \in Answer /\ msg.about = About(c) /\ Reply(c, msg)
        /\ UNCHANGED <<asked, replies, result, decided>>
    BY <1>2 DEF Served, client, answers, asks
  <2>2. toServer[c] # <<>> /\ toServer'[c] = Tail(toServer[c]) /\ \A d \in Conns : d # c => toServer'[d] = toServer[d]
    BY <1>0, <1>2 DEF Served
  <2>3. About(c) \in SentOn(c) /\ About(c) <= asked
    BY <1>0, <2>2, FewerTail DEF NumberInv
  <2>4. ASSUME NEW d \in Conns, NEW a \in Ons(d)' PROVE a <= asked
    <3>1. SentOn(d)' \subseteq SentOn(d)
      <4>1. Fewer(d)
        BY <1>0, <2>2, FewerTail, FewerSame
      <4> QED BY <4>1, FewerSent
    <3>2. AnsweredOn(d)' \subseteq AnsweredOn(d) \union {About(c)}
      BY <1>0, <2>1, ReplyAnswers
    <3> QED BY <2>3, <2>4, <3>1, <3>2 DEF NumberInv
  <2>5. \A p \in Requests : proposal'[p].step # "none" => p <= asked
    BY <1>0, <1>2, <2>3 DEF Served, NumberInv, ShareTypeOK
  <2>6. \A x \in rules' : x.id <= asked
    BY <1>2, <2>3 DEF Served, NumberInv
  <2>7. Heard' = Heard /\ asked' = asked
    BY <2>1 DEF Replied, Recorded, Settled
  <2> QED BY <2>4, <2>5, <2>6, <2>7 DEF NumberInv
<1>3. ASSUME NEW p \in Requests, Decide(p), UNCHANGED client PROVE NumberInv'
  <2>1. UNCHANGED <<asked, replies, result, decided>> /\ toServer' = toServer
    BY <1>3 DEF client, answers, asks, Decide, Decline, AddAgreed, ApproveAdded, ApproveRaises, AnswerAccepted, Step
  <2>2. Heard' = Heard /\ \A c \in Conns : SentOn(c)' = SentOn(c)
    BY <2>1 DEF Replied, Recorded, Settled, SentOn
  <2>3. proposal[p].step # "none" /\ p <= asked
    BY <1>3 DEF Decide, Decline, AddAgreed, ApproveAdded, ApproveRaises, AnswerAccepted, Step, NumberInv
  <2>4. \A q \in Requests : proposal'[q].step # "none" => q <= asked
    BY <1>0, <1>3, <2>3
       DEF Decide, Decline, AddAgreed, ApproveAdded, ApproveRaises, AnswerAccepted, Step, NumberInv, ShareTypeOK
  <2>5. \A x \in rules' : x.id <= asked
    <3>1. CASE AddAgreed(p)
      BY <2>3, <3>1 DEF AddAgreed, NumberInv
    <3>2. CASE ApproveAdded(p)
      <4>1. PICK r \in rules : rules' = (rules \ {r}) \union {[r EXCEPT !.approved = TRUE]}
        BY <3>2 DEF ApproveAdded
      <4>2. [r EXCEPT !.approved = TRUE].id = r.id
        BY <1>0 DEF ShareTypeOK
      <4> QED BY <4>1, <4>2 DEF NumberInv
    <3>3. CASE Decline(p) \/ ApproveRaises(p) \/ AnswerAccepted(p)
      BY <3>3 DEF Decline, ApproveRaises, AnswerAccepted, NumberInv
    <3> QED BY <1>3, <3>1, <3>2, <3>3 DEF Decide
  <2>6. ASSUME NEW c \in Conns, NEW a \in AnsweredOn(c)' PROVE a <= asked
    <3>1. CASE Decline(p) \/ AnswerAccepted(p)
      <4>1. PICK msg : Decided(p, msg)
        BY <1>3, <3>1, DecidedIs
      <4>2. msg \in Answer /\ msg.about = p /\ Reply(proposal[p].conn, msg) /\ proposal[p].conn \in Conns
        BY <1>0, <4>1 DEF Decided, ShareTypeOK
      <4>3. AnsweredOn(c)' \subseteq AnsweredOn(c) \union {p}
        BY <1>0, <4>2, ReplyAnswers
      <4> QED BY <2>3, <2>6, <4>3 DEF NumberInv
    <3>2. CASE AddAgreed(p) \/ ApproveAdded(p) \/ ApproveRaises(p)
      <4>1. toClient' = toClient
        BY <3>2 DEF AddAgreed, ApproveAdded, ApproveRaises
      <4>2. AnsweredOn(c)' = AnsweredOn(c)
        BY <4>1 DEF AnsweredOn, AnswersOn
      <4> QED BY <2>6, <4>2 DEF NumberInv
    <3> QED BY <1>3, <3>1, <3>2 DEF Decide
  <2> QED BY <2>1, <2>2, <2>4, <2>5, <2>6 DEF NumberInv
<1>4. CASE ReceiveWatchAnswer \/ ReceiveProposal
  <2>0. PICK is \in {"watch_ok", "watch_fail", "watch_list", "proposal"} : Receive(is)
    BY <1>4 DEF ReceiveWatchAnswer, ReceiveProposal
  <2>1. /\ conn \in Conns /\ toClient[conn] # <<>> /\ toClient'[conn] = Tail(toClient[conn])
        /\ \A c \in Conns : c # conn => toClient'[c] = toClient[c]
        /\ UNCHANGED <<asked, result, proposal, rules, toServer>>
    BY <2>0, ReceivedIs
  <2>2. Head(toClient[conn]).about \in AnsweredOn(conn)
    <3>1. 1 \in AnswersOn(conn) /\ toClient[conn][1] = Head(toClient[conn])
      BY <2>0, ReceivedIs DEF AnswersOn, IsAnswer
    <3> QED BY <3>1 DEF AnsweredOn
  <2>3. \A c \in Conns : Ons(c)' \subseteq Ons(c)
    <3>1. \A c \in Conns : Thinned(c)
      BY <1>0, <2>1, ThinnedTail, ThinnedSame DEF Thinned
    <3>2. \A c \in Conns : SentOn(c)' = SentOn(c)
      BY <2>1 DEF SentOn
    <3> QED BY <3>1, <3>2, ThinnedAnswers
  <2>4. Replied' \subseteq Replied \union {Head(toClient[conn]).about}
    <3>1. replies' = Append(replies, Head(toClient[conn])) \/ replies' = replies
      BY <1>4 DEF ReceiveWatchAnswer, ReceiveProposal
    <3>2. replies \in Seq(Answer)
      BY <1>0 DEF ClientTypeOK
    <3>3. ASSUME replies' = Append(replies, Head(toClient[conn])), NEW i \in DOMAIN replies'
          PROVE  replies'[i] = Head(toClient[conn]) \/ (i \in DOMAIN replies /\ replies'[i] = replies[i])
      BY <3>2, <3>3
    <3> QED BY <3>1, <3>3 DEF Replied
  <2>5. Settled' \subseteq Settled \union {Head(toClient[conn]).about}
    BY <1>4 DEF ReceiveWatchAnswer, ReceiveProposal, Settled, Short
  <2>6. Heard' \subseteq Heard \union {Head(toClient[conn]).about}
    BY <2>1, <2>4, <2>5 DEF Recorded
  <2> QED BY <2>1, <2>2, <2>3, <2>6 DEF NumberInv
<1>5. ASSUME NEW history, Attach(history) PROVE NumberInv'
  <2>1. /\ UNCHANGED <<asked, result, proposal, rules, toServer, toClient>>
        /\ replies' = <<>> /\ decided' = {}
    BY <1>5 DEF Attach, Fresh
  <2>2. Heard' \subseteq Heard
    BY <2>1 DEF Replied, Recorded, Settled
  <2>3. \A c \in Conns : Ons(c)' = Ons(c)
    BY <2>1 DEF SentOn, AnsweredOn, AnswersOn
  <2> QED BY <2>1, <2>2, <2>3 DEF NumberInv
<1>6. ASSUME NEW t \in Callers, Ask(t) PROVE NumberInv'
  <2>0. replies \in Seq(Answer)
    BY <1>0 DEF ClientTypeOK
  <2>1. UNCHANGED <<toClient, proposal, rules>> /\ \A c \in Conns : AnsweredOn(c)' = AnsweredOn(c)
    <3>1. UNCHANGED <<toClient, proposal, rules>>
      BY <1>6 DEF Ask, Drain, SendRequest, TakeReply, RequestTimesOut, TakeDecision, StopWaiting, server
    <3> QED BY <3>1 DEF AnsweredOn, AnswersOn
  <2>2. CASE Drain(t)
    <3>1. UNCHANGED <<asked, result, decided, toServer>> /\ replies' = <<>>
      BY <2>2 DEF Drain, server
    <3>2. Heard' \subseteq Heard /\ \A c \in Conns : SentOn(c)' = SentOn(c)
      BY <3>1 DEF Replied, Recorded, Settled, SentOn
    <3> QED BY <2>1, <3>1, <3>2 DEF NumberInv
  <2>3. ASSUME NEW is, NEW target, SendRequest(t, is, target) PROVE NumberInv'
    <3>1. /\ UNCHANGED <<result, decided, replies>>
          /\ asked' = asked \/ asked' = asked + 1
      BY <2>3 DEF SendRequest, answers
    <3>2. Heard' = Heard /\ asked' \in Nat /\ asked <= asked'
      BY <1>0, <3>1 DEF Replied, Recorded, Settled
    <3>3. ASSUME NEW c \in Conns, NEW a \in SentOn(c)' PROVE a \in SentOn(c) \/ a = asked'
      <4>1. \/ toServer'[c] = toServer[c]
            \/ /\ asked' = asked + 1
               /\ toServer'[c] = Append(toServer[c], [is |-> is, about |-> asked + 1, target |-> target])
        BY <1>0, <2>3 DEF SendRequest
      <4>2. toServer[c] \in Seq(Request)
        BY <1>0
      <4>3. PICK i \in DOMAIN toServer'[c] : a = toServer'[c][i].about
        BY <3>3 DEF SentOn
      <4>4. CASE toServer'[c] = toServer[c]
        BY <4>3, <4>4 DEF SentOn
      <4>5. CASE /\ asked' = asked + 1
                 /\ toServer'[c] = Append(toServer[c], [is |-> is, about |-> asked + 1, target |-> target])
        <5>1. \/ i \in DOMAIN toServer[c] /\ toServer'[c][i] = toServer[c][i]
              \/ toServer'[c][i] = [is |-> is, about |-> asked + 1, target |-> target]
          BY <4>2, <4>3, <4>5
        <5> QED BY <4>3, <4>5, <5>1 DEF SentOn
      <4> QED BY <4>1, <4>4, <4>5
    <3>4. \A a \in Nat : a <= asked => a <= asked'
      BY <1>0, <3>2
    <3>5. /\ \A c \in Conns : SentOn(c) \subseteq Nat /\ AnsweredOn(c) \subseteq Nat
          /\ Requests \subseteq Nat /\ (\A x \in rules : x.id \in Nat) /\ Heard \subseteq Nat
      <4>1. Requests \subseteq Nat
        BY DEF Requests
      <4>2. ASSUME NEW c \in Conns PROVE SentOn(c) \subseteq Nat /\ AnsweredOn(c) \subseteq Nat
        <5>1. \A i \in DOMAIN toServer[c] : toServer[c][i] \in Request
          BY <1>0
        <5> QED BY <1>0, <4>1, <5>1, Streams DEF SentOn, AnsweredOn, Request
      <4>3. \A x \in rules : x.id \in Nat
        BY <1>0, <4>1 DEF ShareTypeOK
      <4>4. Heard \subseteq Nat
        <5>1. \A i \in DOMAIN replies : replies[i].about \in Nat
          <6>1. \A i \in DOMAIN replies : replies[i] \in Answer
            BY <2>0
          <6> QED BY <4>1, <6>1 DEF Answer
        <5>2. \A d \in Results : d.about \in Nat
          BY ResultTypes
        <5> QED BY <1>0, <5>1, <5>2 DEF Replied, Recorded, Settled, ClientTypeOK
      <4> QED BY <4>1, <4>2, <4>3, <4>4
    <3> QED BY <2>1, <3>2, <3>3, <3>4, <3>5 DEF NumberInv
  <2>4. ASSUME UNCHANGED <<asked, toServer>>, Heard' \subseteq Heard \union {0} PROVE NumberInv'
    <3>1. \A c \in Conns : SentOn(c)' = SentOn(c)
      BY <2>4 DEF SentOn
    <3> QED BY <1>0, <2>1, <2>4, <3>1 DEF NumberInv
  <2>5. CASE TakeReply(t)
    <3>1. UNCHANGED <<asked, toServer, decided>> /\ replies # <<>> /\ replies' = Tail(replies)
      BY <2>5 DEF TakeReply, server
    <3>2. Head(replies) = replies[1] /\ 1 \in DOMAIN replies
      BY <2>0, <3>1
    <3>3. ASSUME NEW r \in Requests PROVE result'[r] = result[r] \/ result'[r] = Short(Head(replies))
      BY <1>0, <2>5 DEF TakeReply, Return, ClientTypeOK
    <3>4. Replied' \subseteq Replied
      <4>1. \A i \in DOMAIN replies' : i + 1 \in DOMAIN replies /\ replies'[i] = replies[i + 1]
        BY <2>0, <3>1
      <4> QED BY <4>1 DEF Replied
    <3>5. Recorded' \subseteq Recorded \union Replied
      BY <3>2, <3>3 DEF Recorded, Replied, Short
    <3> QED BY <2>4, <3>1, <3>4, <3>5 DEF Settled
  <2>6. CASE RequestTimesOut(t) \/ StopWaiting(t)
    <3>1. UNCHANGED <<asked, toServer, decided, replies>>
      BY <2>6 DEF RequestTimesOut, StopWaiting, server, answers
    <3>2. ASSUME NEW r \in Requests PROVE result'[r] = result[r] \/ result'[r] = GaveUp
      BY <1>0, <2>6 DEF RequestTimesOut, StopWaiting, Return, ClientTypeOK
    <3>3. Recorded' \subseteq Recorded \union {0}
      <4>1. GaveUp.about = 0
        BY DEF GaveUp
      <4> QED BY <3>2, <4>1 DEF Recorded
    <3> QED BY <2>4, <3>1, <3>3 DEF Settled, Replied
  <2>7. CASE TakeDecision(t)
    <3>1. PICK d \in decided : decided' = decided \ {d} /\ Return(t, d, "no")
      BY <2>7 DEF TakeDecision
    <3>2. UNCHANGED <<asked, toServer, replies>>
      BY <2>7 DEF TakeDecision, server
    <3>3. ASSUME NEW r \in Requests PROVE result'[r] = result[r] \/ result'[r] = d
      BY <1>0, <3>1 DEF Return, ClientTypeOK
    <3>4. Recorded' \subseteq Recorded \union Settled
      BY <3>3 DEF Recorded, Settled
    <3>5. Settled' \subseteq Settled
      BY <3>1 DEF Settled
    <3> QED BY <2>4, <3>2, <3>4, <3>5 DEF Replied
  <2> QED BY <1>6, <2>2, <2>3, <2>5, <2>6, <2>7 DEF Ask
<1> QED BY <1>1, <1>2, <1>3, <1>4, <1>5, <1>6, StepKinds, ServedIs

LEMMA DecideSteps ==
  ASSUME BaseInv, NEW p \in Requests, Decide(p), UNCHANGED client
  PROVE  /\ UNCHANGED <<link, handler, toServer, conn, asked, replies, result, decided, awaiting>>
         /\ Undecided(p) /\ proposal[p].conn \in Conns
         /\ \A q \in Requests : q # p => proposal'[q] = proposal[q]
         /\ \A q \in Requests : proposal'[q].conn = proposal[q].conn /\ (Undecided(q)' => Undecided(q))
<1>1. proposal \in [Requests -> [step : {"none", "asking", "added", "approved", "done"}, conn : Conns]]
  BY BaseFacts
<1>2. PICK from \in {"asking", "added", "approved"}, to \in {"added", "approved", "done"} : Step(p, from, to)
  BY DEF Decide, Decline, AddAgreed, ApproveAdded, ApproveRaises, AnswerAccepted
<1>3. /\ UNCHANGED <<link, handler, toServer>> /\ proposal[p].step = from
      /\ proposal' = [proposal EXCEPT ![p].step = to]
  BY <1>2 DEF Step
<1>4. UNCHANGED <<conn, asked, replies, result, decided, awaiting>>
  BY DEF client, wires, answers, asks
<1>5. ASSUME NEW q \in Requests PROVE proposal'[q].conn = proposal[q].conn /\ (q # p => proposal'[q] = proposal[q])
  BY <1>1, <1>3
<1> QED BY <1>1, <1>3, <1>4, <1>5 DEF Undecided

LEMMA FutureStep ==
  ASSUME BaseInv, FutureInv, [Next]_vars
  PROVE  FutureInv'
<1>0. /\ ShareTypeOK /\ ClientTypeOK /\ LockInv /\ ToClientOK /\ asked \in Nat /\ conn \in Nat
      /\ toServer \in [Conns -> Seq(Request)] /\ toClient \in [Conns -> Seq(Messages)]
      /\ proposal \in [Requests -> [step : {"none", "asking", "added", "approved", "done"}, conn : Conns]]
      /\ link \in [Conns -> {"none", "up", "silent", "closed"}]
      /\ handler \in [Conns -> {"none", "serving", "leaving", "gone"}]
  BY BaseFacts DEF ShareTypeOK, ToClientOK
<1>1. ASSUME UNCHANGED <<link, handler, toServer, toClient, proposal, conn>> PROVE FutureInv'
  BY <1>1 DEF FutureInv, Undecided
<1>2. ASSUME NEW c \in Conns, c > conn
      PROVE  /\ link[c] = "none" /\ handler[c] = "none" /\ toServer[c] = <<>> /\ toClient[c] = <<>>
             /\ \A p \in Requests : proposal[p].conn = c => ~Undecided(p)
  BY <1>2 DEF FutureInv
<1>3. ASSUME NEW d \in Conns, ServerHandles(d), UNCHANGED client PROVE FutureInv'
  <2> SUFFICES ASSUME NEW c \in Conns, c > conn'
               PROVE  /\ link'[c] = "none" /\ handler'[c] = "none" /\ toServer'[c] = <<>> /\ toClient'[c] = <<>>
                      /\ \A p \in Requests : proposal'[p].conn = c => ~Undecided(p)'
    BY DEF FutureInv
  <2>1. conn' = conn
    BY <1>3 DEF client, wires
  <2>2. CASE Leave(d) \/ RemoveLeft(d)
    <3>1. d # c
      BY <1>2, <2>1, <2>2 DEF Leave, RemoveLeft
    <3>2. link'[c] = link[c] /\ handler'[c] = handler[c] /\ toServer'[c] = toServer[c] /\ UNCHANGED <<toClient, proposal>>
      BY <1>0, <2>2, <3>1 DEF Leave, RemoveLeft
    <3> QED BY <1>2, <2>1, <3>2 DEF Undecided
  <2>3. ASSUME NEW msg, Served(d, msg)
        PROVE  /\ link'[c] = "none" /\ handler'[c] = "none" /\ toServer'[c] = <<>> /\ toClient'[c] = <<>>
               /\ \A p \in Requests : proposal'[p].conn = c => ~Undecided(p)'
    <3>1. d # c /\ link'[c] = link[c] /\ handler'[c] = handler[c] /\ toServer'[c] = toServer[c]
      BY <1>0, <1>2, <2>1, <2>3 DEF Served
    <3>2. toClient'[c] = toClient[c]
      BY <1>0, <2>3, <3>1, ReplyElsewhere DEF Served
    <3>3. \A p \in Requests : proposal'[p] = proposal[p] \/ proposal'[p].conn = d
      BY <1>0, <2>3 DEF Served
    <3> QED BY <1>2, <2>1, <3>1, <3>2, <3>3 DEF Undecided
  <2> QED BY <1>3, <2>2, <2>3, ServedIs DEF ServerHandles
<1>4. ASSUME NEW p \in Requests, Decide(p), UNCHANGED client PROVE FutureInv'
  <2>1. /\ UNCHANGED <<link, handler, toServer, conn>> /\ Undecided(p)
        /\ \A q \in Requests : proposal'[q].conn = proposal[q].conn /\ (Undecided(q)' => Undecided(q))
    BY <1>4, DecideSteps
  <2>2. proposal[p].conn \in Conns /\ ~(proposal[p].conn > conn)
    BY <1>0, <1>2, <2>1
  <2>3. ASSUME NEW c \in Conns, c > conn PROVE toClient'[c] = toClient[c]
    <3>1. (\E msg : Reply(proposal[p].conn, msg)) \/ toClient' = toClient
      BY <1>4 DEF Decide, Decline, AddAgreed, ApproveAdded, ApproveRaises, AnswerAccepted, Tell
    <3> QED BY <1>0, <2>2, <2>3, <3>1, ReplyElsewhere
  <2> QED BY <2>1, <2>3 DEF FutureInv
<1>5. CASE World
  <2>1. UNCHANGED <<client, conn>>
    BY <1>5 DEF World, client, wires
  <2>2. ASSUME NEW msg, Publish(msg), UNCHANGED conn PROVE FutureInv'
    <3>1. UNCHANGED <<handler, toServer, proposal, conn>>
      BY <2>2 DEF Publish
    <3>2. \A c \in Conns : link[c] = "none" => link'[c] = link[c] /\ toClient'[c] = toClient[c]
      BY <2>2 DEF Publish
    <3> QED BY <3>1, <3>2 DEF FutureInv, Undecided
  <2>3. CASE (\E kind : DeviceSays(kind)) \/ (\E state : StatusChanges(state))
    BY <2>1, <2>2, <2>3 DEF DeviceSays, StatusChanges
  <2>4. CASE \E c \in Conns : LinkGoesSilent(c)
    <3>1. UNCHANGED <<handler, toServer, toClient, proposal>> /\ \A c \in Conns : link[c] = "none" => link'[c] = link[c]
      BY <1>0, <2>4 DEF LinkGoesSilent
    <3> QED BY <2>1, <3>1 DEF FutureInv, Undecided
  <2>5. CASE StopShare
    <3>1. UNCHANGED <<handler, toServer, proposal>> /\ \A c \in Conns : link[c] = "none" => link'[c] = "none"
      BY <2>5 DEF StopShare
    <3>2. ASSUME NEW c \in Conns, toClient[c] = <<>> PROVE toClient'[c] = <<>>
      <4>1. PICK sent \in [Conns -> 0..QueueMax] :
              /\ sent[c] <= Len(toClient[c])
              /\ toClient'[c] = SubSeq(toClient[c], 1, sent[c])
        BY <2>5 DEF StopShare
      <4>2. sent[c] = 0
        BY <3>2, <4>1
      <4> QED BY <3>2, <4>1, <4>2
    <3> QED BY <2>1, <3>1, <3>2 DEF FutureInv, Undecided
  <2>6. CASE StopRemovesRules
    BY <1>1, <2>1, <2>6 DEF StopRemovesRules
  <2> QED BY <1>3, <1>4, <1>5, <2>1, <2>3, <2>4, <2>5, <2>6 DEF World
<1>6. ASSUME UNCHANGED <<handler, proposal, conn>>, conn \in Conns,
             \A c \in Conns : c # conn => link'[c] = link[c] /\ toClient'[c] = toClient[c] /\ toServer'[c] = toServer[c]
      PROVE  FutureInv'
  <2>1. \A c \in Conns : c > conn => c # conn
    BY <1>0 DEF Conns
  <2> QED BY <1>6, <2>1 DEF FutureInv, Undecided
<1>7. CASE ReceiverStep \/ ReceiverChecks
  <2>1. CASE \E is : Receive(is)
    BY <1>6, <2>1, ReceivedIs DEF Receive
  <2>2. CASE EndOfChunk \/ SeesTheEnd
    BY <1>1, <2>2 DEF EndOfChunk, SeesTheEnd, server
  <2> QED BY <1>7, <2>1, <2>2 DEF ReceiverStep, ReceiverChecks, ReceiveLine, ReceivePrompt, ReceiveEvent, ReceivePong,
                                  ReceiveStatus, ReceiveWatchAnswer, ReceiveProposal
<1>8. CASE BeatStep \/ Close
  <2>1. conn \in Conns
    BY <1>0, <1>8, ConnTypes DEF BeatStep, Beat, BeatGivesUp, Close, CloseClient, LockInv, ClientTypeOK
  <2>2. CASE Beat
    <3>1. UNCHANGED <<link, handler, proposal, conn, toServer>>
      BY <2>2 DEF Beat
    <3>2. \A c \in Conns : c # conn => toClient'[c] = toClient[c]
      BY <1>0, <2>1, <2>2, ReplyElsewhere DEF Beat
    <3> QED BY <1>6, <2>1, <3>1, <3>2
  <2>3. CASE BeatGivesUp \/ CloseClient
    <3>1. UNCHANGED <<handler, proposal, conn, toServer>> /\ Shut
      BY <2>3 DEF BeatGivesUp, CloseClient
    <3> QED BY <1>0, <1>6, <2>1, <3>1 DEF Shut
  <2> QED BY <1>8, <2>2, <2>3 DEF BeatStep, Close
<1>9. ASSUME NEW history, Join(history) PROVE FutureInv'
  <2>1. /\ conn' = conn + 1 /\ UNCHANGED <<toServer, toClient, proposal>>
        /\ \A c \in Conns : c # conn + 1 => link'[c] = link[c] /\ handler'[c] = handler[c]
    BY <1>0, <1>9 DEF Join, Attach
  <2>2. ASSUME NEW c \in Conns, c > conn' PROVE c > conn /\ c # conn + 1
    BY <1>0, <2>1, <2>2 DEF Conns
  <2> QED BY <2>1, <2>2 DEF FutureInv, Undecided
<1>10. ASSUME NEW t \in Callers, Ask(t) PROVE FutureInv'
  <2>1. CASE \E is, target : SendRequest(t, is, target)
    <3>1. UNCHANGED <<link, handler, toClient, proposal, conn>>
      BY <2>1 DEF SendRequest, wires
    <3>2. CASE conn \in Conns
      <4>1. \A c \in Conns : c # conn => toServer'[c] = toServer[c]
        BY <1>0, <2>1 DEF SendRequest
      <4> QED BY <1>6, <3>1, <3>2, <4>1
    <3>3. CASE conn \notin Conns
      <4>1. ~socket
        BY <1>0, <3>3, ConnTypes DEF LockInv, ClientTypeOK
      <4>2. toServer' = toServer
        BY <2>1, <4>1 DEF SendRequest
      <4> QED BY <1>1, <3>1, <4>2
    <3> QED BY <3>2, <3>3
  <2>2. CASE Drain(t) \/ TakeReply(t) \/ RequestTimesOut(t) \/ TakeDecision(t) \/ StopWaiting(t)
    BY <1>1, <2>2 DEF Drain, TakeReply, RequestTimesOut, TakeDecision, StopWaiting, server, wires
  <2> QED BY <1>10, <2>1, <2>2 DEF Ask
<1>11. ASSUME UNCHANGED <<server, client>> PROVE FutureInv'
  BY <1>1, <1>11 DEF server, client, wires
<1>12. ASSUME NEW t \in Callers, CallStep(t) PROVE FutureInv'
  BY <1>11, <1>12 DEF CallStep, ReadLines, RereadCursor, SetCursor, HitLine, HitPartial, MarkHit, MarkPartial, Miss,
                      TakeEvents, SetEventsRead, HearEvent, MarkEvent, ReplacedCallEnds, Goes
<1>13. ASSUME NEW t \in Callers,
              BeginReadNew(t) \/ BeginWaitFor(t) \/ BeginSendAndWait(t) \/ BeginReadEvents(t) \/ BeginWaitForEvent(t)
       PROVE  FutureInv'
  BY <1>11, <1>13 DEF BeginReadNew, BeginWaitFor, BeginSendAndWait, BeginReadEvents, BeginWaitForEvent, Begin
<1>14. CASE Look("watcher") \/ (\E k \in Checkers : SetLevel(k)) \/ InputEnds \/ UNCHANGED vars
  BY <1>11, <1>14 DEF Look, SetLevel, InputEnds, vars
<1> QED BY <1>5, <1>7, <1>8, <1>9, <1>10, <1>12, <1>13, <1>14 DEF Next

-----------------------------------------------------------------------------
(* What the server does with a request *)

LEMMA FewerOnce ==
  ASSUME ShareTypeOK, SentOnce, \A c \in Conns : Fewer(c)
  PROVE  SentOnce'
<1> SUFFICES ASSUME NEW b \in Conns, NEW c \in Conns, NEW i \in DOMAIN toServer'[b], NEW j \in DOMAIN toServer'[c],
                    toServer'[b][i].about = toServer'[c][j].about
             PROVE  b = c /\ i = j
  BY DEF SentOnce
<1>1. PICK k \in {0, 1} : \A n \in DOMAIN toServer'[b] : n \in Nat /\ n + k \in DOMAIN toServer[b] /\ toServer'[b][n] = toServer[b][n + k]
  BY DEF Fewer
<1>2. PICK l \in {0, 1} : \A n \in DOMAIN toServer'[c] : n \in Nat /\ n + l \in DOMAIN toServer[c] /\ toServer'[c][n] = toServer[c][n + l]
  BY DEF Fewer
<1>3. b = c
  BY <1>1, <1>2 DEF SentOnce
<1>4. i + k \in DOMAIN toServer[b] /\ j + k \in DOMAIN toServer[b]
      /\ toServer[b][i + k].about = toServer[b][j + k].about
  BY <1>1, <1>3
<1>5. i + k = j + k
  BY <1>4 DEF SentOnce
<1>6. i \in Nat /\ j \in Nat
  BY <1>1, <1>2
<1> QED BY <1>3, <1>5, <1>6

\* A request that is sent is a new one.
LEMMA SentIs ==
  ASSUME BaseInv, NEW t \in Callers, NEW is \in RequestKinds, NEW target \in Requests, SendRequest(t, is, target)
  PROVE  /\ UNCHANGED <<toClient, proposal, rules, result, decided, replies, awaiting, conn>>
         /\ \/ toServer' = toServer
            \/ /\ conn \in Conns /\ asked + 1 \in Requests /\ asked' = asked + 1
               /\ \A c \in Conns : c # conn => toServer'[c] = toServer[c]
               /\ \E n \in Nat :
                    /\ n \notin DOMAIN toServer[conn] /\ DOMAIN toServer'[conn] = DOMAIN toServer[conn] \union {n}
                    /\ toServer'[conn][n].about = asked + 1
                    /\ \A i \in DOMAIN toServer[conn] : toServer'[conn][i] = toServer[conn][i]
<1>0. /\ ShareTypeOK /\ ClientTypeOK /\ LockInv /\ asked \in Nat /\ toServer \in [Conns -> Seq(Request)]
  BY BaseFacts
<1>1. UNCHANGED <<toClient, proposal, rules, result, decided, replies, awaiting, conn>>
  BY DEF SendRequest, answers, wires
<1> DEFINE req == [is |-> is, about |-> asked + 1, target |-> target]
<1>2. \/ toServer' = toServer
      \/ socket /\ asked' = asked + 1 /\ toServer' = [toServer EXCEPT ![conn] = Append(@, req)]
  BY DEF SendRequest
<1>3. CASE socket /\ asked' = asked + 1 /\ toServer' = [toServer EXCEPT ![conn] = Append(@, req)]
  <2>1. conn \in Conns /\ asked + 1 \in Requests
    BY <1>0, <1>3, ConnTypes DEF SendRequest, LockInv, ClientTypeOK, Requests
  <2>2. toServer'[conn] = Append(toServer[conn], req) /\ \A c \in Conns : c # conn => toServer'[c] = toServer[c]
    BY <1>0, <1>3, <2>1
  <2>3. toServer[conn] \in Seq(Request) /\ req.about = asked + 1
    BY <1>0, <2>1
  <2> HIDE DEF req
  <2> DEFINE n == Len(toServer[conn]) + 1
  <2>4. /\ n \in Nat /\ n \notin DOMAIN toServer[conn]
        /\ DOMAIN Append(toServer[conn], req) = DOMAIN toServer[conn] \union {n}
        /\ Append(toServer[conn], req)[n] = req
        /\ \A i \in DOMAIN toServer[conn] : Append(toServer[conn], req)[i] = toServer[conn][i]
    BY <2>3
  <2> HIDE DEF n
  <2> QED BY <1>1, <1>3, <2>1, <2>2, <2>3, <2>4
<1> QED BY <1>1, <1>2, <1>3

LEMMA SentRequests ==
  ASSUME BaseInv, NEW c \in Conns
  PROVE  SentOn(c) \subseteq Requests
<1>1. toServer[c] \in Seq(Request)
  BY BaseFacts
<1>2. \A i \in DOMAIN toServer[c] : toServer[c][i] \in Request
  BY <1>1
<1> QED BY <1>2 DEF SentOn, Request

LEMMA ServerStep ==
  ASSUME BaseInv, NumberInv, ServerInv, [Next]_vars
  PROVE  ServerInv'
<1>0. /\ ShareTypeOK /\ ClientTypeOK /\ LockInv /\ ToClientOK /\ asked \in Nat
      /\ toServer \in [Conns -> Seq(Request)]
      /\ proposal \in [Requests -> [step : {"none", "asking", "added", "approved", "done"}, conn : Conns]]
      /\ SentOnce /\ SentInv /\ TableInv
  BY BaseFacts DEF ServerInv
<1>1. CASE Lessens
  <2>1. SentOnce'
    BY <1>0, <1>1, FewerOnce DEF Lessens
  <2>2. SentInv'
    <3>1. \A c \in Conns : SentOn(c)' \subseteq SentOn(c)
      BY <1>1, FewerSent DEF Lessens
    <3> QED BY <1>0, <1>1, <3>1 DEF Lessens, SentInv
  <2>3. TableInv'
    BY <1>0, <1>1 DEF Lessens, TableInv
  <2> QED BY <2>1, <2>2, <2>3 DEF ServerInv
<1>2. ASSUME NEW c \in Conns, NEW msg, Served(c, msg) PROVE ServerInv'
  <2>1. toServer[c] # <<>> /\ toServer'[c] = Tail(toServer[c]) /\ \A d \in Conns : d # c => toServer'[d] = toServer[d]
    BY <1>0, <1>2 DEF Served
  <2>2. /\ About(c) \in SentOn(c) /\ 1 \in DOMAIN toServer[c] /\ toServer[c][1].about = About(c)
        /\ \A i \in DOMAIN toServer'[c] : i \in Nat /\ i + 1 \in DOMAIN toServer[c] /\ toServer'[c][i] = toServer[c][i + 1]
    BY <1>0, <2>1, FewerTail
  <2>3. \A d \in Conns : Fewer(d)
    BY <1>0, <2>1, FewerTail, FewerSame
  <2>4. SentOnce'
    BY <1>0, <2>3, FewerOnce
  <2>5. ASSUME NEW d \in Conns, NEW a \in SentOn(d)' PROVE a \in SentOn(d) /\ a # About(c)
    <3>1. PICK i \in DOMAIN toServer'[d] : a = toServer'[d][i].about
      BY <2>5 DEF SentOn
    <3>2. CASE d = c
      <4>1. i \in Nat /\ i + 1 \in DOMAIN toServer[c] /\ a = toServer[c][i + 1].about
        BY <2>2, <3>1, <3>2
      <4>2. 0 \in DOMAIN toServer'[c] => 0 + 1 \in DOMAIN toServer[c]
        BY <2>2
      <4>3. i # 0
        <5>1. toServer[c] \in Seq(Request) /\ toServer[c] # <<>>
          BY <1>0, <2>1
        <5>2. DOMAIN toServer'[c] = 1..(Len(toServer[c]) - 1)
          BY <2>1, <5>1
        <5> QED BY <3>1, <3>2, <5>1, <5>2
      <4>4. i + 1 # 1
        BY <4>1, <4>3
      <4> QED BY <1>0, <2>2, <3>2, <4>1, <4>4 DEF SentOnce, SentOn
    <3>3. CASE d # c
      <4>1. i \in DOMAIN toServer[d] /\ a = toServer[d][i].about
        BY <2>1, <3>1, <3>3
      <4> QED BY <1>0, <2>2, <3>3, <4>1 DEF SentOnce, SentOn
    <3> QED BY <3>2, <3>3
  <2>6. About(c) \in Requests /\ proposal[About(c)].step = "none" /\ \A x \in rules : x.id # About(c)
    <3>1. toServer[c][1] \in Request
      BY <1>0, <2>2
    <3> QED BY <1>0, <2>2, <3>1 DEF SentInv, Request
  <2>7. /\ \A x \in rules' : x \in rules \/ (x.id = About(c) /\ proposal' = proposal)
        /\ \A x, y \in rules' : x \notin rules /\ y \notin rules => x = y
        /\ \A p \in Requests : p # About(c) => proposal'[p] = proposal[p]
        /\ proposal'[About(c)].step = "asking" => rules' = rules
        /\ proposal'[About(c)].step \in {"none", "asking"}
    <3> DEFINE new == [id |-> About(c), kind |-> "watch", conn |-> c, approved |-> FALSE]
    <3>1. new.id = About(c)
      OBVIOUS
    <3>2. \/ proposal' = proposal /\ rules' \subseteq rules \union {new}
          \/ rules' = rules /\ proposal' = [proposal EXCEPT ![About(c)] = [step |-> "asking", conn |-> c]]
      BY <1>2 DEF Served
    <3> HIDE DEF new
    <3>3. \A x, y \in rules' : x \notin rules /\ y \notin rules => x = y
      BY <3>2
    <3>4. \A x \in rules' : x \in rules \/ (x.id = About(c) /\ proposal' = proposal)
      BY <3>1, <3>2
    <3>5. /\ \A p \in Requests : p # About(c) => proposal'[p] = proposal[p]
          /\ proposal'[About(c)].step = "asking" => rules' = rules
          /\ proposal'[About(c)].step \in {"none", "asking"}
      BY <1>0, <2>6, <3>2
    <3> QED BY <3>3, <3>4, <3>5
  <2>8. SentInv'
    <3> SUFFICES ASSUME NEW d \in Conns, NEW a \in SentOn(d)'
                 PROVE  proposal'[a].step = "none" /\ \A x \in rules' : x.id # a
      BY DEF SentInv
    <3>1. a \in SentOn(d) /\ a # About(c)
      BY <2>5
    <3>2. a \in Requests
      BY <3>1, SentRequests
    <3> QED BY <1>0, <2>7, <3>1, <3>2 DEF SentInv
  <2>9. TableInv'
    BY <1>0, <2>6, <2>7 DEF TableInv
  <2> QED BY <2>4, <2>8, <2>9 DEF ServerInv
<1>3. ASSUME NEW p \in Requests, Decide(p), UNCHANGED client PROVE ServerInv'
  <2>1. /\ toServer' = toServer /\ Undecided(p) /\ proposal[p].conn \in Conns
        /\ \A q \in Requests : q # p => proposal'[q] = proposal[q]
    BY <1>3, DecideSteps
  <2>2. SentOnce' /\ \A c \in Conns : SentOn(c)' = SentOn(c) /\ p \notin SentOn(c) /\ SentOn(c) \subseteq Requests
    <3>1. SentOnce' /\ \A c \in Conns : SentOn(c)' = SentOn(c)
      BY <1>0, <2>1 DEF SentOnce, SentOn
    <3>2. \A c \in Conns : p \notin SentOn(c)
      BY <1>0, <2>1 DEF SentInv, Undecided
    <3>3. \A c \in Conns : SentOn(c) \subseteq Requests
      BY SentRequests
    <3> QED BY <3>1, <3>2, <3>3
  <2>3. ASSUME \A x \in rules' : x.id = p \/ x \in rules PROVE SentInv'
    BY <1>0, <2>1, <2>2, <2>3 DEF SentInv
  <2>4. CASE Decline(p) \/ ApproveRaises(p) \/ AnswerAccepted(p)
    <3>1. rules' = rules /\ proposal' = [proposal EXCEPT ![p].step = "done"]
      BY <2>4 DEF Decline, ApproveRaises, AnswerAccepted, Step
    <3>2. proposal'[p].step = "done"
      BY <1>0, <3>1
    <3>3. TableInv'
      BY <1>0, <2>1, <3>1, <3>2 DEF TableInv
    <3> QED BY <2>2, <2>3, <3>1, <3>3 DEF ServerInv
  <2>5. CASE AddAgreed(p)
    <3> DEFINE new == [id |-> p, kind |-> "rule", conn |-> proposal[p].conn, approved |-> FALSE]
    <3>1. /\ rules' = rules \union {new} /\ new.id = p
          /\ proposal[p].step = "asking" /\ proposal'[p].step = "added"
      BY <1>0, <2>5 DEF AddAgreed, Step
    <3> HIDE DEF new
    <3>2. \A x \in rules : x.id # p
      BY <1>0, <3>1 DEF TableInv
    <3>3. \A x, y \in rules' : x.id = y.id => x = y
      BY <1>0, <3>1, <3>2 DEF TableInv
    <3>4. \A q \in Requests : proposal'[q].step = "asking" => q # p /\ \A x \in rules' : x.id # q
      BY <1>0, <2>1, <3>1, <3>2 DEF TableInv
    <3>5. \A q \in Requests : proposal'[q].step = "approved" => \A x \in rules' : x.id = q => x.approved
      BY <1>0, <2>1, <3>1, <3>2 DEF TableInv
    <3> QED BY <2>2, <2>3, <3>1, <3>3, <3>4, <3>5 DEF ServerInv, TableInv
  <2>6. CASE ApproveAdded(p)
    <3>1. PICK r \in rules : r.id = p /\ rules' = (rules \ {r}) \union {[r EXCEPT !.approved = TRUE]}
      BY <2>6 DEF ApproveAdded
    <3>2. [r EXCEPT !.approved = TRUE].id = p /\ [r EXCEPT !.approved = TRUE].approved
      BY <1>0, <3>1 DEF ShareTypeOK
    <3>3. \A x \in rules : x.id = p => x = r
      BY <1>0, <3>1 DEF TableInv
    <3>4. proposal'[p].step = "approved"
      BY <1>0, <2>6 DEF ApproveAdded, Step
    <3>5. TableInv'
      BY <1>0, <2>1, <3>1, <3>2, <3>3, <3>4 DEF TableInv
    <3> QED BY <2>2, <2>3, <3>1, <3>2, <3>5 DEF ServerInv
  <2> QED BY <1>3, <2>4, <2>5, <2>6 DEF Decide
<1>4. ASSUME UNCHANGED <<toServer, proposal, rules>> PROVE ServerInv'
  BY <1>0, <1>4 DEF ServerInv, SentOnce, SentInv, TableInv, SentOn
<1>5. CASE ReceiveWatchAnswer \/ ReceiveProposal \/ \E history : Attach(history)
  BY <1>4, <1>5 DEF ReceiveWatchAnswer, ReceiveProposal, Receive, Attach
<1>6. ASSUME NEW t \in Callers, Ask(t) PROVE ServerInv'
  <2>1. CASE Drain(t) \/ TakeReply(t) \/ RequestTimesOut(t) \/ TakeDecision(t) \/ StopWaiting(t)
    BY <1>4, <2>1 DEF Drain, TakeReply, RequestTimesOut, TakeDecision, StopWaiting, server
  <2>2. ASSUME NEW is \in RequestKinds, NEW target \in Requests, SendRequest(t, is, target) PROVE ServerInv'
    <3>1. UNCHANGED <<proposal, rules>>
      BY <2>2, SentIs
    <3>2. CASE toServer' = toServer
      BY <1>4, <3>1, <3>2
    <3>3. CASE toServer' # toServer
      <4>1. /\ conn \in Conns /\ asked + 1 \in Requests
            /\ \A c \in Conns : c # conn => toServer'[c] = toServer[c]
        BY <2>2, <3>3, SentIs
      <4>2. PICK n \in Nat :
              /\ n \notin DOMAIN toServer[conn] /\ DOMAIN toServer'[conn] = DOMAIN toServer[conn] \union {n}
              /\ toServer'[conn][n].about = asked + 1
              /\ \A i \in DOMAIN toServer[conn] : toServer'[conn][i] = toServer[conn][i]
        BY <2>2, <3>3, SentIs
      <4>3. ASSUME NEW c \in Conns, NEW i \in DOMAIN toServer'[c]
            PROVE  \/ c = conn /\ i = n /\ toServer'[c][i].about = asked + 1
                   \/ /\ i \in DOMAIN toServer[c] /\ toServer'[c][i] = toServer[c][i]
                      /\ toServer[c][i].about # asked + 1
        <5>1. \A j \in DOMAIN toServer[c] : toServer[c][j].about <= asked
          BY DEF NumberInv, SentOn
        <5>2. ~(asked + 1 <= asked)
          BY <1>0
        <5>3. \A j \in DOMAIN toServer[c] : toServer[c][j].about # asked + 1
          BY <5>1, <5>2
        <5> QED BY <4>1, <4>2, <4>3, <5>3
      <4>4. SentOnce'
        BY <1>0, <4>3 DEF SentOnce
      <4>5. SentInv'
        <5>1. proposal[asked + 1].step = "none" /\ \A x \in rules : x.id # asked + 1
          BY <1>0, <4>1 DEF NumberInv
        <5>2. \A c \in Conns : SentOn(c)' \subseteq SentOn(c) \union {asked + 1}
          BY <4>3 DEF SentOn
        <5> QED BY <1>0, <3>1, <5>1, <5>2 DEF SentInv
      <4> QED BY <1>0, <3>1, <4>4, <4>5 DEF ServerInv, TableInv
    <3> QED BY <3>2, <3>3
  <2> QED BY <1>6, <2>1, <2>2 DEF Ask
<1> QED BY <1>1, <1>2, <1>3, <1>5, <1>6, StepKinds, ServedIs

-----------------------------------------------------------------------------
(* What is told of a decision is true, and stays so *)

Keeps == \A a \in Requests : \A status : TrueOf(a, status) => StillTrue(a, status)

LEMMA ToldOnStreams ==
  ASSUME BaseInv, TruthInv, Keeps, NEW c \in Conns,
         \/ Thinned(c)
         \/ \E msg \in Answer : toClient'[c] = Append(toClient[c], msg) /\ StillTrue(msg.about, msg.status)
  PROVE  \A i \in AnswersOn(c)' : StillTrue(toClient'[c][i].about, toClient'[c][i].status)
<1>0. ToClientOK
  BY BaseFacts
<1>1. \A i \in AnswersOn(c) : StillTrue(toClient[c][i].about, toClient[c][i].status)
  BY <1>0, Streams DEF TruthInv, Keeps
<1>2. CASE Thinned(c)
  BY <1>1, <1>2 DEF Thinned
<1>3. ASSUME NEW msg \in Answer, toClient'[c] = Append(toClient[c], msg), StillTrue(msg.about, msg.status)
      PROVE  \A i \in AnswersOn(c)' : StillTrue(toClient'[c][i].about, toClient'[c][i].status)
  <2>1. PICK n \in Nat :
          /\ \A i \in AnswersOn(c)' : i = n \/ (i \in AnswersOn(c) /\ toClient'[c][i] = toClient[c][i])
          /\ toClient'[c][n] = msg
    BY <1>0, <1>3, Appended, ZenonT(30)
  <2> QED BY <1>1, <1>3, <2>1
<1> QED BY <1>2, <1>3

LEMMA ToldResults ==
  ASSUME Keeps, NEW told \in Results, TrueOf(told.about, told.status)
  PROVE  StillTrue(told.about, told.status)
<1>1. CASE told \in {None, GaveUp}
  <2>1. None.status = "none" /\ GaveUp.status = "gave up"
    BY DEF None, GaveUp
  <2> QED BY <1>1, <2>1 DEF StillTrue, TrueIn
<1>2. CASE told \notin {None, GaveUp}
  BY <1>2, ResultTypes DEF Keeps
<1> QED BY <1>1, <1>2

\* What the client has heard, when it hears nothing.
LEMMA ToldKept ==
  ASSUME BaseInv, TruthInv, Keeps
  PROVE  /\ \A i \in DOMAIN replies : StillTrue(replies[i].about, replies[i].status)
         /\ \A d \in decided : StillTrue(d.about, d.status)
         /\ \A r \in Requests : StillTrue(result[r].about, result[r].status)
<1>1. \A i \in DOMAIN replies : replies[i].about \in Requests
  <2>1. replies \in Seq(Answer)
    BY BaseFacts
  <2>2. \A i \in DOMAIN replies : replies[i] \in Answer
    BY <2>1
  <2> QED BY <2>2 DEF Answer
<1>2. decided \subseteq Results /\ \A r \in Requests : result[r] \in Results
  BY BaseFacts DEF ClientTypeOK
<1> QED BY <1>1, <1>2, ToldResults DEF TruthInv, Keeps

LEMMA TruthStep ==
  ASSUME BaseInv, ServerInv, TruthInv, [Next]_vars
  PROVE  TruthInv'
<1>0. /\ ShareTypeOK /\ ClientTypeOK /\ LockInv /\ ToClientOK
      /\ proposal \in [Requests -> [step : {"none", "asking", "added", "approved", "done"}, conn : Conns]]
      /\ SentOnce /\ SentInv /\ TableInv
  BY BaseFacts DEF ServerInv
<1>1. ASSUME Keeps, UNCHANGED <<replies, decided, result>>,
             \A c \in Conns : \A i \in AnswersOn(c)' : StillTrue(toClient'[c][i].about, toClient'[c][i].status)
      PROVE  TruthInv'
  BY <1>1, ToldKept DEF TruthInv, TrueOf, StillTrue
<1>2. ASSUME rules' \subseteq rules, proposal' = proposal PROVE Keeps
  BY <1>2 DEF Keeps, TrueOf, StillTrue, TrueIn
<1>3. CASE Lessens
  <2>1. Keeps
    BY <1>2, <1>3 DEF Lessens
  <2> QED BY <1>1, <1>3, <2>1, ToldOnStreams DEF Lessens
<1>4. ASSUME NEW c \in Conns, NEW msg, Served(c, msg) PROVE TruthInv'
  <2>1. About(c) \in SentOn(c) /\ About(c) \in Requests /\ proposal[About(c)].step = "none"
    <3>1. toServer[c] # <<>> /\ toServer'[c] = Tail(toServer[c])
      BY <1>0, <1>4, BaseFacts DEF Served
    <3> QED BY <1>0, <3>1, FewerTail, SentRequests DEF SentInv
  <2>2. /\ \A p \in Requests : p # About(c) => proposal'[p] = proposal[p]
        /\ \A x \in rules' : x \in rules \/ x.id = About(c)
    <3> DEFINE new == [id |-> About(c), kind |-> "watch", conn |-> c, approved |-> FALSE]
    <3>1. new.id = About(c)
      OBVIOUS
    <3>2. \/ proposal' = proposal /\ rules' \subseteq rules \union {new}
          \/ rules' = rules /\ proposal' = [proposal EXCEPT ![About(c)] = [step |-> "asking", conn |-> c]]
      BY <1>4 DEF Served
    <3> HIDE DEF new
    <3> QED BY <1>0, <2>1, <3>1, <3>2
  <2>3. Keeps
    BY <2>1, <2>2 DEF Keeps, TrueOf, StillTrue, TrueIn
  <2>4. msg \in Answer /\ Reply(c, msg) /\ msg.status \notin {"accepted", "declined"}
    BY <1>4 DEF Served, IsPending
  <2>5. StillTrue(msg.about, msg.status)
    BY <2>4 DEF StillTrue, TrueIn
  <2>6. ASSUME NEW d \in Conns
        PROVE  Thinned(d) \/ \E m \in Answer : toClient'[d] = Append(toClient[d], m) /\ StillTrue(m.about, m.status)
    BY <1>0, <2>4, <2>5, ReplyElsewhere
  <2>7. UNCHANGED <<replies, decided, result>>
    BY <1>4 DEF Served, client, answers, asks
  <2> QED BY <1>1, <2>3, <2>6, <2>7, ToldOnStreams
<1>5. ASSUME NEW p \in Requests, Decide(p), UNCHANGED client PROVE TruthInv'
  <2>1. /\ UNCHANGED <<replies, decided, result>> /\ Undecided(p) /\ proposal[p].conn \in Conns
        /\ \A q \in Requests : q # p => proposal'[q] = proposal[q]
    BY <1>5, DecideSteps
  <2>2. \A x \in rules' : x \in rules \/ x.id = p
    <3>1. CASE AddAgreed(p)
      BY <3>1 DEF AddAgreed
    <3>2. CASE ApproveAdded(p)
      <4>1. PICK r \in rules : r.id = p /\ rules' = (rules \ {r}) \union {[r EXCEPT !.approved = TRUE]}
        BY <3>2 DEF ApproveAdded
      <4>2. [r EXCEPT !.approved = TRUE].id = p
        BY <1>0, <4>1 DEF ShareTypeOK
      <4> QED BY <4>1, <4>2
    <3>3. CASE Decline(p) \/ ApproveRaises(p) \/ AnswerAccepted(p)
      BY <3>3 DEF Decline, ApproveRaises, AnswerAccepted
    <3> QED BY <1>5, <3>1, <3>2, <3>3 DEF Decide
  <2>3. Keeps
    BY <2>1, <2>2 DEF Keeps, TrueOf, StillTrue, TrueIn, Undecided
  <2>4. CASE Decline(p) \/ AnswerAccepted(p)
    <3>1. PICK msg : Decided(p, msg)
      BY <1>5, <2>4, DecidedIs
    <3>2. msg \in Answer /\ msg.about = p /\ Reply(proposal[p].conn, msg)
      BY <3>1 DEF Decided
    <3>3. rules' = rules /\ proposal'[p].step = "done"
      BY <1>0, <3>1 DEF Decided
    <3>4. \/ msg.status = "declined" /\ \A x \in rules : x.id # p
          \/ msg.status = "accepted" /\ \A x \in rules : x.id = p => x.approved
      BY <1>0, <3>1 DEF Decided, TableInv
    <3>5. StillTrue(msg.about, msg.status)
      BY <3>2, <3>3, <3>4 DEF StillTrue, TrueIn
    <3>6. ASSUME NEW d \in Conns
          PROVE  Thinned(d) \/ \E m \in Answer : toClient'[d] = Append(toClient[d], m) /\ StillTrue(m.about, m.status)
      BY <1>0, <2>1, <3>2, <3>5, ReplyElsewhere
    <3> QED BY <1>1, <2>1, <2>3, <3>6, ToldOnStreams
  <2>5. CASE AddAgreed(p) \/ ApproveAdded(p) \/ ApproveRaises(p)
    <3>1. toClient' = toClient
      BY <2>5 DEF AddAgreed, ApproveAdded, ApproveRaises
    <3>2. \A c \in Conns : Thinned(c)
      BY <1>0, <3>1, ThinnedSame
    <3> QED BY <1>1, <2>1, <2>3, <3>2, ToldOnStreams
  <2> QED BY <1>5, <2>4, <2>5 DEF Decide
<1>6. CASE ReceiveWatchAnswer \/ ReceiveProposal
  <2>1. PICK is \in {"watch_ok", "watch_fail", "watch_list", "proposal"} : Receive(is)
    BY <1>6 DEF ReceiveWatchAnswer, ReceiveProposal
  <2> DEFINE msg == Head(toClient[conn])
  <2>2. /\ conn \in Conns /\ toClient[conn] # <<>> /\ toClient'[conn] = Tail(toClient[conn])
        /\ \A c \in Conns : c # conn => toClient'[c] = toClient[c]
        /\ UNCHANGED <<result, proposal, rules>>
        /\ 1 \in AnswersOn(conn) /\ toClient[conn][1] = msg
    BY <2>1, ReceivedIs DEF AnswersOn, IsAnswer
  <2>3. Keeps
    BY <1>2, <2>2
  <2>4. StillTrue(msg.about, msg.status)
    <3>1. TrueOf(msg.about, msg.status) /\ msg.about \in Requests
      BY <1>0, <2>2, Streams DEF TruthInv
    <3> QED BY <2>3, <3>1 DEF Keeps
  <2>5. \A c \in Conns : Thinned(c)
    BY <1>0, <2>2, ThinnedTail, ThinnedSame DEF Thinned
  <2>6. \A i \in DOMAIN replies' : StillTrue(replies'[i].about, replies'[i].status)
    <3>1. replies' = Append(replies, msg) \/ replies' = replies
      BY <1>6 DEF ReceiveWatchAnswer, ReceiveProposal
    <3>2. replies \in Seq(Answer)
      BY BaseFacts
    <3>3. \A i \in DOMAIN replies' : replies'[i] = msg \/ (i \in DOMAIN replies /\ replies'[i] = replies[i])
      <4> HIDE DEF msg
      <4> QED BY <3>1, <3>2
    <3> QED BY <2>3, <2>4, <3>3, ToldKept
  <2>7. \A d \in decided' : StillTrue(d.about, d.status)
    <3>1. decided' \subseteq decided \union {Short(msg)}
      BY <1>6 DEF ReceiveWatchAnswer, ReceiveProposal
    <3>2. Short(msg).about = msg.about /\ Short(msg).status = msg.status
      BY DEF Short
    <3> QED BY <2>3, <2>4, <3>1, <3>2, ToldKept
  <2> QED BY <2>2, <2>3, <2>5, <2>6, <2>7, ToldKept, ToldOnStreams DEF TruthInv, TrueOf, StillTrue
<1>7. ASSUME NEW history, Attach(history) PROVE TruthInv'
  <2>1. /\ UNCHANGED <<result, proposal, rules, toClient>>
        /\ replies' = <<>> /\ decided' = {}
    BY <1>7 DEF Attach, Fresh
  <2>2. Keeps
    BY <1>2, <2>1
  <2>3. \A c \in Conns : Thinned(c)
    BY <1>0, <2>1, ThinnedSame
  <2> QED BY <2>1, <2>2, <2>3, ToldKept, ToldOnStreams DEF TruthInv, TrueOf, StillTrue
<1>8. ASSUME NEW t \in Callers, Ask(t) PROVE TruthInv'
  <2>1. UNCHANGED <<toClient, proposal, rules>>
    BY <1>8 DEF Ask, Drain, SendRequest, TakeReply, RequestTimesOut, TakeDecision, StopWaiting, server
  <2>2. Keeps
    BY <1>2, <2>1
  <2>3. \A c \in Conns : \A i \in AnswersOn(c)' : StillTrue(toClient'[c][i].about, toClient'[c][i].status)
    BY <1>0, <2>1, <2>2, ThinnedSame, ToldOnStreams
  <2>4. ASSUME \A i \in DOMAIN replies' : StillTrue(replies'[i].about, replies'[i].status), decided' \subseteq decided,
               \A r \in Requests : StillTrue(result'[r].about, result'[r].status)
        PROVE  TruthInv'
    BY <2>2, <2>3, <2>4, ToldKept DEF TruthInv, TrueOf, StillTrue
  <2>5. CASE Drain(t)
    BY <2>2, <2>4, <2>5, ToldKept DEF Drain
  <2>6. CASE \E is, target : SendRequest(t, is, target)
    BY <2>2, <2>4, <2>6, ToldKept DEF SendRequest, answers
  <2>7. ASSUME NEW what, Return(t, what, "no") \/ Return(t, what, "decision"), StillTrue(what.about, what.status)
        PROVE  \A r \in Requests : StillTrue(result'[r].about, result'[r].status)
    <3>1. \A r \in Requests : result'[r] = result[r] \/ result'[r] = what
      BY <1>0, <2>7 DEF Return, ClientTypeOK
    <3> QED BY <2>2, <2>7, <3>1, ToldKept
  <2>8. CASE TakeReply(t)
    <3>1. replies # <<>> /\ replies' = Tail(replies) /\ decided' = decided
      BY <2>8 DEF TakeReply
    <3>2. replies \in Seq(Answer)
      BY BaseFacts
    <3>3. /\ 1 \in DOMAIN replies /\ Head(replies) = replies[1]
          /\ \A i \in DOMAIN replies' : i + 1 \in DOMAIN replies /\ replies'[i] = replies[i + 1]
      BY <3>1, <3>2
    <3>4. /\ Short(Head(replies)).about = Head(replies).about
          /\ Short(Head(replies)).status = Head(replies).status
      BY DEF Short
    <3>5. StillTrue(Short(Head(replies)).about, Short(Head(replies)).status)
      BY <2>2, <3>3, <3>4, ToldKept
    <3>6. \/ Return(t, Short(Head(replies)), "no") \/ Return(t, Short(Head(replies)), "decision")
          \/ result' = result
      BY <2>8 DEF TakeReply
    <3>7. \A r \in Requests : StillTrue(result'[r].about, result'[r].status)
      BY <2>2, <2>7, <3>5, <3>6, ToldKept
    <3> QED BY <2>2, <2>4, <3>1, <3>3, <3>7, ToldKept
  <2>9. CASE RequestTimesOut(t) \/ StopWaiting(t)
    <3>1. UNCHANGED <<replies, decided>> /\ Return(t, GaveUp, "no")
      BY <2>9 DEF RequestTimesOut, StopWaiting, answers
    <3>2. StillTrue(GaveUp.about, GaveUp.status)
      BY DEF GaveUp, StillTrue, TrueIn
    <3> QED BY <2>2, <2>4, <2>7, <3>1, <3>2, ToldKept
  <2>10. CASE TakeDecision(t)
    <3>1. PICK d \in decided : decided' = decided \ {d} /\ Return(t, d, "no")
      BY <2>10 DEF TakeDecision
    <3>2. replies' = replies
      BY <2>10 DEF TakeDecision
    <3> QED BY <2>2, <2>4, <2>7, <3>1, <3>2, ToldKept
  <2> QED BY <1>8, <2>5, <2>6, <2>8, <2>9, <2>10 DEF Ask
<1> QED BY <1>3, <1>4, <1>5, <1>6, <1>7, <1>8, StepKinds, ServedIs

LEMMA ServerAlways == Spec => [](NumberInv /\ FutureInv /\ ServerInv /\ TruthInv)
<1>1. Init => NumberInv /\ FutureInv /\ ServerInv /\ TruthInv
  <2> SUFFICES ASSUME Init PROVE NumberInv /\ FutureInv /\ ServerInv /\ TruthInv
    OBVIOUS
  <2>1. /\ toServer = [c \in Conns |-> <<>>] /\ toClient = [c \in Conns |-> <<>>] /\ rules = {}
        /\ proposal = [r \in Requests |-> [step |-> "none", conn |-> 1]]
        /\ replies = <<>> /\ decided = {} /\ asked = 0 /\ result = [r \in Requests |-> None]
        /\ link = [c \in Conns |-> "none"] /\ handler = [c \in Conns |-> "none"]
    BY DEF Init, ShareInit, ClientInit
  <2>2. \A c \in Conns : SentOn(c) = {} /\ AnswersOn(c) = {} /\ AnsweredOn(c) = {} /\ toServer[c] = <<>>
    BY <2>1 DEF SentOn, AnswersOn, AnsweredOn
  <2>3. None.about = 0 /\ None.status = "none"
    BY DEF None
  <2>4. Replied = {} /\ Settled = {} /\ Recorded \subseteq {0}
    BY <2>1, <2>3 DEF Replied, Settled, Recorded
  <2>5. NumberInv
    <3>0. \A a \in Replied \union Recorded \union Settled : a = 0
      BY <2>4
    <3>1. \A a \in Replied \union Recorded \union Settled : a <= asked
      BY <2>1, <3>0
    <3>2. \A p \in Requests : proposal[p].step = "none"
      BY <2>1
    <3> QED BY <2>1, <2>2, <3>1, <3>2 DEF NumberInv
  <2>6. FutureInv
    BY <2>1 DEF FutureInv, Undecided
  <2>7. ServerInv
    BY <2>1, <2>2 DEF ServerInv, SentOnce, SentInv, TableInv
  <2>8. TruthInv
    BY <2>1, <2>2, <2>3 DEF TruthInv, TrueOf, TrueIn
  <2> QED BY <2>5, <2>6, <2>7, <2>8
<1> QED BY <1>1, NumberStep, FutureStep, ServerStep, TruthStep, BaseAlways, PTL DEF Spec

\* What an agent is told its owner decided is what the owner did: a rule it is told was accepted is
\* approved, and one it is told was declined is not in the table - however late the answer comes,
\* and whatever was asked, dropped or reconnected meanwhile.
THEOREM DecisionsTold == Spec => []DecisionsAreTrue
<1>1. TruthInv => DecisionsAreTrue
  BY DEF TruthInv, TrueOf, TrueIn, DecisionsAreTrue
<1> QED BY <1>1, ServerAlways, PTL

-----------------------------------------------------------------------------
(* No answer is returned twice *)

LEMMA KnownTypes ==
  ASSUME BaseInv
  PROVE  Known \subseteq Requests /\ Settled \subseteq Requests /\ Replied \subseteq Requests /\ 0 \notin Requests
<1>0. ClientTypeOK
  BY BaseFacts
<1>1. Replied \subseteq Requests
  <2>1. replies \in Seq(Answer)
    BY BaseFacts
  <2>2. \A i \in DOMAIN replies : replies[i] \in Answer
    BY <2>1
  <2> QED BY <2>2 DEF Replied, Answer
<1>2. \A told \in Results : told.about = 0 \/ told.about \in Requests
  BY ResultTypes
<1>3. Recorded \ {0} \subseteq Requests
  BY <1>0, <1>2 DEF ClientTypeOK, Recorded
<1>4. Settled \subseteq Requests
  BY <1>0, ResultTypes DEF ClientTypeOK, Settled
<1>5. Known \subseteq Requests
  BY <1>1, <1>3 DEF Known
<1>6. 0 \notin Requests
  BY DEF Requests
<1> QED BY <1>1, <1>4, <1>5, <1>6

\* What is left of the answers on a stream.
LEMMA PairsLeft ==
  ASSUME BaseInv, NEW c \in Conns, Thinned(c), PairedOn(c), FinalOn(c),
         \A p \in Requests : Here(p, c)' => Here(p, c) \/ p \notin AnsweredOn(c)
  PROVE  PairedOn(c)' /\ FinalOn(c)'
<1>1. PICK k \in {0, 1} : \A i \in AnswersOn(c)' :
        i \in Nat /\ i + k \in AnswersOn(c) /\ toClient'[c][i] = toClient[c][i + k]
  BY DEF Thinned
<1>2. \A i \in AnswersOn(c) : toClient[c][i].about \in Requests /\ toClient[c][i].about \in AnsweredOn(c)
  BY BaseFacts, Streams DEF AnsweredOn
<1>3. PairedOn(c)'
  <2> SUFFICES ASSUME NEW i \in AnswersOn(c)', NEW j \in AnswersOn(c)', i < j,
                      toClient'[c][i].about = toClient'[c][j].about
               PROVE  IsPending(toClient'[c][i]) /\ toClient'[c][j].is = "proposal" /\ ~IsPending(toClient'[c][j])
    BY DEF PairedOn, IsPending
  <2>1. i \in Nat /\ j \in Nat /\ i + k \in AnswersOn(c) /\ j + k \in AnswersOn(c)
        /\ toClient'[c][i] = toClient[c][i + k] /\ toClient'[c][j] = toClient[c][j + k]
    BY <1>1
  <2>2. i + k < j + k
    BY <2>1
  <2> QED BY <2>1, <2>2 DEF PairedOn
<1>4. FinalOn(c)'
  <2> SUFFICES ASSUME NEW i \in AnswersOn(c)', ~IsPending(toClient'[c][i]) PROVE ~Here(toClient[c][i].about, c)'
    BY DEF FinalOn, IsPending
  <2>1. i + k \in AnswersOn(c) /\ toClient'[c][i] = toClient[c][i + k] /\ toClient'[c][i].about \in Requests
    BY <1>1, <1>2
  <2>2. PICK p \in Requests : p = toClient'[c][i].about
    BY <2>1
  <2>3. ~Here(p, c) /\ p \in AnsweredOn(c)
    BY <1>2, <2>1, <2>2 DEF FinalOn
  <2>4. ~Here(p, c)'
    BY <2>3
  <2> QED BY <2>2, <2>4 DEF Here, Undecided
<1> QED BY <1>3, <1>4

\* What is left of the decisions awaited, when more may be known.
LEMMA AwaitedLeft ==
  ASSUME BaseInv, NEW c \in Conns, Thinned(c), AwaitedOn(c),
         \A i \in AnswersOn(c)' : toClient'[c][i].about \in Known' \ Known =>
           toClient'[c][i].is = "proposal" /\ ~IsPending(toClient'[c][i]) /\ toClient'[c][i].about \in awaiting',
         \A p \in Known' : Here(p, c)' => p \in awaiting' \/ (p \in Known /\ Here(p, c)),
         \A p \in Known' : p \in awaiting /\ (p \in AnsweredOn(c) \/ Here(p, c)) => p \in awaiting'
  PROVE  AwaitedOn(c)'
<1>1. PICK k \in {0, 1} : \A i \in AnswersOn(c)' :
        i \in Nat /\ i + k \in AnswersOn(c) /\ toClient'[c][i] = toClient[c][i + k]
  BY DEF Thinned
<1>2. ASSUME NEW i \in AnswersOn(c)', toClient'[c][i].about \in Known', toClient'[c][i].about \in Known
      PROVE  toClient'[c][i].is = "proposal" /\ ~IsPending(toClient'[c][i]) /\ toClient'[c][i].about \in awaiting'
  <2>1. i + k \in AnswersOn(c) /\ toClient'[c][i] = toClient[c][i + k] /\ toClient'[c][i].about \in AnsweredOn(c)
    BY <1>1 DEF AnsweredOn
  <2>2. toClient[c][i + k].is = "proposal" /\ ~IsPending(toClient[c][i + k]) /\ toClient[c][i + k].about \in awaiting
    BY <1>2, <2>1 DEF AwaitedOn
  <2> QED BY <1>2, <2>1, <2>2
<1>3. ASSUME NEW p \in Known', Here(p, c)' PROVE p \in awaiting'
  BY <1>3 DEF AwaitedOn
<1> QED BY <1>2, <1>3 DEF AwaitedOn, IsPending

\* A stream on which nothing is new, for a client that has heard nothing more.
LEMMA StreamKept ==
  ASSUME BaseInv, NEW c \in Conns, StreamInv(c), Thinned(c), SentOn(c)' \subseteq SentOn(c),
         Settled' \subseteq Settled, Known' \subseteq Known,
         \A p \in Requests : Here(p, c)' => Here(p, c) \/ p \notin AnsweredOn(c) \union Known \union Settled,
         \A p \in Known' : p \in awaiting /\ (p \in AnsweredOn(c) \/ Here(p, c)) => p \in awaiting'
  PROVE  StreamInv(c)'
<1>1. /\ Known \subseteq Requests /\ Settled \subseteq Requests
      /\ PairedOn(c) /\ FreshOn(c) /\ FinalOn(c) /\ SettledOn(c) /\ AwaitedOn(c)
  BY KnownTypes DEF StreamInv
<1>2. AnsweredOn(c)' \subseteq AnsweredOn(c)
  BY ThinnedAnswers
<1>3. PairedOn(c)' /\ FinalOn(c)'
  BY <1>1, PairsLeft
<1>4. FreshOn(c)'
  BY <1>1, <1>2 DEF FreshOn
<1>5. SettledOn(c)'
  BY <1>1, <1>2 DEF SettledOn
<1>6. AwaitedOn(c)'
  <2>1. Known' \ Known = {}
    OBVIOUS
  <2>2. \A p \in Known' : Here(p, c)' => p \in awaiting' \/ (p \in Known /\ Here(p, c))
    BY <1>1
  <2> QED BY <1>1, <2>1, <2>2, AwaitedLeft
<1> QED BY <1>3, <1>4, <1>5, <1>6 DEF StreamInv

\* An answer at the end of the stream, to a request nothing has been said of but that a decision is
\* pending.
LEMMA StreamGrown ==
  ASSUME BaseInv, NEW c \in Conns, StreamInv(c), NEW msg \in Answer, toClient'[c] = Append(toClient[c], msg),
         SentOn(c)' \subseteq SentOn(c) \ {msg.about},
         UNCHANGED <<replies, result, decided, awaiting>>,
         \A p \in Requests : p # msg.about => (Here(p, c)' => Here(p, c)),
         ~IsPending(msg) => ~(Here(msg.about, c)'),
         msg.about \notin Settled,
         \/ msg.about \notin AnsweredOn(c) \union Known
         \/ msg.is = "proposal" /\ ~IsPending(msg) /\ Here(msg.about, c)
  PROVE  StreamInv(c)'
<1> DEFINE a == msg.about
<1>0. /\ Known \subseteq Requests /\ Settled \subseteq Requests /\ ToClientOK
      /\ PairedOn(c) /\ FreshOn(c) /\ FinalOn(c) /\ SettledOn(c) /\ AwaitedOn(c)
      /\ a \in Requests
  BY KnownTypes, BaseFacts DEF StreamInv, Answer
<1>1. PICK n \in Nat :
        /\ \A i \in AnswersOn(c) : i < n
        /\ \A i \in AnswersOn(c)' : i = n \/ (i \in AnswersOn(c) /\ toClient'[c][i] = toClient[c][i])
        /\ toClient'[c][n] = msg
  BY <1>0, Appended, ZenonT(30)
<1>2. AnsweredOn(c)' \subseteq AnsweredOn(c) \union {a}
  BY <1>0, AppendedAnswers
<1>3. \A i \in AnswersOn(c) : i \in Nat /\ toClient[c][i].about \in Requests /\ toClient[c][i].about \in AnsweredOn(c)
  BY <1>0, Streams DEF AnsweredOn
<1>4. Known' = Known /\ Settled' = Settled /\ awaiting' = awaiting
  BY DEF Known, Replied, Recorded, Settled
<1>5. PairedOn(c)'
  <2> SUFFICES ASSUME NEW i \in AnswersOn(c)', NEW j \in AnswersOn(c)', i < j,
                      toClient'[c][i].about = toClient'[c][j].about
               PROVE  IsPending(toClient'[c][i]) /\ toClient'[c][j].is = "proposal" /\ ~IsPending(toClient'[c][j])
    BY DEF PairedOn, IsPending
  <2>0. i # n
    <3>1. j \in Nat /\ j <= n
      BY <1>1, <1>3
    <3>2. i \in Nat
      BY <1>1, <1>3
    <3> QED BY <3>1, <3>2
  <2>1. i \in AnswersOn(c) /\ toClient'[c][i] = toClient[c][i]
    BY <1>1, <2>0
  <2>2. CASE j = n
    <3>1. toClient[c][i].about = a /\ a \in AnsweredOn(c)
      BY <1>1, <1>3, <2>1, <2>2
    <3>2. msg.is = "proposal" /\ ~IsPending(msg) /\ Here(a, c)
      BY <3>1
    <3>3. IsPending(toClient[c][i])
      BY <1>0, <2>1, <3>1, <3>2 DEF FinalOn
    <3> QED BY <1>1, <2>1, <2>2, <3>2, <3>3
  <2>3. CASE j # n
    BY <1>0, <1>1, <2>1, <2>3 DEF PairedOn
  <2> QED BY <2>2, <2>3
<1>6. FreshOn(c)'
  BY <1>0, <1>2, <1>4 DEF FreshOn
<1>7. FinalOn(c)'
  <2> SUFFICES ASSUME NEW i \in AnswersOn(c)', ~IsPending(toClient'[c][i]) PROVE ~Here(toClient[c][i].about, c)'
    BY DEF FinalOn, IsPending
  <2>1. PICK p \in Requests : p = toClient'[c][i].about
    BY <1>0, <1>1, <1>3
  <2>2. ~Here(p, c)'
    <3>1. CASE p = a
      <4>1. i = n => ~IsPending(msg)
        BY <1>1
      <4>2. i # n => toClient'[c][i] = toClient[c][i] /\ i \in AnswersOn(c)
        BY <1>1
      <4>3. i # n => ~Here(a, c) /\ a \in AnsweredOn(c)
        BY <1>0, <1>3, <2>1, <3>1, <4>2 DEF FinalOn
      <4>4. ~IsPending(msg)
        BY <4>1, <4>3
      <4> QED BY <3>1, <4>4
    <3>2. CASE p # a
      <4>1. i \in AnswersOn(c) /\ toClient'[c][i] = toClient[c][i]
        BY <1>1, <2>1, <3>2
      <4>2. ~Here(p, c)
        BY <1>0, <2>1, <4>1 DEF FinalOn
      <4> QED BY <3>2, <4>2
    <3> QED BY <3>1, <3>2
  <2> QED BY <2>1, <2>2 DEF Here, Undecided
<1>8. SettledOn(c)'
  BY <1>0, <1>2, <1>4 DEF SettledOn
<1>9. ASSUME NEW i \in AnswersOn(c)', toClient'[c][i].about \in Known
      PROVE  toClient'[c][i].is = "proposal" /\ ~IsPending(toClient'[c][i]) /\ toClient'[c][i].about \in awaiting
  <2>1. CASE i = n
    <3>1. a \in Known
      BY <1>1, <1>9, <2>1
    <3>2. msg.is = "proposal" /\ ~IsPending(msg) /\ Here(a, c)
      BY <3>1
    <3> QED BY <1>0, <1>1, <2>1, <3>1, <3>2 DEF AwaitedOn
  <2>2. CASE i # n
    BY <1>0, <1>1, <1>9, <2>2 DEF AwaitedOn
  <2> QED BY <2>1, <2>2
<1>10. ASSUME NEW p \in Known, Here(p, c)' PROVE p \in awaiting
  <2>1. CASE p = a
    <3>1. msg.is = "proposal" /\ ~IsPending(msg) /\ Here(a, c)
      BY <2>1
    <3> QED BY <1>0, <2>1, <3>1 DEF AwaitedOn
  <2>2. CASE p # a
    BY <1>0, <1>10, <2>2 DEF AwaitedOn
  <2> QED BY <2>1, <2>2
<1>11. AwaitedOn(c)'
  BY <1>4, <1>9, <1>10 DEF AwaitedOn, IsPending
<1> QED BY <1>5, <1>6, <1>7, <1>8, <1>11 DEF StreamInv

LEMMA OnceKept ==
  ASSUME OnceInv, UNCHANGED <<replies, result>>
  PROVE  OnceInv' /\ Known' = Known
BY DEF OnceInv, Known, Replied, Recorded

\* The server answers a request, or tells of a decision.
LEMMA AnswersSent ==
  ASSUME BaseInv, ServerInv, OnceInv, NEW c \in Conns, StreamInv(c),
         \/ \E d \in Conns : \E msg : Served(d, msg)
         \/ \E p \in Requests : Decide(p) /\ UNCHANGED client
  PROVE  StreamInv(c)'
<1>0. /\ ShareTypeOK /\ ToClientOK /\ SentOnce /\ SentInv /\ TableInv
      /\ toServer \in [Conns -> Seq(Request)]
      /\ proposal \in [Requests -> [step : {"none", "asking", "added", "approved", "done"}, conn : Conns]]
      /\ FreshOn(c) /\ FinalOn(c) /\ SettledOn(c) /\ AwaitedOn(c)
  BY BaseFacts DEF ServerInv, StreamInv
<1>1. UNCHANGED <<replies, result, decided, awaiting>>
  BY DEF Served, client, answers, asks
<1>2. Known' = Known /\ Settled' = Settled
  BY <1>1, OnceKept DEF Settled
<1>3. ASSUME Thinned(c), SentOn(c)' \subseteq SentOn(c),
             \A p \in Requests : Here(p, c)' => Here(p, c) \/ p \notin AnsweredOn(c) \union Known \union Settled
      PROVE  StreamInv(c)'
  <2>1. \A p \in Known' : p \in awaiting /\ (p \in AnsweredOn(c) \/ Here(p, c)) => p \in awaiting'
    BY <1>1
  <2>2. Known' \subseteq Known /\ Settled' \subseteq Settled
    BY <1>2
  <2> QED BY <1>3, <2>1, <2>2, StreamKept
<1>4. ASSUME NEW d \in Conns, NEW msg, Served(d, msg) PROVE StreamInv(c)'
  <2>1. toServer[d] # <<>> /\ toServer'[d] = Tail(toServer[d]) /\ \A b \in Conns : b # d => toServer'[b] = toServer[b]
    BY <1>0, <1>4 DEF Served
  <2>2. About(d) \in SentOn(d) /\ About(d) \in Requests /\ proposal[About(d)].step = "none"
    BY <1>0, <2>1, FewerTail, SentRequests DEF SentInv
  <2>3. SentOn(c)' \subseteq SentOn(c)
    <3>1. Fewer(c)
      BY <1>0, <2>1, FewerTail, FewerSame
    <3> QED BY <3>1, FewerSent
  <2>4. msg \in Answer /\ msg.about = About(d) /\ Reply(d, msg)
    BY <1>4 DEF Served
  <2>5. \A p \in Requests : p # About(d) => proposal'[p] = proposal[p]
    BY <1>0, <1>4, <2>2 DEF Served
  <2>6. \A p \in Requests : p # About(d) => (Here(p, c)' => Here(p, c))
    BY <2>5 DEF Here, Undecided
  <2>7. ~Here(About(d), c)
    BY <2>2 DEF Here, Undecided
  <2>8. ~IsPending(msg) \/ c # d => ~(Here(msg.about, c)')
    <3>1. PICK p \in Requests : p = About(d)
      BY <2>2
    <3>2. \/ ~IsPending(msg) /\ proposal' = proposal
          \/ proposal' = [proposal EXCEPT ![p] = [step |-> "asking", conn |-> d]]
      BY <1>4, <3>1 DEF Served
    <3>3. proposal'[p].step = "none" \/ (IsPending(msg) /\ proposal'[p].conn = d)
      BY <1>0, <1>4, <2>2, <3>1, <3>2 DEF Served
    <3>4. ~IsPending(msg) \/ c # d => ~(Undecided(p)' /\ proposal'[p].conn = c)
      BY <1>4, <3>1, <3>3, <2>2 DEF Undecided, Served
    <3> QED BY <2>4, <3>1, <3>4 DEF Here, Undecided
  <2>9. CASE Thinned(c)
    <3>1. c = d => msg.about \notin AnsweredOn(c) \union Known \union Settled
      BY <1>0, <2>2, <2>4 DEF FreshOn
    <3>2. \A p \in Requests : Here(p, c)' => Here(p, c) \/ p \notin AnsweredOn(c) \union Known \union Settled
      BY <2>4, <2>6, <2>8, <3>1
    <3> QED BY <1>3, <2>3, <2>9, <3>2
  <2>10. CASE c = d /\ toClient'[c] = Append(toClient[c], msg)
    <3>1. SentOn(c)' \subseteq SentOn(c) \ {msg.about}
      <4>1. \A i \in DOMAIN toServer'[d] :
              i \in Nat /\ i + 1 \in DOMAIN toServer[d] /\ toServer'[d][i] = toServer[d][i + 1]
        BY <1>0, <2>1, FewerTail
      <4>2. 1 \in DOMAIN toServer[d] /\ toServer[d][1].about = About(d)
        BY <1>0, <2>1, FewerTail
      <4>3. \A i \in DOMAIN toServer'[d] : toServer'[d][i].about # About(d)
        <5> SUFFICES ASSUME NEW i \in DOMAIN toServer'[d], toServer'[d][i].about = About(d) PROVE FALSE
          OBVIOUS
        <5>1. i + 1 = 1
          BY <1>0, <4>1, <4>2 DEF SentOnce
        <5>2. i = 0
          BY <4>1, <5>1
        <5>3. 0 \notin DOMAIN toServer'[d]
          <6>1. toServer'[d] \in Seq(Request)
            BY <1>0, <2>1
          <6> QED BY <6>1
        <5> QED BY <5>2, <5>3
      <4>4. About(d) \notin SentOn(c)'
        BY <2>10, <4>3 DEF SentOn
      <4> QED BY <2>3, <2>4, <4>4
    <3>2. msg.about \notin Settled \union AnsweredOn(c) \union Known
      BY <1>0, <2>2, <2>4, <2>10 DEF FreshOn
    <3> QED BY <1>1, <2>4, <2>6, <2>8, <2>10, <3>1, <3>2, StreamGrown
  <2> QED BY <1>0, <2>4, <2>9, <2>10, ReplyElsewhere
<1>5. ASSUME NEW p \in Requests, Decide(p), UNCHANGED client PROVE StreamInv(c)'
  <2>1. /\ toServer' = toServer /\ Undecided(p) /\ proposal[p].conn \in Conns
        /\ \A q \in Requests : proposal'[q].conn = proposal[q].conn /\ (Undecided(q)' => Undecided(q))
    BY <1>5, DecideSteps
  <2>2. \A q \in Requests : Here(q, c)' => Here(q, c)
    BY <2>1 DEF Here, Undecided
  <2>3. SentOn(c)' = SentOn(c) /\ p \notin SentOn(c)
    BY <1>0, <2>1 DEF SentOn, SentInv, Undecided
  <2>4. CASE Thinned(c)
    BY <1>3, <2>2, <2>3, <2>4
  <2>5. CASE ~Thinned(c)
    <3>1. PICK msg : Decided(p, msg)
      <4>1. Decline(p) \/ AnswerAccepted(p)
        <5>1. AddAgreed(p) \/ ApproveAdded(p) \/ ApproveRaises(p) => toClient' = toClient
          BY DEF AddAgreed, ApproveAdded, ApproveRaises
        <5> QED BY <1>0, <1>5, <2>5, <5>1, ThinnedSame DEF Decide
      <4> QED BY <1>5, <4>1, DecidedIs
    <3>2. msg \in Answer /\ msg.about = p /\ msg.is = "proposal" /\ Reply(proposal[p].conn, msg) /\ ~IsPending(msg)
      BY <3>1 DEF Decided, IsPending
    <3>3. c = proposal[p].conn /\ toClient'[c] = Append(toClient[c], msg)
      BY <1>0, <2>1, <2>5, <3>2, ReplyElsewhere
    <3>4. Here(p, c) /\ p \notin Settled
      BY <1>0, <2>1, <3>3 DEF Here, SettledOn
    <3>5. proposal'[p].step = "done"
      BY <1>0, <3>1 DEF Decided
    <3>6. ~(Here(p, c)')
      BY <3>5 DEF Here, Undecided
    <3>7. ~IsPending(msg) => ~(Here(msg.about, c)')
      BY <3>2, <3>6 DEF Here, Undecided
    <3> QED BY <1>1, <2>2, <2>3, <3>2, <3>3, <3>4, <3>7, StreamGrown
  <2> QED BY <2>4, <2>5
<1> QED BY <1>4, <1>5

\* The client takes an answer off the stream.
LEMMA AnswersTaken ==
  ASSUME BaseInv, AnswerInv, ReceiveWatchAnswer \/ ReceiveProposal
  PROVE  AnswerInv'
<1> DEFINE msg == Head(toClient[conn])
           a   == msg.about
<1>1. PICK is \in {"watch_ok", "watch_fail", "watch_list", "proposal"} : Receive(is)
  BY DEF ReceiveWatchAnswer, ReceiveProposal
<1>2. /\ conn \in Conns /\ toClient[conn] # <<>> /\ toClient'[conn] = Tail(toClient[conn])
      /\ UNCHANGED <<result, proposal, toServer, conn>>
      /\ 1 \in AnswersOn(conn) /\ toClient[conn][1] = msg
  BY <1>1, ReceivedIs DEF AnswersOn, IsAnswer
<1>3. PICK c \in Conns : c = conn
  BY <1>2
<1>4. /\ ToClientOK /\ replies \in Seq(Answer) /\ OnceInv
      /\ PairedOn(c) /\ FreshOn(c) /\ FinalOn(c) /\ SettledOn(c) /\ AwaitedOn(c) /\ StreamInv(c)
      /\ Known \subseteq Requests /\ Replied \subseteq Requests /\ 0 \notin Requests
  BY <1>3, BaseFacts, KnownTypes DEF AnswerInv, StreamInv
<1>5. a \in Requests /\ a \in AnsweredOn(c)
  BY <1>2, <1>3, <1>4, Streams DEF AnsweredOn
<1>6. \A i \in AnswersOn(c)' : i \in Nat /\ i + 1 \in AnswersOn(c) /\ toClient'[c][i] = toClient[c][i + 1]
  BY <1>2, <1>3, <1>4, ThinnedTail
<1>7. Thinned(c)
  BY <1>6 DEF Thinned
<1>8. SentOn(c)' = SentOn(c) /\ \A p \in Requests : Here(p, c)' <=> Here(p, c)
  BY <1>2 DEF SentOn, Here, Undecided
<1>9. a \notin SentOn(c) /\ (~IsPending(msg) => ~Here(a, c))
  BY <1>2, <1>3, <1>4, <1>5 DEF FreshOn, FinalOn
\* Of the answers that are left, those about a are decisions, if it is a pending that was taken.
<1>10. \A i \in AnswersOn(c)' : toClient'[c][i].about = a =>
         IsPending(msg) /\ toClient'[c][i].is = "proposal" /\ ~IsPending(toClient'[c][i])
  <2> SUFFICES ASSUME NEW i \in AnswersOn(c)', toClient'[c][i].about = a
               PROVE  IsPending(msg) /\ toClient'[c][i].is = "proposal" /\ ~IsPending(toClient'[c][i])
    OBVIOUS
  <2>0. i # 0
    <3>0. toClient[c] \in Seq(Messages) /\ toClient[c] # <<>> /\ toClient'[c] = Tail(toClient[c])
      BY <1>2, <1>3, <1>4, Streams
    <3>1. toClient'[c] \in Seq(Messages)
      BY <3>0
    <3>2. i \in DOMAIN toClient'[c]
      BY DEF AnswersOn
    <3> QED BY <3>1, <3>2
  <2>1. i + 1 \in AnswersOn(c) /\ 1 \in AnswersOn(c) /\ 1 < i + 1 /\ toClient'[c][i] = toClient[c][i + 1]
        /\ toClient[c][1].about = toClient[c][i + 1].about
    BY <1>2, <1>3, <1>6, <2>0
  <2> QED BY <1>2, <1>3, <1>4, <2>1 DEF PairedOn
<1>15. PairedOn(c)' /\ FinalOn(c)'
  BY <1>4, <1>7, <1>8, PairsLeft
<1>11. CASE UNCHANGED <<replies, awaiting>> /\ decided' = decided \union {Short(msg)} /\ ~IsPending(msg)
  <2>1. OnceInv' /\ Known' = Known
    BY <1>2, <1>4, <1>11, OnceKept
  <2>2. Settled' = Settled \union {a}
    <3>1. Short(msg).about = a
      BY DEF Short
    <3> HIDE DEF a, msg
    <3> QED BY <1>11, <3>1 DEF Settled
  <2>3. a \notin AnsweredOn(c)'
    BY <1>10, <1>11 DEF AnsweredOn
  <2>4. StreamInv(c)'
    <3>1. AnsweredOn(c)' \subseteq AnsweredOn(c)
      BY <1>7, ThinnedAnswers
    <3>2. FreshOn(c)'
      BY <1>4, <1>8, <1>9, <2>1, <2>2, <3>1 DEF FreshOn
    <3>3. SettledOn(c)'
      BY <1>4, <1>5, <1>8, <1>9, <1>11, <2>2, <2>3, <3>1, KnownTypes DEF SettledOn
    <3>4. AwaitedOn(c)'
      <4>1. Known' \ Known = {} /\ awaiting' = awaiting
        BY <1>11, <2>1
      <4>2. \A p \in Known' : Here(p, c)' => p \in awaiting' \/ (p \in Known /\ Here(p, c))
        BY <1>4, <1>8, <2>1
      <4>3. \A p \in Known' : p \in awaiting /\ (p \in AnsweredOn(c) \/ Here(p, c)) => p \in awaiting'
        BY <4>1
      <4> QED BY <1>4, <1>7, <4>1, <4>2, <4>3, AwaitedLeft
    <3> QED BY <1>15, <3>2, <3>3, <3>4 DEF StreamInv
  <2> QED BY <1>2, <1>3, <2>1, <2>4 DEF AnswerInv
<1>12. CASE /\ replies' = Append(replies, msg) /\ decided' = decided /\ awaiting \subseteq awaiting'
            /\ IsPending(msg) => a \in awaiting'
            /\ msg.is # "proposal" \/ IsPending(msg) \/ a \notin awaiting
  <2>1. a \notin Known
    BY <1>2, <1>3, <1>4, <1>12 DEF AwaitedOn
  <2>2. \E n \in Nat : /\ n \notin DOMAIN replies /\ DOMAIN replies' = DOMAIN replies \union {n} /\ replies'[n] = msg
                       /\ \A i \in DOMAIN replies : replies'[i] = replies[i]
    <3> HIDE DEF msg, a
    <3> DEFINE m == Len(replies) + 1
    <3>1. /\ m \in Nat /\ m \notin DOMAIN replies /\ DOMAIN replies' = DOMAIN replies \union {m} /\ replies'[m] = msg
          /\ \A i \in DOMAIN replies : replies'[i] = replies[i]
      BY <1>4, <1>12
    <3> QED BY <3>1
  <2>3. PICK n \in Nat : /\ n \notin DOMAIN replies /\ DOMAIN replies' = DOMAIN replies \union {n} /\ replies'[n] = msg
                         /\ \A i \in DOMAIN replies : replies'[i] = replies[i]
    BY <2>2
  <2>4. Replied' = Replied \union {a} /\ Recorded' = Recorded
    BY <1>2, <2>3 DEF Replied, Recorded
  <2>5. Known' = Known \union {a}
    BY <2>4 DEF Known
  <2>6. OnceInv'
    <3>1. a \notin Replied /\ a \notin Recorded
      BY <1>4, <1>5, <2>1 DEF Known
    <3>2. \A i, j \in DOMAIN replies' : replies'[i].about = replies'[j].about => i = j
      BY <1>4, <2>3, <3>1 DEF OnceInv, Replied
    <3>3. Replied' \intersect Recorded' \subseteq {0}
      BY <1>4, <2>4, <3>1 DEF OnceInv
    <3> QED BY <1>2, <1>4, <3>2, <3>3 DEF OnceInv
  <2>7. StreamInv(c)'
    <3>1. AnsweredOn(c)' \subseteq AnsweredOn(c)
      BY <1>7, ThinnedAnswers
    <3>2. FreshOn(c)'
      BY <1>4, <1>8, <1>9, <1>12, <2>5, <3>1 DEF FreshOn, Settled
    <3>3. SettledOn(c)'
      BY <1>4, <1>8, <1>12, <3>1, KnownTypes DEF SettledOn, Settled
    <3>4. AwaitedOn(c)'
      <4>1. \A i \in AnswersOn(c)' : toClient'[c][i].about \in Known' \ Known =>
              toClient'[c][i].is = "proposal" /\ ~IsPending(toClient'[c][i]) /\ toClient'[c][i].about \in awaiting'
        BY <1>10, <1>12, <2>5
      <4>2. \A p \in Requests : p = a /\ Here(p, c)' => p \in awaiting'
        BY <1>8, <1>9, <1>12
      <4>3. \A p \in Known' : Here(p, c)' => p \in awaiting' \/ (p \in Known /\ Here(p, c))
        BY <1>4, <1>5, <1>8, <2>5, <4>2
      <4>4. \A p \in Known' : p \in awaiting /\ (p \in AnsweredOn(c) \/ Here(p, c)) => p \in awaiting'
        BY <1>12
      <4> QED BY <1>4, <1>7, <4>1, <4>3, <4>4, AwaitedLeft
    <3> QED BY <1>15, <3>2, <3>3, <3>4 DEF StreamInv
  <2> QED BY <1>2, <1>3, <2>6, <2>7 DEF AnswerInv
<1>13. CASE ReceiveWatchAnswer
  <2>1. msg.is # "proposal"
    BY <1>13 DEF ReceiveWatchAnswer, Receive
  <2> QED BY <1>12, <1>13, <2>1 DEF ReceiveWatchAnswer, IsPending
<1>14. CASE ReceiveProposal
  <2>1. msg.is = "proposal"
    BY <1>14 DEF ReceiveProposal, Receive
  <2>2. CASE msg.status # "pending" /\ a \in awaiting
    BY <1>11, <1>14, <2>2 DEF ReceiveProposal, IsPending
  <2>3. CASE ~(msg.status # "pending" /\ a \in awaiting)
    BY <1>12, <1>14, <2>1, <2>3 DEF ReceiveProposal, IsPending
  <2> QED BY <2>2, <2>3
<1> QED BY <1>13, <1>14

\* A thread asks, is answered or gives up.
LEMMA AnswersReturned ==
  ASSUME BaseInv, NumberInv, AnswerInv, NEW t \in Callers, Ask(t)
  PROVE  AnswerInv'
<1>0. /\ ClientTypeOK /\ LockInv /\ ToClientOK /\ replies \in Seq(Answer) /\ OnceInv
      /\ result \in [Requests -> Results] /\ Replied \subseteq Requests /\ Known \subseteq Requests /\ 0 \notin Requests
  BY BaseFacts, KnownTypes DEF AnswerInv, ClientTypeOK
<1>1. UNCHANGED <<toClient, proposal, conn>>
  BY DEF Ask, Drain, SendRequest, TakeReply, RequestTimesOut, TakeDecision, StopWaiting, server, wires
<1>2. \A c \in Conns : Thinned(c) /\ AnsweredOn(c)' = AnsweredOn(c) /\ \A p \in Requests : Here(p, c)' <=> Here(p, c)
  BY <1>0, <1>1, ThinnedSame DEF AnsweredOn, AnswersOn, Here, Undecided
\* Nothing is sent, and no more is known.
<1>3. ASSUME OnceInv', toServer' = toServer, Settled' \subseteq Settled, Known' \subseteq Known,
             \A c \in Conns : c = conn =>
               \A p \in Known' : p \in awaiting /\ (p \in AnsweredOn(c) \/ Here(p, c)) => p \in awaiting'
      PROVE  AnswerInv'
  <2>1. \A c \in Conns : c = conn => StreamInv(c)'
    <3> SUFFICES ASSUME NEW c \in Conns, c = conn PROVE StreamInv(c)'
      OBVIOUS
    <3>1. SentOn(c)' \subseteq SentOn(c) /\ StreamInv(c)
      BY <1>3 DEF SentOn, AnswerInv
    <3>2. \A p \in Requests : Here(p, c)' => Here(p, c) \/ p \notin AnsweredOn(c) \union Known \union Settled
      BY <1>2
    <3>3. \A p \in Known' : p \in awaiting /\ (p \in AnsweredOn(c) \/ Here(p, c)) => p \in awaiting'
      BY <1>3
    <3> QED BY <1>2, <1>3, <3>1, <3>2, <3>3, StreamKept
  <2> QED BY <1>1, <1>3, <2>1 DEF AnswerInv
<1>4. CASE Drain(t)
  <2>1. replies' = <<>> /\ UNCHANGED <<toServer, result, decided, awaiting>>
    BY <1>4 DEF Drain, server
  <2>2. Replied' = {} /\ Recorded' = Recorded /\ Settled' = Settled
    BY <2>1 DEF Replied, Recorded, Settled
  <2> QED BY <1>0, <1>3, <2>1, <2>2 DEF OnceInv, Known
<1>5. ASSUME NEW is \in RequestKinds, NEW target \in Requests, SendRequest(t, is, target) PROVE AnswerInv'
  <2>1. /\ UNCHANGED <<result, decided, replies, awaiting>>
        /\ \/ toServer' = toServer
           \/ /\ conn \in Conns /\ asked + 1 \in Requests
              /\ \E n \in Nat :
                   /\ n \notin DOMAIN toServer[conn] /\ DOMAIN toServer'[conn] = DOMAIN toServer[conn] \union {n}
                   /\ toServer'[conn][n].about = asked + 1
                   /\ \A i \in DOMAIN toServer[conn] : toServer'[conn][i] = toServer[conn][i]
    BY <1>5, SentIs
  <2>2. OnceInv' /\ Known' = Known /\ Settled' = Settled
    BY <1>0, <2>1, OnceKept DEF Settled
  <2>3. CASE toServer' = toServer
    BY <1>3, <2>1, <2>2, <2>3
  <2>4. CASE toServer' # toServer
    <3>1. PICK n \in Nat : /\ DOMAIN toServer'[conn] = DOMAIN toServer[conn] \union {n}
                           /\ toServer'[conn][n].about = asked + 1
                           /\ \A i \in DOMAIN toServer[conn] : toServer'[conn][i] = toServer[conn][i]
      BY <2>1, <2>4
    <3>2. ASSUME NEW c \in Conns, c = conn PROVE StreamInv(c)'
      <4>1. SentOn(c)' \subseteq SentOn(c) \union {asked + 1}
        BY <3>1, <3>2 DEF SentOn
      <4>2. \A a \in AnsweredOn(c) \union Known \union Settled : a <= asked
        BY DEF NumberInv, Known
      <4>3. asked \in Nat
        BY BaseFacts
      <4>4. asked + 1 \notin AnsweredOn(c) \union Known \union Settled
        BY <4>2, <4>3
      <4>5. StreamInv(c)
        BY <3>2 DEF AnswerInv
      <4>6. FreshOn(c)'
        BY <1>2, <2>2, <4>1, <4>4, <4>5 DEF StreamInv, FreshOn
      <4>7. (PairedOn(c) /\ FinalOn(c) /\ SettledOn(c) /\ AwaitedOn(c))'
        BY <1>1, <2>1, <2>2, <4>5 DEF StreamInv, PairedOn, FinalOn, SettledOn, AwaitedOn, AnswersOn, AnsweredOn, Here,
                                      Undecided
      <4> QED BY <4>6, <4>7 DEF StreamInv
    <3> QED BY <1>1, <2>2, <3>2 DEF AnswerInv
  <2> QED BY <2>3, <2>4
\* What a request returns.
<1> DEFINE r == request[t].about
<1>6. asking[t] \in {"await", "decision"} => r \in Requests
  BY <1>0 DEF LockInv
<1>7. ASSUME NEW what, NEW then, asking[t] \in {"await", "decision"}, Return(t, what, then)
      PROVE  /\ result' = [result EXCEPT ![r] = what] /\ r \in Requests
             /\ \A q \in Requests : result'[q] = IF q = r THEN what ELSE result[q]
  BY <1>0, <1>6, <1>7 DEF Return
<1>8. ASSUME NEW what, NEW then, asking[t] \in {"await", "decision"}, Return(t, what, then),
             UNCHANGED <<replies, toServer>>, Settled' \subseteq Settled, what.about \in {0, result[r].about}
      PROVE  /\ OnceInv' /\ Known' \subseteq Known
             /\ what.about = 0 => result[r].about \notin Known' \/ result[r].about = 0
  <2>1. /\ r \in Requests /\ \A q \in Requests : result'[q] = IF q = r THEN what ELSE result[q]
    BY <1>7, <1>8
  <2> HIDE DEF r
  <2>2. Replied' = Replied
    BY <1>8 DEF Replied
  <2>3. Recorded' \subseteq Recorded \union {0}
    BY <1>8, <2>1 DEF Recorded
  <2>4. \A q, s \in Requests : result'[q].about = result'[s].about /\ result'[s].about # 0 => q = s
    BY <1>0, <1>8, <2>1 DEF OnceInv
  <2>5. OnceInv'
    BY <1>0, <1>8, <2>2, <2>3, <2>4 DEF OnceInv
  <2>6. Known' \subseteq Known
    BY <2>2, <2>3 DEF Known
  <2>7. ASSUME what.about = 0, result[r].about # 0 PROVE result[r].about \notin Known'
    <3>1. result[r].about \notin Replied
      BY <1>0, <2>1, <2>7 DEF OnceInv, Recorded
    <3>2. \A q \in Requests : result'[q].about # result[r].about
      BY <1>0, <2>1, <2>7 DEF OnceInv
    <3> QED BY <2>2, <3>1, <3>2 DEF Known, Recorded
  <2> QED BY <2>5, <2>6, <2>7
<1>9. CASE TakeReply(t)
  <2>1. replies # <<>> /\ replies' = Tail(replies) /\ UNCHANGED <<toServer, decided, awaiting>> /\ asking[t] = "await"
    BY <1>9 DEF TakeReply, server
  <2>2. /\ 1 \in DOMAIN replies /\ Head(replies) = replies[1]
        /\ \A i \in DOMAIN replies' : i \in Nat \ {0} /\ i + 1 \in DOMAIN replies /\ replies'[i] = replies[i + 1]
    BY <1>0, <2>1
  <2>3. PICK a \in Requests : a = replies[1].about /\ a \in Replied
    BY <1>0, <2>2 DEF Replied
  <2>4. Replied' \subseteq Replied \ {a}
    <3>1. \A i \in DOMAIN replies' : replies'[i].about \in Replied
      BY <2>2 DEF Replied
    <3>2. \A i \in DOMAIN replies' : replies'[i].about # a
      <4> SUFFICES ASSUME NEW i \in DOMAIN replies', replies'[i].about = a PROVE FALSE
        OBVIOUS
      <4>1. i + 1 = 1
        BY <1>0, <2>2, <2>3 DEF OnceInv
      <4> QED BY <2>2, <4>1
    <3> QED BY <3>1, <3>2 DEF Replied
  <2>5. \A i, j \in DOMAIN replies' : replies'[i].about = replies'[j].about => i = j
    <3> SUFFICES ASSUME NEW i \in DOMAIN replies', NEW j \in DOMAIN replies', replies'[i].about = replies'[j].about
                 PROVE  i = j
      OBVIOUS
    <3>1. i + 1 = j + 1
      BY <1>0, <2>2 DEF OnceInv
    <3> QED BY <2>2, <3>1
  <2>6. Settled' = Settled /\ 0 \notin Replied
    BY <1>0, <2>1 DEF Settled
  <2>7. a \notin Recorded
    BY <1>0, <2>3, <2>6 DEF OnceInv
  <2>8. result' = result \/ \E what, then : Return(t, what, then) /\ what.about = a
    <3>1. Short(Head(replies)).about = a
      BY <2>2, <2>3 DEF Short
    <3> QED BY <1>9, <3>1 DEF TakeReply
  <2>9. OnceInv' /\ Known' \subseteq Known
    <3>1. CASE result' = result
      <4>1. Recorded' = Recorded
        BY <3>1 DEF Recorded
      <4> QED BY <1>0, <2>4, <2>5, <3>1, <4>1 DEF OnceInv, Known
    <3>2. ASSUME NEW what, NEW then, Return(t, what, then), what.about = a PROVE OnceInv' /\ Known' \subseteq Known
      <4>1. r \in Requests /\ \A q \in Requests : result'[q] = IF q = r THEN what ELSE result[q]
        BY <1>7, <2>1, <3>2
      <4> HIDE DEF r
      <4>2. Recorded' \subseteq Recorded \union {a}
        BY <3>2, <4>1 DEF Recorded
      <4>3. \A q \in Requests : result[q].about # a
        BY <2>7 DEF Recorded
      <4>4. \A q, s \in Requests : result'[q].about = result'[s].about /\ result'[s].about # 0 => q = s
        BY <1>0, <3>2, <4>1, <4>3 DEF OnceInv
      <4>5. OnceInv'
        BY <1>0, <2>4, <2>5, <4>2, <4>4 DEF OnceInv
      <4> QED BY <2>3, <2>4, <4>2, <4>5 DEF Known
    <3> QED BY <2>8, <3>1, <3>2
  <2> QED BY <1>3, <2>1, <2>6, <2>9
<1>10. CASE RequestTimesOut(t)
  <2>1. asking[t] = "await" /\ Return(t, GaveUp, "no") /\ UNCHANGED <<toServer, replies, decided, awaiting>>
    BY <1>10 DEF RequestTimesOut, server, answers
  <2>2. GaveUp.about = 0
    BY DEF GaveUp
  <2>3. Settled' = Settled
    BY <2>1 DEF Settled
  <2>4. OnceInv' /\ Known' \subseteq Known
    BY <1>8, <2>1, <2>2, <2>3
  <2> QED BY <1>3, <2>1, <2>3, <2>4
<1>11. CASE TakeDecision(t)
  <2>1. PICK d \in decided : d.about = Named(t) /\ decided' = decided \ {d} /\ Return(t, d, "no")
    BY <1>11 DEF TakeDecision
  <2>2. asking[t] = "decision" /\ awaiting' = awaiting \ {Named(t)} /\ UNCHANGED <<toServer, replies>>
    BY <1>11 DEF TakeDecision, server
  <2>3. Settled' \subseteq Settled /\ Named(t) \in Settled
    BY <2>1 DEF Settled
  <2>4. OnceInv' /\ Known' \subseteq Known
    BY <1>8, <2>1, <2>2, <2>3 DEF Named
  <2>5. ASSUME NEW c \in Conns, c = conn PROVE Named(t) \notin AnsweredOn(c) /\ ~Here(Named(t), c)
    BY <2>3, <2>5 DEF AnswerInv, StreamInv, SettledOn
  <2> QED BY <1>3, <2>2, <2>3, <2>4, <2>5
<1>12. CASE StopWaiting(t)
  <2>1. asking[t] = "decision" /\ awaiting' = awaiting \ {Named(t)} /\ Return(t, GaveUp, "no")
        /\ UNCHANGED <<toServer, replies, decided>>
    BY <1>12 DEF StopWaiting, server
  <2>2. GaveUp.about = 0
    BY DEF GaveUp
  <2>3. Settled' = Settled
    BY <2>1 DEF Settled
  <2>4. OnceInv' /\ Known' \subseteq Known /\ (Named(t) \notin Known' \/ Named(t) = 0)
    BY <1>8, <2>1, <2>2, <2>3 DEF Named
  <2>5. Named(t) \notin Known'
    BY <1>0, <2>4
  <2> QED BY <1>3, <2>1, <2>3, <2>4, <2>5
<1> QED BY <1>4, <1>5, <1>9, <1>10, <1>11, <1>12 DEF Ask

LEMMA AnswerStep ==
  ASSUME BaseInv, NumberInv, FutureInv, ServerInv, AnswerInv, [Next]_vars
  PROVE  AnswerInv'
<1>0. OnceInv /\ conn \in Nat /\ ToClientOK
  BY BaseFacts DEF AnswerInv
<1>1. CASE Lessens
  <2>1. UNCHANGED <<proposal, result, replies, awaiting, decided, conn>>
    BY <1>1 DEF Lessens
  <2>2. OnceInv' /\ Known' = Known /\ Settled' = Settled
    BY <1>0, <2>1, OnceKept DEF Settled
  <2>3. ASSUME NEW c \in Conns, StreamInv(c) PROVE StreamInv(c)'
    <3>1. Thinned(c) /\ SentOn(c)' \subseteq SentOn(c)
      BY <1>1, FewerSent DEF Lessens
    <3>2. \A p \in Requests : Here(p, c)' => Here(p, c) \/ p \notin AnsweredOn(c) \union Known \union Settled
      BY <2>1 DEF Here, Undecided
    <3>3. \A p \in Known' : p \in awaiting /\ (p \in AnsweredOn(c) \/ Here(p, c)) => p \in awaiting'
      BY <2>1
    <3> QED BY <2>2, <2>3, <3>1, <3>2, <3>3, StreamKept
  <2> QED BY <2>1, <2>2, <2>3 DEF AnswerInv
<1>2. CASE \/ \E d \in Conns : \E msg : Served(d, msg)
           \/ \E p \in Requests : Decide(p) /\ UNCHANGED client
  <2>1. UNCHANGED <<result, replies, conn>>
    BY <1>2 DEF Served, client, answers, asks, wires
  <2>2. OnceInv'
    BY <1>0, <2>1, OnceKept
  <2>3. \A c \in Conns : StreamInv(c) => StreamInv(c)'
    BY <1>0, <1>2, AnswersSent
  <2> QED BY <2>1, <2>2, <2>3 DEF AnswerInv
<1>3. ASSUME NEW history, Attach(history) PROVE AnswerInv'
  <2>1. /\ UNCHANGED <<toServer, toClient, proposal, result>> /\ conn' = conn + 1
        /\ replies' = <<>> /\ decided' = {}
    BY <1>3 DEF Attach, Fresh
  <2>2. OnceInv'
    BY <1>0, <2>1 DEF OnceInv, Replied, Recorded
  <2>3. ASSUME NEW c \in Conns, c = conn + 1 PROVE StreamInv(c)'
    <3>1. toServer[c] = <<>> /\ toClient[c] = <<>> /\ \A p \in Requests : ~Here(p, c)
      BY <1>0, <2>3 DEF FutureInv, Here
    <3>2. SentOn(c)' = {} /\ AnswersOn(c)' = {} /\ Settled' = {}
      BY <2>1, <3>1 DEF SentOn, AnswersOn, Settled
    <3>3. \A p \in Requests : ~(Here(p, c)')
      BY <2>1, <3>1 DEF Here, Undecided
    <3>4. Known' \subseteq Requests
      <4>1. Replied' = {} /\ Recorded' = Recorded
        BY <2>1 DEF Replied, Recorded
      <4> QED BY <4>1, KnownTypes DEF Known
    <3> QED BY <3>2, <3>3, <3>4 DEF StreamInv, PairedOn, FreshOn, FinalOn, SettledOn, AwaitedOn
  <2> QED BY <2>1, <2>2, <2>3 DEF AnswerInv
<1>4. CASE ReceiveWatchAnswer \/ ReceiveProposal
  BY <1>4, AnswersTaken
<1>5. CASE \E t \in Callers : Ask(t)
  BY <1>5, AnswersReturned
<1> QED BY <1>1, <1>2, <1>3, <1>4, <1>5, StepKinds, ServedIs

LEMMA AnswerAlways == Spec => []AnswerInv
<1>1. Init => AnswerInv
  <2> SUFFICES ASSUME Init PROVE AnswerInv
    OBVIOUS
  <2>1. replies = <<>> /\ conn = 0 /\ result = [r \in Requests |-> None]
    BY DEF Init, ClientInit
  <2>2. None.about = 0
    BY DEF None
  <2>3. Replied = {} /\ \A r \in Requests : result[r].about = 0
    BY <2>1, <2>2 DEF Replied
  <2>4. 0 \notin Conns
    BY DEF Conns
  <2> QED BY <2>1, <2>3, <2>4 DEF AnswerInv, OnceInv
<1> QED BY <1>1, AnswerStep, BaseAlways, ServerAlways, PTL DEF Spec

\* An answer is returned to one request only, and to the one it is to unless that one was given up
\* or had been returned another's: whatever is dropped on the way, comes late, is asked by other
\* threads or is heard on a connection that is made anew.
THEOREM AnswersToTheirOwn == Spec => []AnswersAreOwn
<1>1. BaseInv /\ AnswerInv => AnswersAreOwn
  <2> SUFFICES ASSUME BaseInv, AnswerInv, NEW r \in Requests, Answered(r), result[r].about # r
               PROVE  result[result[r].about].about # result[r].about
    BY DEF AnswersAreOwn
  <2>1. result[r].about \in Requests /\ result[r].about # 0
    <3>1. result[r] \in Results
      BY BaseFacts DEF ClientTypeOK
    <3> QED BY <3>1, ResultTypes DEF Answered
  <2> QED BY <2>1 DEF AnswerInv, OnceInv
<1> QED BY <1>1, AnswerAlways, BaseAlways, PTL

-----------------------------------------------------------------------------
(* How far the tools have come *)

Active(t) == call[t].step # "idle" /\ Live(t)

\* What a call has found is there, and not later than the mark it is about to set.
Found(k) ==
  /\ k.step \in {"lines", "reread", "set", "wait", "hit"} => k.from <= lastN /\ k.to <= lastN
  /\ k.step = "reread" => k.found = {}
  /\ k.step \in {"set", "hit", "setevents", "event"} => \A n \in k.found : n <= k.to

\* What was handed back is behind the marks, and a call is of a connection that was made.
MarkInv ==
  /\ mark <= lastN /\ cursor <= lastN
  /\ \A n \in handed : n <= mark
  /\ \A e \in eventsHanded : e <= eventMark
  /\ \A t \in Callers : call[t].on <= conn /\ (Active(t) => Found(call[t]))

\* A call that is alone finds the marks as they were when it began; the lines between the cursor and
\* where it is about to be set are in its hands, counted, or came in the gap.
Untouched(k) ==
  /\ k.step \in {"lines", "reread", "set"} => k.from = cursor
  /\ k.step = "reread" => k.to = cursor /\ (cursor + 1)..lastN \subseteq unread
  /\ k.step = "set" => (cursor + 1)..k.to \subseteq k.found \union k.dropped \union unread
  /\ k.step \in {"wait", "hit"} => mark <= k.from
  /\ k.step \in {"events", "setevents"} => k.from = eventsRead
  /\ k.step \in {"expect", "event"} => eventMark <= k.from
  /\ k.step \in {"hit", "setevents", "event"} => \A n \in k.found : n > k.from

AloneInv ==
  ~overlapped =>
    /\ \A t, u \in Callers : Active(t) /\ Active(u) => t = u
    /\ \A t \in Callers : Active(t) => Untouched(call[t])
    /\ 1..cursor \subseteq accounted \union unread

ReadInv == MarkInv /\ AloneInv

LEMMA ReadFacts ==
  ASSUME BaseInv
  PROVE  /\ ClientTypeOK /\ RingInv /\ call \in [Callers -> Call]
         /\ lastN \in Nat /\ cursor \in Nat /\ mark \in Nat /\ eventsRead \in Nat /\ eventMark \in Nat /\ conn \in Nat
         /\ handed \subseteq Nat /\ eventsHanded \subseteq Nat /\ unread \subseteq Nat
         /\ \A t \in Callers : /\ call[t] \in Call /\ call[t].from \in Nat /\ call[t].to \in Nat /\ call[t].on \in Nat
                               /\ call[t].found \subseteq Nat /\ call[t].dropped \subseteq Nat
<1>1. ClientTypeOK /\ RingInv /\ McpTypeOK /\ conn \in Nat
  BY BaseFacts DEF BaseInv, ClientInv
<1>2. lastN \in Nat /\ unread \subseteq Nat
  BY <1>1 DEF ClientTypeOK
<1>3. /\ call \in [Callers -> Call] /\ cursor \in Nat /\ mark \in Nat /\ eventsRead \in Nat /\ eventMark \in Nat
      /\ handed \subseteq Nat /\ eventsHanded \subseteq Nat
  BY <1>1 DEF McpTypeOK, Call
<1>4. \A k \in Call : k.from \in Nat /\ k.to \in Nat /\ k.on \in Nat /\ k.found \subseteq Nat /\ k.dropped \subseteq Nat
  BY DEF Call
<1> QED BY <1>1, <1>2, <1>3, <1>4

\* A call goes on, and no mark moves.
LEMMA CallGoesOn ==
  ASSUME BaseInv, ReadInv, NEW t \in Callers, NEW from, NEW to, Goes(t, from, to), from # "idle", UNCHANGED marks,
         to = Idle \/ (to.on = conn /\ to.step # "idle" /\ Found(to) /\ (~overlapped => Untouched(to)))
  PROVE  ReadInv'
<1>0. /\ UNCHANGED <<lastN, conn, unread, cursor, mark, eventsRead, eventMark, handed, eventsHanded, accounted, overlapped>>
      /\ call[t].step = from /\ call[t].on = conn /\ call' = [call EXCEPT ![t] = to]
  BY DEF Goes, marks, lineMarks, eventMarks, client, rings, wires, Live
<1>1. /\ call'[t] = to /\ \A u \in Callers : u # t => call'[u] = call[u]
      /\ Idle.step = "idle" /\ Idle.on = 0 /\ conn \in Nat
  BY <1>0, ReadFacts DEF Idle
<1>2. ASSUME NEW k PROVE (Found(k) => Found(k)') /\ (Untouched(k) => Untouched(k)')
  BY <1>0 DEF Found, Untouched
<1>3. \A u \in Callers : u # t => (Active(u)' <=> Active(u))
  BY <1>0, <1>1 DEF Active, Live
<1>4. Active(t) /\ (Active(t)' => to # Idle)
  BY <1>0, <1>1 DEF Active, Live
<1>5. ASSUME NEW u \in Callers, Active(u)' PROVE Active(u) /\ Found(call[u])' /\ (~overlapped => Untouched(call[u])')
  <2> DEFINE k == call'[u]
  <2>1. Active(u)
    BY <1>3, <1>4, <1>5
  <2>2. Found(k) /\ (~overlapped => Untouched(k))
    BY <1>1, <1>4, <1>5, <2>1 DEF ReadInv, MarkInv, AloneInv
  <2>3. Found(call[u])'
    BY <1>0, <2>2 DEF Found
  <2>4. ~overlapped => Untouched(call[u])'
    BY <1>0, <2>2 DEF Untouched
  <2> QED BY <2>1, <2>3, <2>4
<1>6. MarkInv'
  <2>1. \A u \in Callers : call'[u].on <= conn
    BY <1>1 DEF ReadInv, MarkInv
  <2> QED BY <1>0, <1>5, <2>1 DEF ReadInv, MarkInv
<1>7. AloneInv'
  BY <1>0, <1>5 DEF ReadInv, AloneInv
<1> QED BY <1>6, <1>7 DEF ReadInv

\* A call ends, and sets a mark.
LEMMA CallEnds ==
  ASSUME BaseInv, ReadInv, NEW t \in Callers, NEW from, Goes(t, from, Idle), from # "idle", overlapped' = overlapped,
         mark' <= lastN, cursor' <= lastN, \A n \in handed' : n <= mark', \A e \in eventsHanded' : e <= eventMark',
         ~overlapped => 1..cursor' \subseteq accounted' \union unread
  PROVE  ReadInv'
<1>0. UNCHANGED <<lastN, conn, unread>> /\ call[t].step = from /\ call[t].on = conn /\ call' = [call EXCEPT ![t] = Idle]
  BY DEF Goes, client, rings, wires, Live
<1>1. call'[t] = Idle /\ Idle.step = "idle" /\ Idle.on = 0 /\ \A u \in Callers : u # t => call'[u] = call[u]
  BY <1>0, ReadFacts DEF Idle
<1>2. Active(t) /\ ~(Active(t)')
  BY <1>0, <1>1 DEF Active, Live
<1>3. ASSUME NEW u \in Callers, Active(u)' PROVE Active(u) /\ u # t /\ Found(call[u])'
  <2>1. u # t /\ call'[u] = call[u]
    BY <1>1, <1>2, <1>3
  <2>2. Active(u)
    BY <1>0, <1>3, <2>1 DEF Active, Live
  <2>3. Found(call[u])
    BY <2>2 DEF ReadInv, MarkInv
  <2> QED BY <1>0, <2>1, <2>2, <2>3 DEF Found
<1>4. MarkInv'
  <2>1. \A u \in Callers : call'[u].on <= conn
    BY <1>1, ReadFacts DEF ReadInv, MarkInv
  <2> QED BY <1>0, <1>3, <2>1 DEF MarkInv
<1>5. AloneInv'
  <2>1. ~overlapped => \A u \in Callers : ~(Active(u)')
    BY <1>2, <1>3 DEF ReadInv, AloneInv
  <2> QED BY <1>0, <2>1 DEF AloneInv
<1> QED BY <1>4, <1>5 DEF ReadInv

LEMMA CallStepReads ==
  ASSUME BaseInv, ReadInv, NEW t \in Callers, CallStep(t)
  PROVE  ReadInv'
<1> DEFINE k == call[t]
<1>0. /\ ClientTypeOK /\ RingInv /\ MarkInv /\ AloneInv
      /\ lastN \in Nat /\ cursor \in Nat /\ mark \in Nat /\ eventsRead \in Nat /\ eventMark \in Nat
      /\ k \in Call /\ k.from \in Nat /\ k.to \in Nat /\ k.found \subseteq Nat
      /\ handed \subseteq Nat /\ eventsHanded \subseteq Nat
  BY ReadFacts DEF ReadInv
<1>1. ASSUME NEW from, NEW to, Goes(t, from, to), from # "idle"
      PROVE  k.step = from /\ k.on = conn /\ Found(k) /\ (~overlapped => Untouched(k))
  BY <1>0, <1>1 DEF Goes, Live, Active, MarkInv, AloneInv
<1>2. CASE ReadLines(t)
  <2> DEFINE new == After(k.from)
             to  == [k EXCEPT !.found = new,
                              !.dropped = k.from + 1 .. k.from + Dropped(k.from),
                              !.to = IF new = {} THEN k.from ELSE Max(new),
                              !.step = IF new = {} THEN "reread" ELSE "set"]
  <2>1. Goes(t, "lines", to) /\ UNCHANGED marks
    BY <1>2 DEF ReadLines
  <2>2. k.step = "lines" /\ k.on = conn /\ k.from <= lastN /\ (~overlapped => k.from = cursor)
    BY <1>1, <2>1 DEF Found, Untouched
  <2>3. /\ new \subseteq Nat /\ (new # {} => lastN > k.from /\ Max(new) = lastN)
        /\ \A n \in new : n > k.from /\ n <= lastN
        /\ \A n \in (k.from + 1)..lastN : n \in new \/ n \in (k.from + 1)..(k.from + Dropped(k.from))
    BY <1>0, NewestLine, DroppedIs, AfterIs
  <2>4. /\ to.on = conn /\ to.from = k.from /\ to.found = new
        /\ to.dropped = (k.from + 1)..(k.from + Dropped(k.from))
        /\ (new = {} => to.to = k.from /\ to.step = "reread") /\ (new # {} => to.to = lastN /\ to.step = "set")
    BY <1>0, <2>2, <2>3 DEF Call
  <2>5. new = {} => k.from = lastN
    BY <1>0, <2>2, NewestLine, NothingNewer
  <2> HIDE DEF to, new
  <2>6. Found(to)
    <3>1. CASE new = {}
      BY <2>2, <2>4, <3>1 DEF Found
    <3>2. CASE new # {}
      <4>1. to.found = new /\ to.to = lastN /\ to.step = "set" /\ to.from <= lastN /\ lastN <= lastN
        BY <1>0, <2>2, <2>4, <3>2
      <4> QED BY <2>3, <4>1 DEF Found
    <3> QED BY <3>1, <3>2
  <2>7. ~overlapped => Untouched(to)
    BY <1>0, <2>2, <2>3, <2>4, <2>5 DEF Untouched
  <2> QED BY <2>1, <2>4, <2>6, <2>7, CallGoesOn
<1>3. CASE RereadCursor(t)
  <2> DEFINE to == [k EXCEPT !.to = IF lastN > @ THEN lastN ELSE @, !.step = "set"]
  <2>1. Goes(t, "reread", to) /\ UNCHANGED marks
    BY <1>3 DEF RereadCursor
  <2>2. k.step = "reread" /\ k.on = conn /\ Found(k) /\ (~overlapped => Untouched(k))
    BY <1>1, <2>1
  <2>3. to.on = conn /\ to.step = "set" /\ to.from = k.from /\ to.found = {} /\ to.to = lastN /\ to.dropped = k.dropped
    BY <1>0, <2>2 DEF Call, Found
  <2> HIDE DEF to
  <2>4. Found(to)
    BY <1>0, <2>2, <2>3 DEF Found
  <2>5. ~overlapped => Untouched(to)
    BY <1>0, <2>2, <2>3 DEF Untouched
  <2> QED BY <2>1, <2>3, <2>4, <2>5, CallGoesOn
<1>4. CASE SetCursor(t)
  <2>1. /\ Goes(t, "set", Idle) /\ cursor' = k.to /\ mark' = Later(mark, k.to) /\ handed' = handed \union k.found
        /\ accounted' = accounted \union k.found \union k.dropped
        /\ UNCHANGED <<eventMark, eventsHanded, overlapped>>
    BY <1>4 DEF SetCursor, eventMarks
  <2>2. k.to <= lastN /\ (\A n \in k.found : n <= k.to)
        /\ (~overlapped => (cursor + 1)..k.to \subseteq k.found \union k.dropped \union unread)
    BY <1>1, <2>1 DEF Found, Untouched
  <2>3. mark' <= lastN /\ mark' >= mark /\ mark' >= k.to /\ mark' \in Nat
    BY <1>0, <2>1, <2>2 DEF Later, MarkInv
  <2>4. \A n \in handed' : n <= mark'
    BY <1>0, <2>1, <2>2, <2>3 DEF MarkInv
  <2>5. ASSUME ~overlapped, NEW n \in 1..cursor' PROVE n \in accounted' \union unread
    <3>1. n \in 1..cursor \/ n \in (cursor + 1)..k.to
      BY <1>0, <2>1, <2>5
    <3> QED BY <1>0, <2>1, <2>2, <2>5, <3>1 DEF AloneInv
  <2> QED BY <1>0, <2>1, <2>2, <2>3, <2>4, <2>5, CallEnds DEF MarkInv
<1>5. CASE HitLine(t)
  <2>1. PICK n \in After(k.from) : Goes(t, "wait", [k EXCEPT !.found = {n}, !.to = n, !.step = "hit"])
    BY <1>5, Zenon DEF HitLine
  <2> DEFINE to == [k EXCEPT !.found = {n}, !.to = n, !.step = "hit"]
  <2>2. Goes(t, "wait", to) /\ UNCHANGED marks
    BY <1>5, <2>1 DEF HitLine
  <2>3. k.step = "wait" /\ k.on = conn /\ Found(k) /\ (~overlapped => Untouched(k))
    BY <1>1, <2>2
  <2>4. n \in Nat /\ n <= lastN /\ n > k.from
    BY <1>0, AfterIs
  <2>5. to.on = conn /\ to.step = "hit" /\ to.from = k.from /\ to.found = {n} /\ to.to = n
    BY <1>0, <2>3 DEF Call
  <2> HIDE DEF to
  <2>6. Found(to) /\ (~overlapped => Untouched(to))
    BY <1>0, <2>3, <2>4, <2>5 DEF Found, Untouched
  <2> QED BY <2>2, <2>5, <2>6, CallGoesOn
<1>6. CASE HitPartial(t)
  <2> DEFINE to == [k EXCEPT !.step = "prompt"]
  <2>1. Goes(t, "wait", to) /\ UNCHANGED marks
    BY <1>6 DEF HitPartial
  <2>2. to.on = conn /\ to.step = "prompt"
    BY <1>0, <1>1, <2>1 DEF Call
  <2> HIDE DEF to
  <2>3. Found(to) /\ Untouched(to)
    BY <2>2 DEF Found, Untouched
  <2> QED BY <2>1, <2>2, <2>3, CallGoesOn
<1>7. CASE MarkHit(t)
  <2>1. /\ Goes(t, "hit", Idle) /\ mark' = Later(mark, k.to) /\ handed' = handed \union k.found
        /\ UNCHANGED <<cursor, accounted, eventMark, eventsHanded, overlapped>>
    BY <1>7 DEF MarkHit, eventMarks
  <2>2. k.to <= lastN /\ (\A n \in k.found : n <= k.to)
    BY <1>1, <2>1 DEF Found
  <2>3. mark' <= lastN /\ mark' >= mark /\ mark' >= k.to /\ mark' \in Nat
    BY <1>0, <2>1, <2>2 DEF Later, MarkInv
  <2>4. \A n \in handed' : n <= mark'
    BY <1>0, <2>1, <2>2, <2>3 DEF MarkInv
  <2> QED BY <1>0, <2>1, <2>3, <2>4, CallEnds DEF MarkInv, AloneInv
<1>8. CASE MarkPartial(t)
  <2>1. /\ Goes(t, "prompt", Idle) /\ mark' = Later(mark, lastN)
        /\ UNCHANGED <<cursor, accounted, handed, eventMark, eventsHanded, overlapped>>
    BY <1>8 DEF MarkPartial, eventMarks
  <2>2. mark' <= lastN /\ mark' >= mark /\ mark' \in Nat
    BY <1>0, <2>1 DEF Later, MarkInv
  <2>3. \A n \in handed' : n <= mark'
    BY <1>0, <2>1, <2>2 DEF MarkInv
  <2> QED BY <1>0, <2>1, <2>2, <2>3, CallEnds DEF MarkInv, AloneInv
<1>9. CASE Miss(t)
  <2>1. Goes(t, "wait", Idle) \/ Goes(t, "expect", Idle)
    BY <1>9 DEF Miss
  <2> QED BY <1>9, <2>1, CallGoesOn DEF Miss
<1>10. CASE TakeEvents(t)
  <2> DEFINE new == EventsAfter(k.from)
             to  == [k EXCEPT !.found = new, !.to = Last(events), !.step = "setevents"]
  <2>1. Goes(t, "events", IF new = {} THEN Idle ELSE to) /\ UNCHANGED marks
    BY <1>10 DEF TakeEvents
  <2>2. k.step = "events" /\ k.on = conn /\ Found(k) /\ (~overlapped => Untouched(k))
    BY <1>1, <2>1
  <2>3. CASE new = {}
    BY <2>1, <2>3, CallGoesOn
  <2>4. CASE new # {}
    <3>1. \A e \in new : e <= Last(events) /\ e > k.from
      BY <1>0, <2>4, NewestEvent DEF EventsAfter
    <3>2. to.on = conn /\ to.step = "setevents" /\ to.from = k.from /\ to.found = new /\ to.to = Last(events)
      BY <1>0, <2>2 DEF Call
    <3>3. Goes(t, "events", to)
      BY <2>1, <2>4
    <3> HIDE DEF to, new
    <3>4. Found(to) /\ (~overlapped => Untouched(to))
      BY <2>2, <3>1, <3>2 DEF Found, Untouched
    <3> QED BY <2>1, <3>2, <3>3, <3>4, CallGoesOn
  <2> QED BY <2>3, <2>4
<1>11. CASE SetEventsRead(t) \/ MarkEvent(t)
  <2>1. PICK from \in {"setevents", "event"} : Goes(t, from, Idle)
    BY <1>11 DEF SetEventsRead, MarkEvent
  <2>2. /\ eventMark' = Later(eventMark, k.to) /\ eventsHanded' = eventsHanded \union k.found
        /\ UNCHANGED <<cursor, accounted, handed, mark, overlapped>>
    BY <1>11 DEF SetEventsRead, MarkEvent, lineMarks
  <2>3. \A n \in k.found : n <= k.to
    BY <1>1, <2>1 DEF Found
  <2>4. eventMark' >= eventMark /\ eventMark' >= k.to /\ eventMark' \in Nat
    BY <1>0, <2>2 DEF Later
  <2>5. \A e \in eventsHanded' : e <= eventMark'
    BY <1>0, <2>2, <2>3, <2>4 DEF MarkInv
  <2> QED BY <1>0, <2>1, <2>2, <2>5, CallEnds DEF MarkInv, AloneInv
<1>12. CASE HearEvent(t)
  <2>1. PICK e \in EventsAfter(k.from) : Goes(t, "expect", [k EXCEPT !.found = {e}, !.to = e, !.step = "event"])
    BY <1>12, Zenon DEF HearEvent
  <2> DEFINE to == [k EXCEPT !.found = {e}, !.to = e, !.step = "event"]
  <2>2. Goes(t, "expect", to) /\ UNCHANGED marks
    BY <1>12, <2>1 DEF HearEvent
  <2>3. k.step = "expect" /\ k.on = conn /\ Found(k) /\ (~overlapped => Untouched(k))
    BY <1>1, <2>2
  <2>4. e \in Nat /\ e > k.from
    <3>1. e > k.from
      BY DEF EventsAfter
    <3> QED BY <1>0, <3>1, NewestEvent
  <2>5. to.on = conn /\ to.step = "event" /\ to.from = k.from /\ to.found = {e} /\ to.to = e
    BY <1>0, <2>3 DEF Call
  <2> HIDE DEF to
  <2>6. Found(to) /\ (~overlapped => Untouched(to))
    BY <1>0, <2>3, <2>4, <2>5 DEF Found, Untouched
  <2> QED BY <2>2, <2>5, <2>6, CallGoesOn
<1>13. CASE ReplacedCallEnds(t)
  <2>1. /\ UNCHANGED <<lastN, conn, unread, cursor, mark, eventsRead, eventMark, handed, eventsHanded, accounted, overlapped>>
        /\ call' = [call EXCEPT ![t] = Idle]
    BY <1>13 DEF ReplacedCallEnds, marks, lineMarks, eventMarks, client, rings, wires
  <2>2. call'[t] = Idle /\ Idle.step = "idle" /\ Idle.on = 0 /\ \A u \in Callers : u # t => call'[u] = call[u]
    BY <2>1, ReadFacts DEF Idle
  <2>3. \A u \in Callers : Active(u)' => u # t /\ Active(u) /\ call'[u] = call[u]
    BY <2>1, <2>2 DEF Active, Live
  <2>4. MarkInv'
    <3>1. \A u \in Callers : call'[u].on <= conn
      BY <1>0, <2>2, ReadFacts DEF MarkInv
    <3> QED BY <1>0, <2>1, <2>3, <3>1 DEF MarkInv, Found
  <2>5. AloneInv'
    BY <1>0, <2>1, <2>3 DEF AloneInv, Untouched
  <2> QED BY <2>4, <2>5 DEF ReadInv
<1> QED BY <1>2, <1>3, <1>4, <1>5, <1>6, <1>7, <1>8, <1>9, <1>10, <1>11, <1>12, <1>13 DEF CallStep

\* A call begins: where it reads from is not before what was handed back.
LEMMA BeginReads ==
  ASSUME BaseInv, ReadInv, NEW t \in Callers, NEW tool, NEW step, NEW from \in Nat, Begin(t, tool, step, from),
         step \in {"lines", "wait", "events", "expect"},
         step \in {"lines", "wait"} => from <= lastN,
         step = "lines" => from = cursor,
         step = "wait" => mark <= from,
         step = "events" => from = eventsRead,
         step = "expect" => eventMark <= from
  PROVE  ReadInv'
<1> DEFINE k == [Idle EXCEPT !.step = step, !.on = conn, !.from = from]
<1>0. /\ MarkInv /\ AloneInv /\ call \in [Callers -> Call] /\ lastN \in Nat /\ conn \in Nat
      /\ UNCHANGED <<lastN, conn, unread, cursor, mark, eventsRead, eventMark, handed, eventsHanded, accounted>>
      /\ call[t].step = "idle" /\ overlapped' = (overlapped \/ \E other \in Busy : Live(other))
  BY ReadFacts DEF Begin, ReadInv, lineMarks, eventMarks, client, rings, wires
<1>1. call'[t] = k /\ \A u \in Callers : u # t => call'[u] = call[u]
  BY <1>0 DEF Begin
<1>2. k.step = step /\ k.on = conn /\ k.from = from /\ k.to = 0 /\ k.found = {}
  BY DEF Idle
<1> HIDE DEF k
<1>3. Found(k) /\ Untouched(k)
  BY <1>0, <1>2 DEF Found, Untouched
<1>4. \A u \in Callers : Active(u)' => u = t \/ (u # t /\ Active(u) /\ call'[u] = call[u])
  BY <1>0, <1>1 DEF Active, Live
<1>5. MarkInv'
  <2>1. \A u \in Callers : call'[u].on <= conn
    BY <1>0, <1>1, <1>2 DEF MarkInv
  <2>2. ASSUME NEW u \in Callers, Active(u)' PROVE Found(call[u])'
    <3>1. Found(call'[u])
      BY <1>0, <1>1, <1>3, <1>4, <2>2 DEF MarkInv
    <3> QED BY <1>0, <3>1 DEF Found
  <2> QED BY <1>0, <2>1, <2>2 DEF MarkInv
<1>6. AloneInv'
  <2> SUFFICES ASSUME ~overlapped'
               PROVE  /\ \A u \in Callers : Active(u)' => u = t
                      /\ Untouched(call[t])'
                      /\ (1..cursor)' \subseteq accounted' \union unread'
    BY DEF AloneInv
  <2>1. ~overlapped /\ \A u \in Callers : ~Active(u)
    BY <1>0 DEF Busy, Active
  <2>2. \A u \in Callers : Active(u)' => u = t
    BY <1>4, <2>1
  <2>3. Untouched(call[t])'
    BY <1>0, <1>1, <1>3 DEF Untouched
  <2> QED BY <1>0, <2>1, <2>2, <2>3 DEF AloneInv
<1> QED BY <1>5, <1>6 DEF ReadInv

\* A line comes, and whoever is in the gap does not see it.
LEMMA LineReads ==
  ASSUME BaseInv, ReadInv, ReceiveLine(\E t \in Callers : call[t].step = "reread" /\ Live(t)), UNCHANGED mcp
  PROVE  ReadInv'
<1>0. /\ MarkInv /\ AloneInv /\ lastN \in Nat /\ cursor \in Nat /\ mark \in Nat
      /\ UNCHANGED <<conn, call, cursor, mark, eventsRead, eventMark, handed, eventsHanded, accounted, overlapped>>
      /\ lastN' = lastN + 1 /\ unread \subseteq unread'
      /\ (\E t \in Callers : call[t].step = "reread" /\ Live(t)) => lastN + 1 \in unread'
  BY ReadFacts DEF ReadInv, ReceiveLine, Receive, mcp, marks, lineMarks, eventMarks
<1>1. \A t \in Callers : (Active(t)' <=> Active(t)) /\ call[t].to \in Nat /\ call[t].from \in Nat
  BY <1>0, ReadFacts DEF Active, Live
<1>2. MarkInv'
  <2>1. ASSUME NEW t \in Callers, Active(t) PROVE Found(call[t])'
    <3>1. Found(call[t])
      BY <1>0, <2>1 DEF MarkInv
    <3> QED BY <1>0, <1>1, <3>1 DEF Found
  <2> QED BY <1>0, <1>1, <2>1 DEF MarkInv
<1>3. AloneInv'
  <2>1. ASSUME NEW t \in Callers, Active(t), ~overlapped PROVE Untouched(call[t])'
    <3>1. Untouched(call[t])
      BY <1>0, <2>1 DEF AloneInv
    <3>2. call[t].step = "reread" => (cursor + 1)..lastN' \subseteq unread'
      <4>1. call[t].step = "reread" => lastN + 1 \in unread' /\ (cursor + 1)..lastN \subseteq unread
        BY <1>0, <2>1, <3>1 DEF Active, Untouched
      <4>2. \A n \in (cursor + 1)..lastN' : n \in (cursor + 1)..lastN \/ n = lastN + 1
        BY <1>0
      <4> QED BY <1>0, <4>1, <4>2
    <3>3. call[t].step = "set" => (cursor + 1)..call[t].to \subseteq call[t].found \union call[t].dropped \union unread'
      BY <1>0, <3>1 DEF Untouched
    <3> QED BY <1>0, <3>1, <3>2, <3>3 DEF Untouched
  <2> QED BY <1>0, <1>1, <2>1 DEF AloneInv
<1> QED BY <1>2, <1>3 DEF ReadInv

\* A session is joined anew, and no call is of the new connection.
LEMMA JoinReads ==
  ASSUME BaseInv, ReadInv, NEW history, Join(history)
  PROVE  ReadInv'
<1>0. /\ MarkInv /\ conn \in Nat /\ conn' = conn + 1 /\ call' = call /\ lastN' \in Nat
      /\ cursor' = 0 /\ mark' = 0 /\ handed' = {} /\ eventsHanded' = {}
  BY ReadFacts DEF ReadInv, Join, Attach
<1>1. \A t \in Callers : call[t].on <= conn /\ call[t].on \in Nat
  BY <1>0, ReadFacts DEF MarkInv
<1>2. \A t \in Callers : ~(Active(t)')
  BY <1>0, <1>1 DEF Active, Live
<1>3. MarkInv'
  BY <1>0, <1>1, <1>2 DEF MarkInv
<1>4. AloneInv'
  <2>1. 1..cursor' = {}
    BY <1>0
  <2> QED BY <1>2, <2>1 DEF AloneInv
<1> QED BY <1>3, <1>4 DEF ReadInv

LEMMA ReadStep ==
  ASSUME BaseInv, ReadInv, [Next]_vars
  PROVE  ReadInv'
<1>0. /\ MarkInv /\ lastN \in Nat /\ cursor \in Nat /\ mark \in Nat /\ eventsRead \in Nat /\ eventMark \in Nat
  BY ReadFacts DEF ReadInv
<1>1. ASSUME UNCHANGED <<lastN, conn, unread, call, cursor, mark, eventsRead, eventMark, handed, eventsHanded, accounted, overlapped>>
      PROVE  ReadInv'
  BY <1>1 DEF ReadInv, MarkInv, AloneInv, Active, Live, Found, Untouched
<1>2. CASE World \/ BeatStep \/ Close \/ InputEnds \/ Look("watcher") \/ (\E k \in Checkers : SetLevel(k)) \/ UNCHANGED vars
  BY <1>1, <1>2 DEF World, BeatStep, Beat, BeatGivesUp, Close, CloseClient, InputEnds, Look, SetLevel, vars,
                    mcp, marks, lineMarks, eventMarks, client, rings, wires
<1>3. CASE ReceiverStep
  <2>1. CASE ReceiveLine(\E t \in Callers : call[t].step = "reread" /\ Live(t))
    BY <1>3, <2>1, LineReads DEF ReceiverStep
  <2>2. CASE EndOfChunk \/ ReceivePrompt \/ ReceiveEvent \/ ReceivePong \/ ReceiveWatchAnswer \/ ReceiveProposal \/ SeesTheEnd
    <3>1. UNCHANGED <<lastN, conn, unread>>
      BY <2>2 DEF EndOfChunk, ReceivePrompt, ReceiveEvent, ReceivePong, ReceiveWatchAnswer, ReceiveProposal, SeesTheEnd,
                  Receive, rings
    <3> QED BY <1>1, <1>3, <3>1 DEF ReceiverStep, mcp, marks, lineMarks, eventMarks
  <2> QED BY <1>3, <2>1, <2>2 DEF ReceiverStep
<1>4. CASE ReceiverChecks
  BY <1>1, <1>4 DEF ReceiverChecks, ReceiveStatus, Receive, marks, lineMarks, eventMarks
<1>5. CASE \E history \in 0..MaxReplay : Join(history)
  BY <1>5, JoinReads
<1>6. ASSUME NEW t \in Callers,
             BeginReadNew(t) \/ BeginWaitFor(t) \/ BeginSendAndWait(t) \/ BeginReadEvents(t) \/ BeginWaitForEvent(t)
      PROVE  ReadInv'
  <2>1. CASE BeginReadNew(t)
    BY <1>0, <2>1, BeginReads DEF BeginReadNew, MarkInv
  <2>2. CASE BeginWaitFor(t)
    <3>1. Later(mark, cursor) \in Nat /\ Later(mark, cursor) >= mark /\ Later(mark, cursor) <= lastN
      BY <1>0 DEF Later, MarkInv
    <3>2. Begin(t, "wait_for", "wait", Later(mark, cursor)) /\ mark <= Later(mark, cursor)
      BY <1>0, <2>2, <3>1 DEF BeginWaitFor
    <3> QED BY <3>1, <3>2, BeginReads
  <2>3. CASE BeginSendAndWait(t)
    <3>1. lastN <= lastN
      BY <1>0
    <3> QED BY <1>0, <2>3, <3>1, BeginReads DEF BeginSendAndWait, MarkInv
  <2>4. CASE BeginReadEvents(t)
    BY <1>0, <2>4, BeginReads DEF BeginReadEvents
  <2>5. CASE BeginWaitForEvent(t)
    <3>1. Later(eventsRead, eventMark) \in Nat /\ eventMark <= Later(eventsRead, eventMark)
      BY <1>0 DEF Later
    <3> QED BY <2>5, <3>1, BeginReads DEF BeginWaitForEvent
  <2> QED BY <1>6, <2>1, <2>2, <2>3, <2>4, <2>5
<1>7. CASE \E t \in Callers : CallStep(t)
  BY <1>7, CallStepReads
<1>8. ASSUME NEW t \in Callers, Ask(t) PROVE ReadInv'
  <2>1. UNCHANGED <<lastN, conn, unread>>
    BY <1>8 DEF Ask, Drain, SendRequest, TakeReply, RequestTimesOut, TakeDecision, StopWaiting, rings, wires
  <2> QED BY <1>1, <1>8, <2>1 DEF Ask, mcp, marks, lineMarks, eventMarks
<1> QED BY <1>2, <1>3, <1>4, <1>5, <1>6, <1>7, <1>8 DEF Next

LEMMA ReadAlways == Spec => []ReadInv
<1>1. Init => ReadInv
  <2> SUFFICES ASSUME Init PROVE ReadInv
    OBVIOUS
  <2>1. /\ conn = 0 /\ lastN = 0 /\ cursor = 0 /\ mark = 0 /\ handed = {} /\ eventsHanded = {}
        /\ call = [t \in Callers |-> Idle]
    BY DEF Init, ClientInit
  <2>2. \A t \in Callers : call[t].step = "idle" /\ call[t].on = 0
    BY <2>1 DEF Idle
  <2>3. \A t \in Callers : ~Active(t)
    BY <2>2 DEF Active
  <2>4. 1..cursor = {}
    BY <2>1
  <2> QED BY <2>1, <2>2, <2>3, <2>4 DEF ReadInv, MarkInv, AloneInv
<1> QED BY <1>1, ReadStep, BaseAlways, PTL DEF Spec

\* What wait_for matches, and what wait_for_event hears, has not been handed back before, and
\* read_events hands back no event a second time - as long as no two calls have overlapped: the
\* marks are written without a lock.
THEOREM NothingHandedBackTwice == Spec => []HandedBackOnce
<1>1. BaseInv /\ ReadInv => HandedBackOnce
  <2> SUFFICES ASSUME BaseInv, ReadInv, NEW t \in Callers, Live(t), ~overlapped, call[t].step \in {"hit", "event", "setevents"}
               PROVE  /\ (call[t].step = "hit") => call[t].found \intersect handed = {}
                      /\ (call[t].step = "event") => call[t].found \intersect eventsHanded = {}
                      /\ (call[t].step = "setevents") => \A e \in call[t].found : e > eventsRead
    BY DEF HandedBackOnce
  <2> DEFINE k == call[t]
  <2>1. /\ mark \in Nat /\ eventsRead \in Nat /\ eventMark \in Nat /\ handed \subseteq Nat /\ eventsHanded \subseteq Nat
        /\ k.from \in Nat /\ k.found \subseteq Nat
    BY ReadFacts
  <2>2. Untouched(k) /\ (\A n \in handed : n <= mark) /\ \A e \in eventsHanded : e <= eventMark
    BY DEF ReadInv, MarkInv, AloneInv, Active
  <2>3. \A n \in k.found : n > k.from
    BY <2>2 DEF Untouched
  <2>4. k.step = "hit" => mark <= k.from
    BY <2>2 DEF Untouched
  <2>5. k.step = "event" => eventMark <= k.from
    BY <2>2 DEF Untouched
  <2>6. k.step = "setevents" => k.from = eventsRead
    BY <2>2 DEF Untouched
  <2> HIDE DEF k
  <2>7. k.step = "hit" => \A n \in k.found : n \notin handed
    BY <2>1, <2>2, <2>3, <2>4
  <2>8. k.step = "event" => \A n \in k.found : n \notin eventsHanded
    BY <2>1, <2>2, <2>3, <2>5
  <2> QED BY <2>3, <2>6, <2>7, <2>8 DEF k
<1> QED BY <1>1, ReadAlways, BaseAlways, PTL

\* A reader that keeps its cursor misses nothing it is told about but what came in the gap between
\* the two halves of a read that found nothing, when no two calls have overlapped.
THEOREM TheGapIsAllThatIsMissed == Spec => []OnlyTheGapIsMissed
<1>1. ReadInv => OnlyTheGapIsMissed
  BY DEF ReadInv, AloneInv, OnlyTheGapIsMissed
<1> QED BY <1>1, ReadAlways, PTL
=============================================================================
