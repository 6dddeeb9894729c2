-------------------------- MODULE ProxyServerProofs --------------------------
(***************************************************************************)
(* What holds of the proxy for any number of connections, any cap, any     *)
(* length of the queues and of the history, and any number of chunks.      *)
(*                                                                         *)
(* The types and the slots come first and stand alone.  The stream a       *)
(* client is sent needs six invariants more; of them, the one on the live  *)
(* stream and the one on its holes only ask how a step leaves what is on   *)
(* its way to one connection, which StreamSteps answers for every action.  *)
(***************************************************************************)
EXTENDS ProxyServer, FiniteSetTheorems, SequenceTheorems, TLAPS

USE ThreadsAssumption, RoleAssumption, BoundsAssumption, EchoAssumption

-----------------------------------------------------------------------------
(* Types *)

LEMMA MessageTypes ==
  /\ Other \in Message /\ Sentinel \in Message
  /\ \A n \in Nat : Rx(n) \in Message
  /\ \A line \in Seq(Nat) : Old(line) \in Message
<1>1. <<>> \in Seq(Nat) /\ \A n \in Nat : <<n>> \in Seq(Nat) /\ Len(<<n>>) = 1
  OBVIOUS
<1> QED BY <1>1 DEF Other, Sentinel, Rx, Old, Message

LEMMA ThreadTypes == Device \in Threads /\ Conns \subseteq Threads
BY DEF Threads

QueueOK == queue \in [Conns -> Seq(Message)] /\ \A c \in Conns : Len(queue[c]) <= QueueMax
FanOutOK == fanOut \in [Threads -> [msg: Message, to: SUBSET Conns]]

LEMMA PutTypes ==
  ASSUME TypeOK, NEW c \in Conns, NEW msg \in Message, Put(c, msg)
  PROVE  QueueOK'
<1>1. queue \in [Conns -> Seq(Message)] /\ \A d \in Conns : Len(queue[d]) <= QueueMax
  BY DEF TypeOK
<1>2. CASE Fits(c)
  <2>1. queue' = [queue EXCEPT ![c] = Append(@, msg)] /\ Len(queue[c]) < QueueMax
    BY <1>2 DEF Put, Fits
  <2>2. Append(queue[c], msg) \in Seq(Message) /\ Len(Append(queue[c], msg)) = Len(queue[c]) + 1
    BY <1>1
  <2>3. Len(Append(queue[c], msg)) <= QueueMax
    BY <1>1, <2>1, <2>2
  <2> QED BY <1>1, <2>1, <2>2, <2>3 DEF QueueOK
<1>3. CASE ~Fits(c)
  BY <1>1, <1>3 DEF Put, QueueOK
<1> QED BY <1>2, <1>3

LEMMA ShutdownTypes ==
  ASSUME TypeOK, NEW C \in SUBSET Conns, Shutdown(C)
  PROVE  QueueOK' /\ sock' \in [Conns -> {"none", "open", "hungup", "closed"}]
<1>1. queue \in [Conns -> Seq(Message)] /\ \A d \in Conns : Len(queue[d]) <= QueueMax
  BY DEF TypeOK
<1>2. ASSUME NEW d \in Conns PROVE queue'[d] \in Seq(Message) /\ Len(queue'[d]) <= QueueMax
  <2>1. CASE d \in C /\ Fits(d)
    <3>1. queue'[d] = Append(queue[d], Sentinel) /\ Len(queue[d]) < QueueMax
      BY <2>1 DEF Shutdown, Fits
    <3>2. Len(Append(queue[d], Sentinel)) = Len(queue[d]) + 1
      BY <1>1, MessageTypes
    <3> QED BY <1>1, <3>1, <3>2, MessageTypes
  <2>2. CASE ~(d \in C /\ Fits(d))
    BY <1>1, <2>2 DEF Shutdown
  <2> QED BY <2>1, <2>2
<1>3. queue' = [d \in Conns |-> queue'[d]]
  BY DEF Shutdown
<1>4. sock' \in [Conns -> {"none", "open", "hungup", "closed"}]
  BY DEF Shutdown, TypeOK
<1> QED BY <1>2, <1>3, <1>4 DEF QueueOK

LEMMA FanOutRecord ==
  ASSUME NEW msg \in Message, NEW to \in SUBSET Conns
  PROVE  /\ FanOut(msg, to) \in [msg: Message, to: SUBSET Conns]
         /\ FanOut(msg, to).to = to
BY MessageTypes DEF FanOut

LEMMA StartFanOutTypes ==
  ASSUME TypeOK, NEW t \in Threads, NEW msg \in Message, NEW skip, StartFanOut(t, msg, skip)
  PROVE  FanOutOK'
<1>1. (IF Subscribed THEN clients \ skip ELSE {}) \in SUBSET Conns
  BY DEF TypeOK
<1> QED BY <1>1, FanOutRecord DEF StartFanOut, TypeOK, FanOutOK

\* What the history shows of itself: how many lines, and which.
SnapshotFrom(len, limit) ==
  IF limit <= len THEN len - limit ELSE IF limit <= 2 * len THEN 2 * len - limit ELSE 0

LEMMA SnapshotIsAnEnd ==
  ASSUME NEW S, NEW entries \in Seq(S), NEW limit \in Nat
  PROVE  /\ Snapshot(entries, limit) = SubSeq(entries, SnapshotFrom(Len(entries), limit) + 1, Len(entries))
         /\ SnapshotFrom(Len(entries), limit) \in 0..Len(entries)
         /\ Snapshot(entries, limit) \in Seq(S)
<1>1. Len(entries) \in Nat
  OBVIOUS
<1>2. SnapshotFrom(Len(entries), limit) \in 0..Len(entries)
  BY <1>1 DEF SnapshotFrom
<1>3. Snapshot(entries, limit) = SubSeq(entries, SnapshotFrom(Len(entries), limit) + 1, Len(entries))
  BY DEF Snapshot, SnapshotFrom
<1>4. \A i \in SnapshotFrom(Len(entries), limit) + 1 .. Len(entries) : entries[i] \in S
  BY <1>1, <1>2
<1> QED BY <1>1, <1>2, <1>3, <1>4, SubSeqProperties

LEMMA LinesTypes ==
  ASSUME NEW entries \in Seq(Seq(Nat))
  PROVE  /\ Lines(entries) \in Seq(Message)
         /\ Len(Lines(entries)) = Len(entries)
         /\ \A i \in 1..Len(entries) : Lines(entries)[i] = Old(entries[i])
<1>1. Len(entries) \in Nat /\ DOMAIN entries = 1..Len(entries)
  OBVIOUS
<1>2. Lines(entries) \in [1..Len(entries) -> Message]
  BY <1>1, MessageTypes DEF Lines
<1> QED BY <1>1, <1>2 DEF Lines

LEMMA JoinTypes ==
  ASSUME TypeOK, NEW c \in Conns, NEW wanted \in Wanted, Join(c, wanted)
  PROVE  toSend' \in [Conns -> Seq(Message)]
<1>1. Lines(Snapshot(replay, wanted)) \in Seq(Message)
  BY SnapshotIsAnEnd, LinesTypes DEF TypeOK
<1>2. <<Other>> \in Seq(Message)
  BY MessageTypes
<1>3. <<Other>> \o (IF wanted > 0 THEN Lines(Snapshot(replay, wanted)) \o <<Other>> ELSE <<>>)
        \in Seq(Message)
  BY <1>1, <1>2
<1> QED BY <1>3 DEF Join, TypeOK

-----------------------------------------------------------------------------
(***************************************************************************)
(* Where a connection can be, and the slots.                               *)
(***************************************************************************)
Members == {"joining", "joined", "serving", "writing", "leaving"}

SlotInv ==
  /\ IsFiniteSet(Served)
  /\ active = Cardinality(Served)
  /\ MaxClients > 0 => active <= MaxClients
  /\ \A c \in clients : pc[c] \in Members

\* The slots are counted right as long as one connection at a time comes or goes.
LEMMA SlotsStay ==
  ASSUME TypeOK, SlotInv,
         \/ Served' = Served /\ active' = active
         \/ \E c \in Conns : /\ c \notin Served /\ Served' = Served \union {c}
                             /\ ~Full /\ active' = active + 1
         \/ \E c \in Served : Served' = Served \ {c} /\ active' = active - 1
  PROVE  /\ IsFiniteSet(Served')
         /\ active' = Cardinality(Served')
         /\ MaxClients > 0 => active' <= MaxClients
<1>0. Cardinality(Served) \in Nat /\ IsFiniteSet(Served) /\ active = Cardinality(Served)
  BY FS_CardinalityType DEF SlotInv
<1>1. CASE Served' = Served /\ active' = active
  BY <1>1 DEF SlotInv
<1>2. ASSUME NEW c \in Conns, c \notin Served, Served' = Served \union {c}, ~Full, active' = active + 1
      PROVE  /\ IsFiniteSet(Served') /\ active' = Cardinality(Served')
             /\ MaxClients > 0 => active' <= MaxClients
  <2>1. IsFiniteSet(Served') /\ Cardinality(Served') = Cardinality(Served) + 1
    BY <1>0, <1>2, FS_AddElement
  <2> QED BY <1>0, <1>2, <2>1 DEF Full
<1>3. ASSUME NEW c \in Served, Served' = Served \ {c}, active' = active - 1
      PROVE  /\ IsFiniteSet(Served') /\ active' = Cardinality(Served')
             /\ MaxClients > 0 => active' <= MaxClients
  <2>1. IsFiniteSet(Served') /\ Cardinality(Served') = Cardinality(Served) - 1
    BY <1>0, <1>3, FS_RemoveElement
  <2> QED BY <1>0, <1>3, <2>1 DEF SlotInv
<1> QED BY <1>1, <1>2, <1>3

LEMMA SlotStep ==
  ASSUME TypeOK, SlotInv, [Next]_vars
  PROVE  SlotInv'
<1> DEFINE Same  == Served' = Served /\ active' = active
           Comes == \E c \in Conns : /\ c \notin Served /\ Served' = Served \union {c}
                                     /\ ~Full /\ active' = active + 1
           Goes  == \E c \in Served : Served' = Served \ {c} /\ active' = active - 1
           Listed == \A c \in clients' : pc'[c] \in Members
<1>0. SUFFICES (Same \/ Comes \/ Goes) /\ Listed
  BY SlotsStay DEF SlotInv
<1>1. clients \subseteq Conns /\ DOMAIN pc = Conns /\ \A c \in clients : pc[c] \in Members
  BY DEF TypeOK, SlotInv
<1>2. ASSUME UNCHANGED <<pc, active>>, clients' \subseteq clients PROVE Same /\ Listed
  BY <1>1, <1>2 DEF Served
<1>3. ASSUME NEW c \in Conns, NEW to \in {"accepted", "gone"},
             pc[c] \in {"away", "accepted"}, pc' = [pc EXCEPT ![c] = to], UNCHANGED <<active, clients>>
      PROVE  Same /\ Listed
  BY <1>1, <1>3 DEF Served, Members
<1>4. ASSUME NEW c \in Conns, Admit(c) PROVE Comes /\ Listed
  <2>1. pc[c] = "accepted" /\ ~Full /\ active' = active + 1 /\ clients' = clients
        /\ pc' = [pc EXCEPT ![c] = "authenticating"]
    BY <1>4 DEF Admit
  <2>2. c \notin Served /\ Served' = Served \union {c}
    BY <1>1, <2>1 DEF Served
  <2> QED BY <1>1, <2>1, <2>2 DEF Members
<1>5. ASSUME NEW c \in Conns, NEW to \in Members,
             pc[c] \in {"authenticating", "joining", "joined", "serving", "writing"},
             pc' = [pc EXCEPT ![c] = to], active' = active,
             clients' = clients \/ clients' = clients \union {c}
      PROVE  Same /\ Listed
  BY <1>1, <1>5 DEF Served, Members
<1>6. ASSUME NEW c \in Conns, Leave(c) PROVE Same /\ Listed
  <2>1. pc[c] = "leaving" /\ active' = active /\ clients' = clients \ {c}
        /\ pc' = [pc EXCEPT ![c] = "releasing"]
    BY <1>6 DEF Leave
  <2> QED BY <1>1, <2>1 DEF Served, Members
<1>7. ASSUME NEW c \in Conns, Release(c) PROVE Goes /\ Listed
  <2>1. pc[c] = "releasing" /\ active' = active - 1 /\ clients' = clients
        /\ pc' = [pc EXCEPT ![c] = "gone"]
    BY <1>7 DEF Release
  <2>2. c \in Served /\ Served' = Served \ {c}
    BY <1>1, <2>1 DEF Served
  <2>3. c \notin clients
    BY <1>1, <2>1 DEF Members
  <2> QED BY <1>1, <2>1, <2>2, <2>3
<1>8. CASE DeviceSays \/ DeviceStep \/ BeginStop \/ StopStep \/ UNCHANGED vars
  BY <1>2, <1>8 DEF DeviceSays, DeviceStep, HandTo, LineEnds, BeginStop, StopStep, StopTakesClients,
     StopEnds, StopShutsDown, connection, vars
<1>9. ASSUME NEW c \in Conns, ClientStep(c) PROVE (Same \/ Comes \/ Goes) /\ Listed
  <2>1. CASE AcceptReturns(c)
    BY <1>3, <2>1 DEF AcceptReturns
  <2>2. CASE HangUp(c) \/ Answer(c)
    BY <1>2, <2>2 DEF HangUp, Answer, connection
  <2>3. CASE BeginWrite(c)
    BY <1>5, <2>3 DEF BeginWrite, Request, Members
  <2> QED BY <1>9, <2>1, <2>2, <2>3 DEF ClientStep
<1>10. ASSUME NEW c \in Conns, AcceptStep(c) PROVE (Same \/ Comes \/ Goes) /\ Listed
  BY <1>3, <1>4, <1>10 DEF AcceptStep, RefuseFull
<1>11. ASSUME NEW c \in Conns, HandlerStep(c) PROVE (Same \/ Comes \/ Goes) /\ Listed
  <2>1. ASSUME NEW d \in Conns, HandTo(c, d) PROVE Same /\ Listed
    BY <1>2, <2>1 DEF HandTo, connection
  <2>2. ASSUME NEW announced \in BOOLEAN, TurnAway(c, announced) PROVE Same /\ Listed
    BY <1>5, <2>2 DEF TurnAway, Members
  <2>3. ASSUME NEW wanted \in Wanted, Join(c, wanted) PROVE Same /\ Listed
    BY <1>5, <2>3 DEF Join, Members
  <2>4. CASE SendNow(c)
    BY <1>2, <2>4 DEF SendNow
  <2>5. CASE Unblock(c)
    BY <1>5, <2>5 DEF Unblock, Members
  <2>6. CASE StartServing(c)
    BY <1>5, <2>6 DEF StartServing, Members
  <2>7. CASE EndWrite(c)
    BY <1>5, <2>7 DEF EndWrite, Members
  <2>8. CASE ReaderEnds(c)
    BY <1>5, <2>8 DEF ReaderEnds, Members
  <2> QED BY <1>6, <1>7, <1>11, <2>1, <2>2, <2>3, <2>4, <2>5, <2>6, <2>7, <2>8 DEF HandlerStep
<1>12. ASSUME NEW c \in Conns, WriterStep(c) \/ WriterSends(c) PROVE Same /\ Listed
  BY <1>2, <1>12 DEF WriterStep, WriterTakes, WriterFails, WriterSends, connection
<1> QED BY <1>8, <1>9, <1>10, <1>11, <1>12 DEF Next

LEMMA TypeStep ==
  ASSUME TypeOK, SlotInv, [Next]_vars
  PROVE  TypeOK'
<1>0. active' \in Nat
  BY SlotStep, FS_CardinalityType DEF SlotInv
<1>1. CASE DeviceSays
  <2>1. Rx(chunks + 1) \in Message /\ chunks + 1 \in Nat /\ Append(pending, chunks + 1) \in Seq(Nat)
    BY MessageTypes DEF TypeOK
  <2>2. FanOutOK'
    BY <1>1, <2>1, ThreadTypes, StartFanOutTypes DEF DeviceSays
  <2> QED BY <1>0, <1>1, <2>1, <2>2 DEF DeviceSays, connection, delivery, TypeOK, FanOutOK
<1>2. ASSUME NEW t \in Threads, NEW c \in Conns, HandTo(t, c) PROVE TypeOK'
  <2>1. fanOut[t] \in [msg: Message, to: SUBSET Conns]
    BY DEF TypeOK
  <2>2. fanOut' = [fanOut EXCEPT ![t] = FanOut(fanOut[t].msg, fanOut[t].to \ {c})]
    BY <1>2 DEF HandTo
  <2>3. FanOutOK'
    <3>1. fanOut[t].msg \in Message /\ fanOut[t].to \ {c} \in SUBSET Conns
      BY <2>1
    <3> QED BY <2>2, <3>1, FanOutRecord DEF TypeOK, FanOutOK
  <2>4. CASE Fits(c)
    <3>1. QueueOK' /\ UNCHANGED <<clients, sock>>
      BY <1>2, <2>1, <2>4, PutTypes DEF HandTo
    <3> QED BY <1>0, <1>2, <2>3, <3>1 DEF HandTo, connection, device, TypeOK, QueueOK, FanOutOK
  <2>5. CASE ~Fits(c)
    <3>1. QueueOK' /\ sock' \in [Conns -> {"none", "open", "hungup", "closed"}]
          /\ clients' \in SUBSET Conns
      BY <1>2, <2>5, ShutdownTypes DEF HandTo, TypeOK
    <3> QED BY <1>0, <1>2, <2>3, <3>1 DEF HandTo, connection, device, TypeOK, QueueOK, FanOutOK
  <2> QED BY <2>4, <2>5
<1>3. ASSUME NEW ends \in BOOLEAN, LineEnds(ends) PROVE TypeOK'
  <2>1. CASE ends
    <3>1. replay \in Seq(Seq(Nat)) /\ pending \in Seq(Nat) /\ Len(replay) <= ReplayMax
      BY DEF TypeOK
    <3> DEFINE all == Append(replay, pending)
    <3>2. all \in Seq(Seq(Nat)) /\ Len(all) = Len(replay) + 1 /\ all # <<>>
      BY <3>1
    <3>3. Tail(all) \in Seq(Seq(Nat)) /\ Len(Tail(all)) = Len(all) - 1
      BY <3>2
    <3>4. replay' = IF Len(all) > ReplayMax THEN Tail(all) ELSE all
      BY <1>3, <2>1 DEF LineEnds
    <3>5. replay' \in Seq(Seq(Nat)) /\ Len(replay') <= ReplayMax
      BY <3>1, <3>2, <3>3, <3>4
    <3> QED BY <1>0, <1>3, <2>1, <3>5 DEF LineEnds, connection, delivery, TypeOK
  <2>2. CASE ~ends
    BY <1>0, <1>3, <2>2 DEF LineEnds, connection, delivery, TypeOK
  <2> QED BY <2>1, <2>2
<1>4. CASE BeginStop \/ StopTakesClients \/ StopEnds
  BY <1>0, <1>4 DEF BeginStop, StopTakesClients, StopEnds, connection, delivery, device, TypeOK
<1>5. ASSUME NEW c \in Conns, StopShutsDown(c) PROVE TypeOK'
  <2>1. QueueOK' /\ sock' \in [Conns -> {"none", "open", "hungup", "closed"}]
    BY <1>5, ShutdownTypes DEF StopShutsDown
  <2> QED BY <1>0, <1>5, <2>1 DEF StopShutsDown, connection, device, TypeOK, QueueOK
<1>6. ASSUME NEW c \in Conns, AcceptReturns(c) \/ HangUp(c) \/ RefuseFull(c) \/ Admit(c) \/ Unblock(c)
                              \/ ReaderEnds(c)
      PROVE  TypeOK'
  <2>1. CASE AcceptReturns(c) \/ HangUp(c) \/ RefuseFull(c)
    BY <1>0, <2>1, ZenonT(30) DEF AcceptReturns, HangUp, RefuseFull, delivery, connection, device, TypeOK
  <2>2. CASE Admit(c)
    BY <1>0, <2>2 DEF Admit, delivery, device, TypeOK
  <2>3. CASE Unblock(c)
    BY <1>0, <2>3 DEF Unblock, delivery, device, TypeOK
  <2>4. CASE ReaderEnds(c)
    BY <1>0, <2>4 DEF ReaderEnds, delivery, device, TypeOK
  <2> QED BY <1>6, <2>1, <2>2, <2>3, <2>4
<1>7. ASSUME NEW c \in Conns, Answer(c) PROVE TypeOK'
  <2>1. QueueOK'
    BY <1>7, MessageTypes, PutTypes DEF Answer
  <2> QED BY <1>0, <1>7, <2>1 DEF Answer, Request, device, TypeOK, QueueOK
<1>8. ASSUME NEW c \in Conns, BeginWrite(c) PROVE TypeOK'
  BY <1>0, <1>8 DEF BeginWrite, Request, delivery, device, TypeOK
<1>9. ASSUME NEW c \in Conns, NEW announced \in BOOLEAN, TurnAway(c, announced) PROVE TypeOK'
  <2>1. FanOutOK'
    BY <1>9, MessageTypes, ThreadTypes, StartFanOutTypes DEF TurnAway, TypeOK, FanOutOK
  <2> QED BY <1>0, <1>9, <2>1 DEF TurnAway, delivery, device, TypeOK, FanOutOK
<1>10. ASSUME NEW c \in Conns, EndWrite(c) PROVE TypeOK'
  <2>1. FanOutOK'
    BY <1>10, MessageTypes, ThreadTypes, StartFanOutTypes DEF EndWrite, TypeOK, FanOutOK
  <2> QED BY <1>0, <1>10, <2>1 DEF EndWrite, delivery, device, TypeOK, FanOutOK
<1>11. ASSUME NEW c \in Conns, NEW wanted \in Wanted, Join(c, wanted) PROVE TypeOK'
  <2>1. toSend' \in [Conns -> Seq(Message)]
    BY <1>11, JoinTypes
  <2> QED BY <1>0, <1>11, <2>1 DEF Join, device, TypeOK
<1>12. ASSUME NEW c \in Conns, SendNow(c) PROVE TypeOK'
  <2>1. toSend' \in [Conns -> Seq(Message)]
    BY <1>12 DEF SendNow, TypeOK
  <2> QED BY <1>0, <1>12, <2>1 DEF SendNow, delivery, device, TypeOK
<1>13. ASSUME NEW c \in Conns, StartServing(c) PROVE TypeOK'
  BY <1>0, <1>13 DEF StartServing, device, TypeOK
<1>14. ASSUME NEW c \in Conns, Leave(c) PROVE TypeOK'
  <2>1. QueueOK' /\ sock' \in [Conns -> {"none", "open", "hungup", "closed"}]
    BY <1>14, ShutdownTypes DEF Leave
  <2> QED BY <1>0, <1>14, <2>1 DEF Leave, device, TypeOK, QueueOK
<1>15. ASSUME NEW c \in Conns, Release(c) PROVE TypeOK'
  BY <1>0, <1>15 DEF Release, ForgetConnection, device, TypeOK
<1>16. ASSUME NEW c \in Conns, WriterTakes(c) PROVE TypeOK'
  <2>1. queue[c] \in Seq(Message) /\ queue[c] # <<>> /\ Len(queue[c]) <= QueueMax
    BY <1>16 DEF WriterTakes, TypeOK
  <2>2. Head(queue[c]) \in Message /\ Tail(queue[c]) \in Seq(Message)
        /\ Len(Tail(queue[c])) = Len(queue[c]) - 1
    BY <2>1
  <2>3. Len(Tail(queue[c])) <= QueueMax
    BY <2>1, <2>2
  <2> QED BY <1>0, <1>16, <2>2, <2>3 DEF WriterTakes, connection, device, TypeOK
<1>17. ASSUME NEW c \in Conns, WriterFails(c) PROVE TypeOK'
  BY <1>0, <1>17, MessageTypes DEF WriterFails, connection, device, TypeOK
<1>18. ASSUME NEW c \in Conns, WriterSends(c) PROVE TypeOK'
  <2>1. live' \in [Conns -> Nat]
    <3>1. CASE sending[c].kind = "rx"
      <4>1. sending[c].chunks \in Seq(Nat) /\ Len(sending[c].chunks) = 1
        BY <3>1 DEF TypeOK, Message
      <4>2. Head(sending[c].chunks) \in Nat
        BY <4>1
      <4> QED BY <1>18, <3>1, <4>2 DEF WriterSends, TypeOK
    <3>2. CASE sending[c].kind # "rx"
      BY <1>18, <3>2 DEF WriterSends, TypeOK
    <3> QED BY <3>1, <3>2
  <2> QED BY <1>0, <1>18, <2>1, MessageTypes DEF WriterSends, connection, device, TypeOK
<1>19. CASE UNCHANGED vars
  BY <1>0, <1>19 DEF vars, connection, delivery, device, TypeOK
<1> QED
  BY ThreadTypes, <1>1, <1>2, <1>3, <1>4, <1>5, <1>6, <1>7, <1>8, <1>9, <1>10, <1>11, <1>12, <1>13,
     <1>14, <1>15, <1>16, <1>17, <1>18, <1>19
     DEF Next, DeviceStep, StopStep, ClientStep, AcceptStep, HandlerStep, WriterStep

LEMMA SlotInvHolds == Spec => [](TypeOK /\ SlotInv)
<1>1. Init => TypeOK /\ SlotInv
  <2> SUFFICES ASSUME Init PROVE TypeOK /\ SlotInv
    OBVIOUS
  <2>1. TypeOK
    BY MessageTypes DEF Init, TypeOK, Idle, FanOut
  <2>2. Served = {}
    BY DEF Init, Served
  <2>3. IsFiniteSet({}) /\ Cardinality({}) = 0
    BY FS_EmptySet
  <2> QED BY <2>1, <2>2, <2>3 DEF Init, SlotInv
<1>2. TypeOK /\ SlotInv /\ [Next]_vars => (TypeOK /\ SlotInv)'
  BY TypeStep, SlotStep
<1> QED BY <1>1, <1>2, PTL DEF Spec

\* Type correctness, the length of the queues and of the history with it.
THEOREM TypeCorrect == Spec => []TypeOK
BY SlotInvHolds, PTL

\* S26, S40: the slots taken are those of the connections being served, never more than the
\* cap, and only these are listed as clients, whatever the fan-out drops and when.
THEOREM SlotsAreHeld == Spec => []SlotsHeldByTheServed
<1>1. TypeOK /\ SlotInv => SlotsHeldByTheServed
  BY DEF TypeOK, SlotInv, SlotsHeldByTheServed, Served, Members
<1> QED BY <1>1, SlotInvHolds, PTL
-----------------------------------------------------------------------------
(***************************************************************************)
(* What each thread is in the middle of: the read thread hands out the     *)
(* newest chunk, a handler a message that is no output; and nothing is on  *)
(* its way to a connection before it is authenticated.                     *)
(***************************************************************************)
Started == {"serving", "writing", "leaving", "releasing", "gone"}
NotYet  == {"away", "accepted", "authenticating"}

FanOutInv ==
  /\ reader = "reading" => ~Busy(Device)
  /\ Busy(Device) => chunks > 0 /\ fanOut[Device].msg = Rx(chunks)
  /\ \A t \in Conns : Busy(t) => fanOut[t].msg = Other
  /\ \A t \in Threads : \A c \in fanOut[t].to : pc[c] \notin NotYet

PlaceInv ==
  /\ \A c \in doomed : pc[c] \notin NotYet
  /\ \A c \in Conns :
       /\ toSend[c] # <<>> => pc[c] = "joining"
       /\ writer[c] # "none" => pc[c] \in Started
       /\ writer[c] # "sending" => sending[c] = Sentinel
       /\ pc[c] \in NotYet => queue[c] = <<>>

(***************************************************************************)
(* The live stream of a connection: what its writer holds, then its queue. *)
(***************************************************************************)
Live(msg, newest) == msg = Other \/ msg = Sentinel \/ \E n \in 1..newest : msg = Rx(n)

\* After what was sent; and before the chunk that is being handed out.
Fresh(c, n) == live[c] < n /\ (c \in fanOut[Device].to => n < chunks)

LiveInv(c) ==
  /\ live[c] <= chunks
  /\ c \in fanOut[Device].to => live[c] < chunks
  /\ Live(sending[c], chunks)
  /\ \A i \in DOMAIN queue[c] : Live(queue[c][i], chunks)
  /\ Ordered(queue[c])
  /\ \A n \in ChunksIn(queue[c]) : Fresh(c, n)
  /\ \A n \in ChunksOf(sending[c]) : Fresh(c, n) /\ \A m \in ChunksIn(queue[c]) : n < m

StreamsInv == \A c \in Conns : LiveInv(c)

(***************************************************************************)
(* The history is in order, and older than the line not ended yet.         *)
(***************************************************************************)
HistoryInv ==
  /\ Ordered(Lines(replay))
  /\ Increasing(pending)
  /\ \A a \in ChunksIn(Lines(replay)), b \in ChunksOf(Old(pending)) : a < b
  /\ ChunksIn(Lines(replay)) \subseteq 1..chunks
  /\ ChunksOf(Old(pending)) \subseteq 1..chunks

ReplayInv == \A c \in Conns : Ordered(toSend[c]) /\ ChunksIn(toSend[c]) \subseteq 0..live[c]

(***************************************************************************)
(* Nothing is missing for a connection that is still listened to.          *)
(***************************************************************************)
Receives(c) == pc[c] \in {"joining", "joined", "serving", "writing"} /\ sock[c] = "open"

Held(c) == ChunksOf(sending[c]) \union ChunksIn(queue[c])
             \union (IF c \in fanOut[Device].to THEN {chunks} ELSE {})

HolesInv ==
  /\ \A c \in clients : sock[c] = "open" => pc[c] # "leaving"
  /\ Subscribed => \A c \in Conns : Receives(c) => c \in clients /\ (live[c] + 1)..chunks \subseteq Held(c)
(* Chunks in messages, and the order they are in *)

LEMMA ChunksOfKinds ==
  /\ ChunksOf(Other) = {} /\ ChunksOf(Sentinel) = {}
  /\ Increasing(Other.chunks) /\ Increasing(Sentinel.chunks)
  /\ \A n : ChunksOf(Rx(n)) = {n} /\ Increasing(Rx(n).chunks) /\ Rx(n).kind = "rx" /\ Rx(n).chunks = <<n>>
  /\ \A line : ChunksOf(Old(line)) = {line[i] : i \in DOMAIN line} /\ Old(line).chunks = line
  /\ Other.kind # "rx" /\ Sentinel.kind # "rx" /\ Other # Sentinel
<1>1. DOMAIN <<>> = {}
  OBVIOUS
<1>2. \A n : DOMAIN <<n>> = {1} /\ <<n>>[1] = n
  OBVIOUS
<1>3. Other.chunks = <<>> /\ Sentinel.chunks = <<>> /\ \A n : Rx(n).chunks = <<n>>
  BY DEF Other, Sentinel, Rx
<1>4. ChunksOf(Other) = {} /\ ChunksOf(Sentinel) = {}
  BY <1>1, <1>3 DEF ChunksOf
<1>5. ASSUME NEW n PROVE ChunksOf(Rx(n)) = {n} /\ Increasing(Rx(n).chunks)
  <2>1. ChunksOf(Rx(n)) = {n}
    <3>1. DOMAIN Rx(n).chunks = {1} /\ Rx(n).chunks[1] = n
      BY <1>2, <1>3
    <3> QED BY <3>1 DEF ChunksOf
  <2>2. \A k, l \in {1} : ~(k < l)
    OBVIOUS
  <2>3. Increasing(<<n>>)
    BY <1>2, <2>2 DEF Increasing
  <2> QED BY <1>3, <2>1, <2>3
<1> QED BY <1>1, <1>3, <1>4, <1>5 DEF Other, Sentinel, Rx, Old, ChunksOf, Increasing

LEMMA ChunksOfNat ==
  ASSUME NEW msg \in Message
  PROVE  ChunksOf(msg) \subseteq Nat
<1>1. msg.chunks \in Seq(Nat)
  BY DEF Message
<1> QED BY <1>1 DEF ChunksOf

LEMMA ChunksInNat ==
  ASSUME NEW msgs \in Seq(Message)
  PROVE  ChunksIn(msgs) \subseteq Nat
<1>1. \A i \in DOMAIN msgs : msgs[i] \in Message
  OBVIOUS
<1> QED BY <1>1, ChunksOfNat DEF ChunksIn

LEMMA EmptyIsOrdered == Ordered(<<>>) /\ ChunksIn(<<>>) = {}
<1>1. DOMAIN <<>> = {}
  OBVIOUS
<1> QED BY <1>1 DEF Ordered, ChunksIn

LEMMA SingleIsOrdered ==
  ASSUME NEW msg, Increasing(msg.chunks)
  PROVE  Ordered(<<msg>>) /\ ChunksIn(<<msg>>) = ChunksOf(msg)
<1>1. DOMAIN <<msg>> = {1} /\ <<msg>>[1] = msg
  OBVIOUS
<1> QED BY <1>1 DEF Ordered, ChunksIn

\* Two runs of messages, the second newer than the first.
LEMMA OrderedConcat ==
  ASSUME NEW S, NEW first \in Seq(S), NEW second \in Seq(S)
  PROVE  /\ ChunksIn(first \o second) = ChunksIn(first) \union ChunksIn(second)
         /\ Ordered(first \o second) <=>
              /\ Ordered(first) /\ Ordered(second)
              /\ \A a \in ChunksIn(first), b \in ChunksIn(second) : a < b
<1> DEFINE all == first \o second
           n == Len(first)
           m == Len(second)
<1>1. n \in Nat /\ m \in Nat /\ DOMAIN first = 1..n /\ DOMAIN second = 1..m /\ DOMAIN all = 1..(n + m)
  OBVIOUS
<1>2. \A i \in 1..n : i \in 1..(n + m) /\ all[i] = first[i]
  BY <1>1
<1>3. \A i \in 1..m : n + i \in 1..(n + m) /\ all[n + i] = second[i]
  BY <1>1
<1>4. \A i \in 1..(n + m) : i \in 1..n \/ \E j \in 1..m : i = n + j
  <2> SUFFICES ASSUME NEW i \in 1..(n + m), i \notin 1..n PROVE \E j \in 1..m : i = n + j
    OBVIOUS
  <2>1. i - n \in 1..m /\ i = n + (i - n)
    BY <1>1
  <2> QED BY <2>1
<1> HIDE DEF all, n, m
<1>5. ChunksIn(all) = ChunksIn(first) \union ChunksIn(second)
  <2>1. ASSUME NEW x \in ChunksIn(all) PROVE x \in ChunksIn(first) \union ChunksIn(second)
    <3>1. PICK i \in 1..(n + m) : x \in ChunksOf(all[i])
      BY <1>1, <2>1 DEF ChunksIn
    <3> QED BY <1>1, <1>2, <1>3, <1>4, <3>1 DEF ChunksIn
  <2>2. ASSUME NEW x \in ChunksIn(first) PROVE x \in ChunksIn(all)
    BY <1>1, <1>2, <2>2 DEF ChunksIn
  <2>3. ASSUME NEW x \in ChunksIn(second) PROVE x \in ChunksIn(all)
    BY <1>1, <1>3, <2>3 DEF ChunksIn
  <2> QED BY <2>1, <2>2, <2>3
<1>6. ASSUME Ordered(all)
      PROVE  /\ Ordered(first) /\ Ordered(second)
             /\ \A a \in ChunksIn(first), b \in ChunksIn(second) : a < b
  <2>0. /\ \A i \in 1..(n + m) : Increasing(all[i].chunks)
        /\ \A i, j \in 1..(n + m) : i < j => \A a \in ChunksOf(all[i]), b \in ChunksOf(all[j]) : a < b
    BY <1>1, <1>6 DEF Ordered
  <2>1. Ordered(first)
    BY <1>1, <1>2, <2>0 DEF Ordered
  <2>2. Ordered(second)
    <3>1. \A i, j \in 1..m : i < j => n + i < n + j
      BY <1>1
    <3> QED BY <1>1, <1>3, <2>0, <3>1 DEF Ordered
  <2>3. \A i \in 1..n, j \in 1..m : i < n + j
    BY <1>1
  <2>4. \A a \in ChunksIn(first), b \in ChunksIn(second) : a < b
    BY <1>1, <1>2, <1>3, <2>0, <2>3 DEF ChunksIn
  <2> QED BY <2>1, <2>2, <2>4
<1>7. ASSUME Ordered(first), Ordered(second), \A a \in ChunksIn(first), b \in ChunksIn(second) : a < b
      PROVE  Ordered(all)
  <2>1. ASSUME NEW i \in 1..(n + m) PROVE Increasing(all[i].chunks)
    <3>1. CASE i \in 1..n
      BY <1>1, <1>2, <1>7, <3>1 DEF Ordered
    <3>2. CASE i \notin 1..n
      <4>1. PICK k \in 1..m : i = n + k
        BY <1>4, <3>2
      <4>2. all[i] = second[k]
        BY <1>3, <4>1
      <4> QED BY <1>1, <1>7, <4>2 DEF Ordered
    <3> QED BY <3>1, <3>2
  <2>2. ASSUME NEW i \in 1..(n + m), NEW j \in 1..(n + m), i < j,
               NEW a \in ChunksOf(all[i]), NEW b \in ChunksOf(all[j])
        PROVE  a < b
    <3>1. CASE j \in 1..n
      <4>1. i \in 1..n
        BY <1>1, <2>2, <3>1
      <4> QED BY <1>1, <1>2, <1>7, <2>2, <3>1, <4>1 DEF Ordered
    <3>2. CASE i \in 1..n /\ j \notin 1..n
      <4>1. PICK k \in 1..m : j = n + k
        BY <1>4, <3>2
      <4>2. all[j] = second[k] /\ all[i] = first[i]
        BY <1>2, <1>3, <3>2, <4>1
      <4>3. a \in ChunksIn(first) /\ b \in ChunksIn(second)
        BY <1>1, <2>2, <3>2, <4>2 DEF ChunksIn
      <4> QED BY <1>7, <4>3
    <3>3. CASE i \notin 1..n
      <4>1. PICK k \in 1..m : i = n + k
        BY <1>4, <3>3
      <4>2. j \notin 1..n
        BY <1>1, <2>2, <4>1
      <4>3. PICK l \in 1..m : j = n + l
        BY <1>4, <4>2
      <4>4. k < l
        BY <1>1, <2>2, <4>1, <4>3
      <4> QED BY <1>1, <1>3, <1>7, <2>2, <4>1, <4>3, <4>4 DEF Ordered
    <3> QED BY <3>1, <3>2, <3>3
  <2> QED BY <1>1, <2>1, <2>2 DEF Ordered
<1> QED BY <1>5, <1>6, <1>7 DEF all

LEMMA OrderedAppend ==
  ASSUME NEW S, NEW msgs \in Seq(S), NEW msg \in S, Increasing(msg.chunks)
  PROVE  /\ ChunksIn(Append(msgs, msg)) = ChunksIn(msgs) \union ChunksOf(msg)
         /\ Ordered(Append(msgs, msg)) <=>
              Ordered(msgs) /\ \A a \in ChunksIn(msgs), b \in ChunksOf(msg) : a < b
<1>1. Append(msgs, msg) = msgs \o <<msg>> /\ <<msg>> \in Seq(S)
  OBVIOUS
<1>2. Ordered(<<msg>>) /\ ChunksIn(<<msg>>) = ChunksOf(msg)
  BY SingleIsOrdered
<1>3. /\ ChunksIn(msgs \o <<msg>>) = ChunksIn(msgs) \union ChunksIn(<<msg>>)
      /\ Ordered(msgs \o <<msg>>) <=>
           /\ Ordered(msgs) /\ Ordered(<<msg>>)
           /\ \A a \in ChunksIn(msgs), b \in ChunksIn(<<msg>>) : a < b
  BY <1>1, OrderedConcat
<1> QED BY <1>1, <1>2, <1>3

LEMMA OrderedHeadTail ==
  ASSUME NEW S, NEW msgs \in Seq(S), msgs # <<>>
  PROVE  /\ Head(msgs) \in S /\ Tail(msgs) \in Seq(S)
         /\ ChunksIn(msgs) = ChunksOf(Head(msgs)) \union ChunksIn(Tail(msgs))
         /\ Ordered(msgs) => /\ Increasing(Head(msgs).chunks) /\ Ordered(Tail(msgs))
                             /\ \A a \in ChunksOf(Head(msgs)), b \in ChunksIn(Tail(msgs)) : a < b
<1>1. Head(msgs) \in S /\ Tail(msgs) \in Seq(S) /\ <<Head(msgs)>> \in Seq(S)
  OBVIOUS
<1>2. msgs = <<Head(msgs)>> \o Tail(msgs)
  OBVIOUS
<1>3. DOMAIN <<Head(msgs)>> = {1} /\ <<Head(msgs)>>[1] = Head(msgs)
  OBVIOUS
<1>4. ChunksIn(<<Head(msgs)>>) = ChunksOf(Head(msgs))
  BY <1>3 DEF ChunksIn
<1>5. Ordered(<<Head(msgs)>>) => Increasing(Head(msgs).chunks)
  BY <1>3 DEF Ordered
<1>6. ChunksIn(msgs) = ChunksIn(<<Head(msgs)>>) \union ChunksIn(Tail(msgs))
  BY <1>1, <1>2, OrderedConcat
<1>7. Ordered(msgs) => /\ Ordered(<<Head(msgs)>>) /\ Ordered(Tail(msgs))
                       /\ \A a \in ChunksIn(<<Head(msgs)>>), b \in ChunksIn(Tail(msgs)) : a < b
  <2>1. Ordered(<<Head(msgs)>> \o Tail(msgs)) => 
             /\ Ordered(<<Head(msgs)>>) /\ Ordered(Tail(msgs))
             /\ \A a \in ChunksIn(<<Head(msgs)>>), b \in ChunksIn(Tail(msgs)) : a < b
    BY <1>1, OrderedConcat
  <2> QED BY <1>2, <2>1
<1> QED BY <1>1, <1>4, <1>5, <1>6, <1>7

\* The end of an ordered run is ordered.
LEMMA OrderedEnd ==
  ASSUME NEW S, NEW msgs \in Seq(S), Ordered(msgs), NEW k \in 0..Len(msgs)
  PROVE  /\ SubSeq(msgs, k + 1, Len(msgs)) \in Seq(S)
         /\ Ordered(SubSeq(msgs, k + 1, Len(msgs)))
         /\ ChunksIn(SubSeq(msgs, k + 1, Len(msgs))) \subseteq ChunksIn(msgs)
<1> DEFINE end == SubSeq(msgs, k + 1, Len(msgs))
           n == Len(msgs)
<1>1. n \in Nat /\ DOMAIN msgs = 1..n /\ \A i \in 1..n : msgs[i] \in S
  OBVIOUS
<1>2. \A i \in k + 1 .. n : msgs[i] \in S
  BY <1>1
<1>3. end \in Seq(S) /\ Len(end) = n - k /\ \A i \in 1..(n - k) : end[i] = msgs[k + i]
  <2>1. /\ end \in Seq(S) /\ Len(end) = IF k + 1 <= n THEN n - (k + 1) + 1 ELSE 0
        /\ \A i \in 1 .. n - (k + 1) + 1 : end[i] = msgs[(k + 1) + i - 1]
    BY <1>1, <1>2, SubSeqProperties
  <2>2. k \in Nat /\ k <= n
    BY <1>1
  <2>3. n - (k + 1) + 1 = n - k
    BY <1>1, <2>2
  <2>4. ASSUME NEW i \in 1..(n - k) PROVE end[i] = msgs[k + i]
    <3>1. (k + 1) + i - 1 = k + i
      BY <2>2
    <3> QED BY <2>1, <2>3, <3>1
  <2>5. Len(end) = n - k
    <3> HIDE DEF end, n
    <3> QED BY <1>1, <2>1, <2>2, <2>3
  <2>6. end \in Seq(S)
    BY <2>1
  <2> HIDE DEF end, n
  <2> QED BY <2>4, <2>5, <2>6
<1>4. DOMAIN end = 1..(n - k)
  BY <1>3
<1>5. \A i \in 1..(n - k) : k + i \in 1..n
  BY <1>1
<1>6. \A i, j \in 1..(n - k) : i < j => k + i < k + j
  BY <1>1
<1> HIDE DEF end, n
<1>7. Ordered(end)
  BY <1>1, <1>3, <1>4, <1>5, <1>6 DEF Ordered
<1>8. ChunksIn(end) \subseteq ChunksIn(msgs)
  BY <1>1, <1>3, <1>4, <1>5 DEF ChunksIn
<1> QED BY <1>3, <1>7, <1>8 DEF end, n
-----------------------------------------------------------------------------
(* A connection does not go back, and where a step leaves what is on its way to it *)

LEMMA PcSteps ==
  ASSUME TypeOK, [Next]_vars, NEW c \in Conns
  PROVE  /\ pc'[c] \in NotYet => pc[c] \in NotYet
         /\ pc[c] \in Started => pc'[c] \in Started
<1> USE DEF NotYet, Started
<1>0. pc \in [Conns -> {"away", "accepted", "authenticating", "joining", "joined", "serving",
                        "writing", "leaving", "releasing", "gone"}]
  BY DEF TypeOK
<1>1. ASSUME pc' = pc PROVE (pc'[c] \in NotYet => pc[c] \in NotYet) /\ (pc[c] \in Started => pc'[c] \in Started)
  BY <1>1
<1>2. CASE DeviceSays \/ DeviceStep \/ BeginStop \/ StopStep \/ UNCHANGED vars
  BY <1>1, <1>2 DEF DeviceSays, DeviceStep, HandTo, LineEnds, BeginStop, StopStep, StopTakesClients,
     StopEnds, StopShutsDown, connection, vars
<1>3. ASSUME NEW d \in Conns, ClientStep(d) \/ AcceptStep(d) \/ WriterStep(d) \/ WriterSends(d)
      PROVE  (pc'[c] \in NotYet => pc[c] \in NotYet) /\ (pc[c] \in Started => pc'[c] \in Started)
  <2>1. CASE HangUp(d) \/ Answer(d) \/ WriterStep(d) \/ WriterSends(d)
    BY <1>1, <2>1 DEF HangUp, Answer, WriterStep, WriterTakes, WriterFails, WriterSends, connection
  <2>2. CASE AcceptReturns(d) \/ BeginWrite(d) \/ RefuseFull(d) \/ Admit(d)
    BY <1>0, <2>2 DEF AcceptReturns, BeginWrite, Request, RefuseFull, Admit
  <2> QED BY <1>3, <2>1, <2>2 DEF ClientStep, AcceptStep
<1>4. ASSUME NEW d \in Conns, HandlerStep(d)
      PROVE  (pc'[c] \in NotYet => pc[c] \in NotYet) /\ (pc[c] \in Started => pc'[c] \in Started)
  <2>1. CASE (\E e \in Conns : HandTo(d, e)) \/ SendNow(d)
    BY <1>1, <2>1 DEF HandTo, SendNow, connection
  <2>2. CASE (\E announced \in BOOLEAN : TurnAway(d, announced)) \/ \E wanted \in Wanted : Join(d, wanted)
    BY <1>0, <2>2 DEF TurnAway, Join
  <2>3. CASE Unblock(d) \/ StartServing(d) \/ EndWrite(d)
    BY <1>0, <2>3 DEF Unblock, StartServing, EndWrite
  <2>4. CASE ReaderEnds(d) \/ Leave(d) \/ Release(d)
    BY <1>0, <2>4 DEF ReaderEnds, Leave, Release
  <2> QED BY <1>4, <2>1, <2>2, <2>3, <2>4 DEF HandlerStep
<1> QED BY <1>2, <1>3, <1>4 DEF Next

\* A fan-out that begins.
LEMMA Begins ==
  ASSUME TypeOK, NEW t \in Threads, NEW msg \in Message, NEW skip, StartFanOut(t, msg, skip)
  PROVE  /\ fanOut'[t].to = IF Subscribed THEN clients \ skip ELSE {}
         /\ fanOut'[t].to # {} => fanOut'[t].msg = msg
         /\ \A u \in Threads \ {t} : fanOut'[u] = fanOut[u]
<1>1. (IF Subscribed THEN clients \ skip ELSE {}) \in SUBSET Conns
  BY DEF TypeOK
<1> QED BY <1>1 DEF StartFanOut, TypeOK, FanOut

\* A client less to hand it to.
LEMMA Proceeds ==
  ASSUME TypeOK, NEW t \in Threads, NEW d \in Conns, HandTo(t, d)
  PROVE  /\ fanOut'[t].to = fanOut[t].to \ {d}
         /\ fanOut'[t].to # {} => fanOut'[t].msg = fanOut[t].msg
         /\ \A u \in Threads \ {t} : fanOut'[u] = fanOut[u]
BY DEF HandTo, TypeOK, FanOut

LEMMA FanOutStep ==
  ASSUME TypeOK, SlotInv, FanOutInv, [Next]_vars
  PROVE  FanOutInv'
<1>0. clients \subseteq Conns /\ \A c \in clients : pc[c] \notin NotYet
  BY DEF TypeOK, SlotInv, Members, NotYet
<1>1. \A c \in Conns : pc[c] \notin NotYet => pc'[c] \notin NotYet
  BY PcSteps
<1>2. \A t \in Threads : fanOut[t].to \subseteq Conns
  BY DEF TypeOK
<1>3. ASSUME UNCHANGED <<fanOut, chunks>>, reader' = reader \/ ~Busy(Device) PROVE FanOutInv'
  BY <1>1, <1>2, <1>3 DEF FanOutInv, Busy
<1>4. CASE DeviceSays
  <2>1. reader' = "publishing" /\ chunks' = chunks + 1 /\ StartFanOut(Device, Rx(chunks + 1), {})
    BY <1>4 DEF DeviceSays
  <2>2. chunks \in Nat /\ Rx(chunks + 1) \in Message
    BY MessageTypes DEF TypeOK
  <2>3. /\ fanOut'[Device].to \subseteq clients
        /\ fanOut'[Device].to # {} => fanOut'[Device].msg = Rx(chunks + 1)
        /\ \A u \in Threads \ {Device} : fanOut'[u] = fanOut[u]
    <3>1. /\ fanOut'[Device].to = IF Subscribed THEN clients \ {} ELSE {}
          /\ fanOut'[Device].to # {} => fanOut'[Device].msg = Rx(chunks + 1)
          /\ \A u \in Threads \ {Device} : fanOut'[u] = fanOut[u]
      BY <2>1, <2>2, ThreadTypes, Begins
    <3> QED BY <3>1
  <2>4. chunks + 1 > 0
    BY <2>2
  <2>5. Busy(Device)' => chunks' > 0 /\ fanOut'[Device].msg = Rx(chunks')
    BY <2>1, <2>3, <2>4 DEF Busy
  <2>6. \A t \in Conns : Busy(t)' => fanOut'[t].msg = Other
    BY <2>3, ThreadTypes DEF Busy, FanOutInv
  <2>7. \A t \in Threads : \A c \in fanOut'[t].to : pc'[c] \notin NotYet
    BY <1>0, <1>1, <1>2, <2>3 DEF FanOutInv
  <2> QED BY <2>1, <2>5, <2>6, <2>7 DEF FanOutInv, Rx
<1>5. ASSUME NEW t \in Threads, NEW d \in Conns, HandTo(t, d) PROVE FanOutInv'
  <2>1. UNCHANGED <<chunks, reader>>
    BY <1>5 DEF HandTo, device
  <2>2. /\ fanOut'[t].to \subseteq fanOut[t].to
        /\ fanOut'[t].to # {} => fanOut'[t].msg = fanOut[t].msg
        /\ \A u \in Threads \ {t} : fanOut'[u] = fanOut[u]
    BY <1>5, Proceeds
  <2>3. \A u \in Threads : Busy(u)' => Busy(u) /\ fanOut'[u].msg = fanOut[u].msg
    BY <2>2 DEF Busy
  <2>4. \A u \in Threads : \A c \in fanOut'[u].to : pc'[c] \notin NotYet
    BY <1>1, <1>2, <2>2 DEF FanOutInv
  <2> QED BY <2>1, <2>3, <2>4, ThreadTypes DEF FanOutInv, Rx
<1>6. ASSUME NEW t \in Conns, NEW skip, StartFanOut(t, Other, skip), UNCHANGED <<chunks, reader>>
      PROVE  FanOutInv'
  <2>1. /\ fanOut'[t].to \subseteq clients
        /\ fanOut'[t].to # {} => fanOut'[t].msg = Other
        /\ \A u \in Threads \ {t} : fanOut'[u] = fanOut[u]
    BY <1>6, ThreadTypes, MessageTypes, Begins, ZenonT(30)
  <2>2. Device # t /\ Device \in Threads
    BY ThreadTypes
  <2>3. \A u \in Conns : Busy(u)' => fanOut'[u].msg = Other
    BY <2>1, ThreadTypes DEF Busy, FanOutInv
  <2>4. \A u \in Threads : \A c \in fanOut'[u].to : pc'[c] \notin NotYet
    BY <1>0, <1>1, <1>2, <2>1 DEF FanOutInv
  <2> QED BY <1>6, <2>1, <2>2, <2>3, <2>4 DEF FanOutInv, Busy, Rx
<1>7. CASE DeviceStep \/ BeginStop \/ StopStep \/ UNCHANGED vars
  BY <1>3, <1>5, <1>7, ThreadTypes DEF DeviceStep, LineEnds, BeginStop, StopStep, StopTakesClients, StopEnds,
     StopShutsDown, device, vars
<1>8. ASSUME NEW d \in Conns, ClientStep(d) \/ AcceptStep(d) \/ WriterStep(d) \/ WriterSends(d)
      PROVE  FanOutInv'
  BY <1>3, <1>8 DEF ClientStep, AcceptReturns, HangUp, Answer, BeginWrite, AcceptStep, RefuseFull, Admit,
     WriterStep, WriterTakes, WriterFails, WriterSends, device
<1>9. ASSUME NEW d \in Conns, HandlerStep(d) PROVE FanOutInv'
  <2>1. CASE \E e \in Conns : HandTo(d, e)
    BY <1>5, <2>1, ThreadTypes
  <2>2. CASE \E announced \in BOOLEAN : TurnAway(d, announced)
    BY <1>3, <1>6, <2>2 DEF TurnAway, device
  <2>3. CASE EndWrite(d)
    BY <1>3, <1>6, <2>3 DEF EndWrite, device
  <2>4. CASE (\E wanted \in Wanted : Join(d, wanted)) \/ SendNow(d) \/ Unblock(d) \/ StartServing(d)
             \/ ReaderEnds(d) \/ Leave(d) \/ Release(d)
    BY <1>3, <2>4 DEF Join, SendNow, Unblock, StartServing, ReaderEnds, Leave, Release, device
  <2> QED BY <1>9, <2>1, <2>2, <2>3, <2>4 DEF HandlerStep
<1> QED BY <1>4, <1>7, <1>8, <1>9 DEF Next

LEMMA PlaceStep ==
  ASSUME TypeOK, SlotInv, FanOutInv, PlaceInv, [Next]_vars
  PROVE  PlaceInv'
<1> DEFINE Placed(c) ==
             /\ toSend[c] # <<>> => pc[c] = "joining"
             /\ writer[c] # "none" => pc[c] \in Started
             /\ writer[c] # "sending" => sending[c] = Sentinel
             /\ pc[c] \in NotYet => queue[c] = <<>>
<1>0. /\ pc \in [Conns -> {"away", "accepted", "authenticating", "joining", "joined", "serving",
                           "writing", "leaving", "releasing", "gone"}]
      /\ queue \in [Conns -> Seq(Message)] /\ toSend \in [Conns -> Seq(Message)]
      /\ sending \in [Conns -> Message] /\ DOMAIN writer = Conns
      /\ writer \in [Conns -> {"none", "idle", "sending", "ended"}]
  BY DEF TypeOK
<1>1. \A c \in Conns : Placed(c)
  BY DEF PlaceInv
<1>2. \A c \in doomed' : pc'[c] \notin NotYet
  <2>1. doomed' \subseteq doomed \union clients
    BY DEF Next, DeviceSays, DeviceStep, HandTo, LineEnds, BeginStop, StopStep, StopTakesClients, StopEnds, StopShutsDown,
       ClientStep, AcceptReturns, HangUp, Answer, BeginWrite, AcceptStep, RefuseFull, Admit, HandlerStep,
       TurnAway, Join, SendNow, Unblock, StartServing, EndWrite, ReaderEnds, Leave, Release, WriterStep,
       WriterTakes, WriterFails, WriterSends, vars
  <2>2. doomed \subseteq Conns /\ clients \subseteq Conns
    BY DEF TypeOK
  <2> QED BY <2>1, <2>2, PcSteps DEF PlaceInv, SlotInv, Members, NotYet
<1>3. SUFFICES ASSUME NEW c \in Conns PROVE Placed(c)'
  BY <1>2 DEF PlaceInv
<1>4. Placed(c) /\ (pc'[c] \in NotYet => pc[c] \in NotYet) /\ (pc[c] \in Started => pc'[c] \in Started)
  BY <1>1, PcSteps
<1>5. ASSUME UNCHANGED <<toSend, pc, writer, sending>>, NEW d \in Conns, pc[d] \notin NotYet,
             \A e \in Conns \ {d} : queue'[e] = queue[e]
      PROVE  Placed(c)'
  BY <1>4, <1>5
<1>6. ASSUME UNCHANGED <<queue, toSend, writer, sending>>,
             pc[c] = "joining" => toSend[c] = <<>> \/ pc'[c] = "joining"
      PROVE  Placed(c)'
  BY <1>4, <1>6
<1>7. ASSUME NEW t \in Threads, NEW d \in Conns, HandTo(t, d) PROVE Placed(c)'
  <2>1. pc[d] \notin NotYet
    BY <1>7 DEF HandTo, FanOutInv
  <2>2. \A e \in Conns \ {d} : queue'[e] = queue[e]
    BY <1>0, <1>7 DEF HandTo, Put, Shutdown
  <2> QED BY <1>5, <1>7, <2>1, <2>2 DEF HandTo, connection
<1>8. CASE DeviceSays \/ BeginStop \/ StopTakesClients \/ StopEnds \/ (\E ends \in BOOLEAN : LineEnds(ends))
           \/ UNCHANGED vars
  BY <1>6, <1>8 DEF DeviceSays, BeginStop, StopTakesClients, StopEnds, LineEnds, connection, delivery, vars
<1>9. ASSUME NEW d \in Conns, StopShutsDown(d) PROVE Placed(c)'
  BY <1>0, <1>5, <1>9 DEF StopShutsDown, PlaceInv, Shutdown, connection
<1>10. ASSUME NEW d \in Conns, ClientStep(d) \/ AcceptStep(d) PROVE Placed(c)'
  <2>1. CASE Answer(d)
    BY <1>0, <1>5, <2>1 DEF Answer, Request, Put, NotYet
  <2>2. CASE HangUp(d) \/ AcceptReturns(d) \/ BeginWrite(d) \/ RefuseFull(d) \/ Admit(d)
    BY <1>0, <1>6, <2>2 DEF AcceptReturns, HangUp, BeginWrite, Request, RefuseFull, Admit, connection, delivery
  <2> QED BY <1>10, <2>1, <2>2 DEF ClientStep, AcceptStep
<1>11. ASSUME NEW d \in Conns, WriterTakes(d) PROVE Placed(c)'
  <2>1. queue[d] # <<>> /\ \A e \in Conns \ {d} : queue'[e] = queue[e]
    BY <1>0, <1>11 DEF WriterTakes
  <2>2. UNCHANGED <<pc, toSend>> /\ writer[d] = "idle"
        /\ sending' = [sending EXCEPT ![d] = Head(queue[d])]
        /\ writer' = [writer EXCEPT ![d] = IF Head(queue[d]) = Sentinel THEN "ended" ELSE "sending"]
    BY <1>11 DEF WriterTakes, connection
  <2>3. writer'[c] # "sending" => sending'[c] = Sentinel
    BY <1>0, <1>4, <2>2
  <2> QED BY <1>0, <1>1, <1>4, <2>1, <2>2, <2>3 DEF NotYet, Started
<1>12. ASSUME NEW d \in Conns, WriterFails(d) \/ WriterSends(d) PROVE Placed(c)'
  <2>1. UNCHANGED <<pc, toSend>> /\ sending' = [sending EXCEPT ![d] = Sentinel]
        /\ (writer' = [writer EXCEPT ![d] = "idle"] \/ writer' = [writer EXCEPT ![d] = "ended"])
        /\ writer[d] = "sending"
        /\ (queue' = queue \/ queue' = [queue EXCEPT ![d] = <<>>])
    BY <1>12 DEF WriterFails, WriterSends, connection
  <2> QED BY <1>0, <1>1, <1>4, <2>1
<1>13. ASSUME NEW d \in Conns, HandlerStep(d) PROVE Placed(c)'
  <2>1. CASE \E e \in Conns : HandTo(d, e)
    BY <1>7, <2>1, ThreadTypes
  <2>2. CASE (\E announced \in BOOLEAN : TurnAway(d, announced)) \/ Unblock(d) \/ EndWrite(d) \/ ReaderEnds(d)
    BY <1>0, <1>6, <2>2 DEF TurnAway, Unblock, EndWrite, ReaderEnds, delivery
  <2>3. CASE \E wanted \in Wanted : Join(d, wanted)
    <3>1. /\ pc[d] = "authenticating" /\ pc' = [pc EXCEPT ![d] = "joining"]
          /\ UNCHANGED <<queue, writer, sending>> /\ \A e \in Conns \ {d} : toSend'[e] = toSend[e]
      BY <1>0, <2>3 DEF Join
    <3> QED BY <1>0, <1>1, <1>4, <3>1 DEF NotYet, Started
  <2>4. CASE SendNow(d)
    BY <1>0, <1>4, <2>4 DEF SendNow, delivery
  <2>5. CASE StartServing(d)
    BY <1>0, <1>1, <1>4, <2>5 DEF StartServing, Started
  <2>6. CASE Leave(d)
    <3>1. /\ pc[d] = "leaving" /\ pc' = [pc EXCEPT ![d] = "releasing"] /\ UNCHANGED <<toSend, writer, sending>>
          /\ \A e \in Conns \ {d} : queue'[e] = queue[e]
      BY <1>0, <2>6 DEF Leave, Shutdown
    <3> QED BY <1>0, <1>1, <1>4, <3>1 DEF NotYet, Started
  <2>7. CASE Release(d)
    <3>1. /\ pc[d] = "releasing" /\ pc' = [pc EXCEPT ![d] = "gone"] /\ UNCHANGED <<toSend, writer, sending>>
          /\ (queue' = queue \/ queue' = [queue EXCEPT ![d] = <<>>])
      BY <1>0, <2>7 DEF Release, ForgetConnection
    <3> QED BY <1>0, <1>1, <1>4, <3>1 DEF NotYet, Started
  <2> QED BY <1>13, <2>1, <2>2, <2>3, <2>4, <2>5, <2>6, <2>7 DEF HandlerStep
<1> QED BY <1>7, <1>8, <1>9, <1>10, <1>11, <1>12, <1>13, ThreadTypes DEF Next, DeviceStep, StopStep, WriterStep

(***************************************************************************)
(* How a step leaves the live stream of a connection.                      *)
(***************************************************************************)
HandedTo(c) == c \in fanOut[Device].to

\* Not at all; or the fan-out passes it by, because its queue was full.
Unmoved(c) ==
  /\ queue'[c] = queue[c] /\ sending'[c] = sending[c] /\ live'[c] = live[c] /\ chunks' = chunks
  /\ HandedTo(c)' => HandedTo(c)
  /\ HandedTo(c) => HandedTo(c)' \/ sock'[c] = "closed"

\* A chunk is there to be handed out.
Announced(c) ==
  /\ queue'[c] = queue[c] /\ sending'[c] = sending[c] /\ live'[c] = live[c] /\ chunks' = chunks + 1
  /\ ~HandedTo(c)
  /\ c \in clients /\ Subscribed => HandedTo(c)'

QueuedLast(c, msg) ==
  /\ queue'[c] = Append(queue[c], msg) /\ sending'[c] = sending[c] /\ live'[c] = live[c] /\ chunks' = chunks
  /\ \/ msg \in {Other, Sentinel} /\ HandedTo(c)' = HandedTo(c)
     \/ msg = Rx(chunks) /\ HandedTo(c) /\ ~HandedTo(c)'

Taken(c) ==
  /\ queue[c] # <<>> /\ queue'[c] = Tail(queue[c]) /\ sending[c] = Sentinel /\ sending'[c] = Head(queue[c])
  /\ live'[c] = live[c] /\ chunks' = chunks /\ HandedTo(c)' = HandedTo(c)

Sent(c) ==
  /\ queue'[c] = queue[c] /\ sending'[c] = Sentinel /\ chunks' = chunks /\ HandedTo(c)' = HandedTo(c)
  /\ live'[c] = IF sending[c].kind = "rx" THEN Head(sending[c].chunks) ELSE live[c]

\* The connection failed, or it is over.
Lost(c) ==
  /\ queue'[c] \in {queue[c], <<>>} /\ chunks' = chunks /\ HandedTo(c)' = HandedTo(c)
  /\ \/ sending'[c] = Sentinel /\ live'[c] = live[c] /\ sock'[c] # "open"
     \/ sending'[c] = sending[c] /\ live'[c] = 0 /\ pc'[c] = "gone"

Joined(c) ==
  /\ queue[c] = <<>> /\ queue'[c] = <<>> /\ sending[c] = Sentinel /\ sending'[c] = Sentinel
  /\ live'[c] = chunks /\ chunks' = chunks /\ ~HandedTo(c) /\ ~HandedTo(c)'
  /\ c \in clients' /\ Subscribed' = Subscribed

StreamStep(c) ==
  \/ Unmoved(c) \/ Announced(c) \/ (\E msg \in Message : QueuedLast(c, msg))
  \/ Taken(c) \/ Sent(c) \/ Lost(c) \/ Joined(c)

LEMMA ShutdownSteps ==
  ASSUME TypeOK, NEW d \in Conns, Shutdown({d}), UNCHANGED <<sending, live, chunks, fanOut>>,
         NEW c \in Conns
  PROVE  StreamStep(c)
<1>1. queue \in [Conns -> Seq(Message)] /\ sending \in [Conns -> Message]
  BY DEF TypeOK
<1>2. CASE c = d /\ Fits(d)
  <2>1. QueuedLast(c, Sentinel)
    BY <1>1, <1>2 DEF Shutdown, QueuedLast, HandedTo
  <2> QED BY <2>1, MessageTypes DEF StreamStep
<1>3. CASE ~(c = d /\ Fits(d))
  BY <1>1, <1>3 DEF Shutdown, StreamStep, Unmoved, HandedTo
<1> QED BY <1>2, <1>3

LEMMA HandToSteps ==
  ASSUME TypeOK, FanOutInv, NEW t \in Threads, NEW d \in Conns, HandTo(t, d), NEW c \in Conns
  PROVE  StreamStep(c)
<1>1. queue \in [Conns -> Seq(Message)] /\ sending \in [Conns -> Message]
      /\ fanOut[t].msg \in Message
  BY DEF TypeOK
<1>2. /\ d \in fanOut[t].to /\ fanOut'[t].to = fanOut[t].to \ {d}
      /\ \A u \in Threads \ {t} : fanOut'[u] = fanOut[u]
      /\ UNCHANGED <<sending, live, chunks>>
  BY Proceeds DEF HandTo, device
<1>3. CASE Fits(d) /\ c = d
  <2>1. queue'[c] = Append(queue[c], fanOut[t].msg)
    BY <1>1, <1>2, <1>3 DEF HandTo, Put
  <2>2. CASE t = Device
    <3>1. fanOut[t].msg = Rx(chunks) /\ HandedTo(c) /\ ~HandedTo(c)'
      BY <1>2, <1>3, <2>2 DEF FanOutInv, Busy, HandedTo
    <3>2. QueuedLast(c, fanOut[t].msg)
      BY <1>2, <2>1, <3>1 DEF QueuedLast
    <3> QED BY <1>1, <3>2 DEF StreamStep
  <2>3. CASE t # Device
    <3>1. fanOut[t].msg = Other /\ HandedTo(c)' = HandedTo(c)
      BY <1>2, <2>3, ThreadTypes DEF FanOutInv, Busy, HandedTo, Threads
    <3>2. QueuedLast(c, fanOut[t].msg)
      BY <1>2, <2>1, <3>1 DEF QueuedLast
    <3> QED BY <1>1, <3>2 DEF StreamStep
  <2> QED BY <2>2, <2>3
<1>4. CASE c # d
  <2>1. queue'[c] = queue[c]
    BY <1>1, <1>2, <1>4 DEF HandTo, Put, Shutdown
  <2>2. HandedTo(c)' = HandedTo(c)
    BY <1>2, <1>4, ThreadTypes DEF HandedTo
  <2> QED BY <1>2, <2>1, <2>2 DEF StreamStep, Unmoved
<1>5. CASE ~Fits(d) /\ c = d
  <2>1. queue'[c] = queue[c] /\ sock'[c] = "closed"
    BY <1>2, <1>5 DEF HandTo, Shutdown
  <2>2. HandedTo(c)' => HandedTo(c)
    BY <1>2, ThreadTypes DEF HandedTo
  <2> QED BY <1>2, <2>1, <2>2 DEF StreamStep, Unmoved
<1> QED BY <1>3, <1>4, <1>5

LEMMA StreamSteps ==
  ASSUME TypeOK, SlotInv, FanOutInv, PlaceInv, [Next]_vars, NEW c \in Conns
  PROVE  StreamStep(c)
<1>0. /\ queue \in [Conns -> Seq(Message)] /\ sending \in [Conns -> Message] /\ live \in [Conns -> Nat]
      /\ clients \subseteq Conns /\ chunks \in Nat /\ DOMAIN pc = Conns /\ DOMAIN sock = Conns
      /\ DOMAIN writer = Conns
  BY DEF TypeOK
<1>1. ASSUME UNCHANGED <<queue, sending, live, chunks>>, fanOut'[Device] = fanOut[Device] PROVE StreamStep(c)
  BY <1>1 DEF StreamStep, Unmoved, HandedTo
<1>2. CASE DeviceSays
  <2>1. reader = "reading" /\ chunks' = chunks + 1 /\ StartFanOut(Device, Rx(chunks + 1), {})
        /\ UNCHANGED <<queue, sending, live>>
    BY <1>2 DEF DeviceSays, delivery
  <2>2. chunks + 1 \in Nat /\ Rx(chunks + 1) \in Message
    BY <1>0, MessageTypes
  <2>3. fanOut'[Device].to = IF Subscribed THEN clients \ {} ELSE {}
    BY <2>1, <2>2, ThreadTypes, Begins
  <2>4. ~HandedTo(c)
    BY <2>1 DEF FanOutInv, Busy, HandedTo
  <2> QED BY <2>1, <2>3, <2>4 DEF StreamStep, Announced, HandedTo
<1>3. CASE DeviceStep
  <2>1. CASE \E d \in Conns : HandTo(Device, d)
    BY <2>1, HandToSteps, ThreadTypes
  <2>2. CASE \E ends \in BOOLEAN : LineEnds(ends)
    BY <1>1, <2>2 DEF LineEnds, delivery
  <2> QED BY <1>3, <2>1, <2>2 DEF DeviceStep
<1>4. CASE BeginStop \/ StopTakesClients \/ StopEnds \/ UNCHANGED vars
  BY <1>1, <1>4 DEF BeginStop, StopTakesClients, StopEnds, delivery, device, vars
<1>5. ASSUME NEW d \in Conns, StopShutsDown(d) PROVE StreamStep(c)
  BY <1>5, ShutdownSteps DEF StopShutsDown, device
<1>6. ASSUME NEW d \in Conns, ClientStep(d) \/ AcceptStep(d) PROVE StreamStep(c)
  <2>1. CASE Answer(d)
    <3>1. UNCHANGED <<sending, live, chunks, fanOut>> /\ Put(d, Other)
      BY <2>1 DEF Answer, device
    <3>2. CASE c = d /\ Fits(d)
      <4>1. QueuedLast(c, Other)
        BY <1>0, <3>1, <3>2 DEF Put, QueuedLast, HandedTo
      <4> QED BY <4>1, MessageTypes DEF StreamStep
    <3>3. CASE ~(c = d /\ Fits(d))
      BY <1>0, <3>1, <3>3 DEF Put, StreamStep, Unmoved, HandedTo
    <3> QED BY <3>2, <3>3
  <2>2. CASE HangUp(d) \/ AcceptReturns(d) \/ BeginWrite(d) \/ RefuseFull(d) \/ Admit(d)
    BY <1>1, <2>2 DEF AcceptReturns, HangUp, BeginWrite, RefuseFull, Admit, delivery, device
  <2> QED BY <1>6, <2>1, <2>2 DEF ClientStep, AcceptStep
<1>7. ASSUME NEW d \in Conns, WriterTakes(d) PROVE StreamStep(c)
  <2>1. sending[d] = Sentinel
    BY <1>7 DEF WriterTakes, PlaceInv
  <2>2. /\ queue[d] # <<>> /\ UNCHANGED <<live, chunks, fanOut>>
        /\ sending' = [sending EXCEPT ![d] = Head(queue[d])]
        /\ queue' = [queue EXCEPT ![d] = Tail(queue[d])]
    BY <1>7 DEF WriterTakes, device
  <2>3. CASE c = d
    BY <1>0, <2>1, <2>2, <2>3 DEF StreamStep, Taken, HandedTo
  <2>4. CASE c # d
    BY <1>0, <2>2, <2>4 DEF StreamStep, Unmoved, HandedTo
  <2> QED BY <2>3, <2>4
<1>8. ASSUME NEW d \in Conns, WriterSends(d) PROVE StreamStep(c)
  <2>1. CASE c = d
    BY <1>0, <1>8, <2>1 DEF WriterSends, StreamStep, Sent, HandedTo, device
  <2>2. CASE c # d
    BY <1>0, <1>8, <2>2 DEF WriterSends, StreamStep, Unmoved, HandedTo, device
  <2> QED BY <2>1, <2>2
<1>9. ASSUME NEW d \in Conns, WriterFails(d) PROVE StreamStep(c)
  <2>1. CASE c = d
    BY <1>0, <1>9, <2>1 DEF WriterFails, StreamStep, Lost, HandedTo, device
  <2>2. CASE c # d
    BY <1>0, <1>9, <2>2 DEF WriterFails, StreamStep, Unmoved, HandedTo, device
  <2> QED BY <2>1, <2>2
<1>10. ASSUME NEW d \in Conns, NEW wanted \in Wanted, Join(d, wanted) PROVE StreamStep(c)
  <2>1. CASE c = d
    <3>1. pc[d] = "authenticating" /\ live'[c] = chunks /\ c \in clients'
          /\ UNCHANGED <<queue, sending, fanOut, chunks, stopper>>
      BY <1>0, <1>10, <2>1 DEF Join, device
    <3>2. queue[c] = <<>> /\ sending[c] = Sentinel
      BY <2>1, <3>1 DEF PlaceInv, NotYet, Started
    <3>3. ~HandedTo(c)
      BY <2>1, <3>1, ThreadTypes DEF FanOutInv, NotYet, HandedTo
    <3> QED BY <3>1, <3>2, <3>3 DEF StreamStep, Joined, HandedTo, Subscribed
  <2>2. CASE c # d
    BY <1>0, <1>10, <2>2 DEF Join, StreamStep, Unmoved, HandedTo, device
  <2> QED BY <2>1, <2>2
<1>11. ASSUME NEW d \in Conns, Release(d) PROVE StreamStep(c)
  <2>1. CASE c = d
    BY <1>0, <1>11, <2>1 DEF Release, ForgetConnection, StreamStep, Lost, HandedTo, device
  <2>2. CASE c # d
    BY <1>0, <1>11, <2>2 DEF Release, ForgetConnection, StreamStep, Unmoved, HandedTo, device
  <2> QED BY <2>1, <2>2
<1>12. ASSUME NEW d \in Conns, NEW skip, StartFanOut(d, Other, skip), UNCHANGED <<queue, sending, live, chunks>>
       PROVE  StreamStep(c)
  <2>1. fanOut'[Device] = fanOut[Device]
    BY <1>12, ThreadTypes, MessageTypes, Begins
  <2> QED BY <1>1, <1>12, <2>1
<1>13. ASSUME NEW d \in Conns, HandlerStep(d) PROVE StreamStep(c)
  <2>1. CASE \E e \in Conns : HandTo(d, e)
    BY <2>1, HandToSteps, ThreadTypes
  <2>2. CASE \E announced \in BOOLEAN : TurnAway(d, announced)
    BY <1>1, <1>12, <2>2 DEF TurnAway, delivery, device
  <2>3. CASE EndWrite(d)
    BY <1>1, <1>12, <2>3 DEF EndWrite, delivery, device
  <2>4. CASE SendNow(d) \/ Unblock(d) \/ StartServing(d) \/ ReaderEnds(d)
    BY <1>1, <2>4 DEF SendNow, Unblock, StartServing, ReaderEnds, delivery, device
  <2>5. CASE Leave(d)
    BY <2>5, ShutdownSteps DEF Leave, device
  <2> QED BY <1>10, <1>11, <1>13, <2>1, <2>2, <2>3, <2>4, <2>5 DEF HandlerStep
<1> QED
  BY <1>2, <1>3, <1>4, <1>5, <1>6, <1>7, <1>8, <1>9, <1>13 DEF Next, StopStep, WriterStep

-----------------------------------------------------------------------------
(* The stream stays in order *)

LEMMA LiveChunks ==
  ASSUME NEW newest \in Nat, NEW msg, Live(msg, newest)
  PROVE  /\ ChunksOf(msg) \subseteq 1..newest /\ Increasing(msg.chunks)
         /\ IF msg.kind = "rx" THEN ChunksOf(msg) = {Head(msg.chunks)} ELSE ChunksOf(msg) = {}
         /\ Live(msg, newest + 1)
<1>1. CASE msg \in {Other, Sentinel}
  BY <1>1, ChunksOfKinds DEF Live
<1>2. ASSUME NEW n \in 1..newest, msg = Rx(n)
      PROVE  /\ ChunksOf(msg) \subseteq 1..newest /\ Increasing(msg.chunks)
             /\ msg.kind = "rx" /\ ChunksOf(msg) = {Head(msg.chunks)}
             /\ Live(msg, newest + 1)
  <2>1. ChunksOf(msg) = {n} /\ Increasing(msg.chunks) /\ msg.kind = "rx" /\ msg.chunks = <<n>>
    BY <1>2, ChunksOfKinds
  <2>2. Head(msg.chunks) = n
    BY <2>1
  <2>3. n \in 1..(newest + 1)
    OBVIOUS
  <2> QED BY <1>2, <2>1, <2>2, <2>3 DEF Live
<1> QED BY <1>1, <1>2 DEF Live

LEMMA LiveStep ==
  ASSUME TypeOK, TypeOK', FanOutInv, NEW c \in Conns, LiveInv(c), StreamStep(c)
  PROVE  LiveInv(c)'
<1>0. /\ chunks \in Nat /\ live[c] \in Nat /\ live'[c] \in Nat /\ queue[c] \in Seq(Message)
      /\ sending[c] \in Message /\ queue'[c] \in Seq(Message) /\ chunks' \in Nat
  BY DEF TypeOK
<1>1. /\ live[c] <= chunks
      /\ HandedTo(c) => live[c] < chunks
      /\ Live(sending[c], chunks)
      /\ \A i \in DOMAIN queue[c] : Live(queue[c][i], chunks)
      /\ Ordered(queue[c])
      /\ \A n \in ChunksIn(queue[c]) : Fresh(c, n)
      /\ \A n \in ChunksOf(sending[c]) : Fresh(c, n) /\ \A m \in ChunksIn(queue[c]) : n < m
  BY DEF LiveInv, HandedTo
<1>2. ChunksIn(queue[c]) \subseteq 1..chunks
  BY <1>0, <1>1, LiveChunks DEF ChunksIn
<1>3. ChunksOf(sending[c]) \subseteq 1..chunks
  BY <1>0, <1>1, LiveChunks
<1>5. (HandedTo(c)' => HandedTo(c)) /\ chunks' = chunks /\ live'[c] = live[c]
        => \A n : Fresh(c, n) => Fresh(c, n)'
  BY DEF Fresh, HandedTo
<1>6. CASE Unmoved(c)
  BY <1>1, <1>5, <1>6 DEF Unmoved, LiveInv, HandedTo
<1>7. CASE Announced(c)
  <2>1. queue'[c] = queue[c] /\ sending'[c] = sending[c] /\ live'[c] = live[c] /\ chunks' = chunks + 1
    BY <1>7 DEF Announced
  <2>2. live[c] <= chunks' /\ live[c] < chunks'
    BY <1>0, <1>1, <2>1
  <2>3. \A msg : Live(msg, chunks) => Live(msg, chunks')
    BY <1>0, <2>1, LiveChunks
  <2>4. \A n \in 1..chunks : n < chunks'
    BY <1>0, <2>1
  <2>5. \A n \in 1..chunks : Fresh(c, n) => Fresh(c, n)'
    BY <2>1, <2>4 DEF Fresh
  <2> QED BY <1>1, <1>2, <1>3, <2>1, <2>2, <2>3, <2>5 DEF LiveInv
<1>8. ASSUME NEW msg \in Message, QueuedLast(c, msg) PROVE LiveInv(c)'
  <2>1. queue'[c] = Append(queue[c], msg) /\ sending'[c] = sending[c] /\ live'[c] = live[c] /\ chunks' = chunks
        /\ (HandedTo(c)' => HandedTo(c))
    BY <1>8 DEF QueuedLast
  <2>2. Live(msg, chunks) /\ Increasing(msg.chunks)
        /\ (ChunksOf(msg) = {} \/ (ChunksOf(msg) = {chunks} /\ HandedTo(c) /\ ~HandedTo(c)'))
    <3>1. CASE msg \in {Other, Sentinel}
      BY <3>1, ChunksOfKinds DEF Live
    <3>2. CASE msg = Rx(chunks) /\ HandedTo(c) /\ ~HandedTo(c)'
      <4>1. chunks \in 1..chunks
        BY <1>0, <1>1, <3>2
      <4> QED BY <3>2, <4>1, ChunksOfKinds DEF Live
    <3> QED BY <1>8, <3>1, <3>2 DEF QueuedLast
  <2>3. \A a \in ChunksIn(queue[c]) \union ChunksOf(sending[c]), b \in ChunksOf(msg) : a < b
    BY <1>1, <2>2 DEF Fresh, HandedTo
  <2>4. Ordered(queue'[c]) /\ ChunksIn(queue'[c]) = ChunksIn(queue[c]) \union ChunksOf(msg)
    BY <1>0, <1>1, <2>1, <2>2, <2>3, OrderedAppend
  <2>5. \A i \in DOMAIN queue'[c] : Live(queue'[c][i], chunks)
    BY <1>0, <1>1, <2>1, <2>2
  <2>6. \A n \in ChunksOf(msg) : Fresh(c, n)'
    BY <1>1, <2>1, <2>2 DEF Fresh, HandedTo
  <2>7. \A n : Fresh(c, n) => Fresh(c, n)'
    BY <1>5, <2>1
  <2>8. Live(sending'[c], chunks') /\ \A i \in DOMAIN queue'[c] : Live(queue'[c][i], chunks')
    BY <1>1, <2>1, <2>5
  <2>9. live'[c] <= chunks' /\ (HandedTo(c)' => live'[c] < chunks')
    BY <1>1, <2>1
  <2> QED BY <1>1, <2>1, <2>3, <2>4, <2>6, <2>7, <2>8, <2>9 DEF LiveInv, HandedTo
<1>9. CASE Taken(c)
  <2>1. queue[c] # <<>> /\ queue'[c] = Tail(queue[c]) /\ sending'[c] = Head(queue[c])
        /\ live'[c] = live[c] /\ chunks' = chunks /\ HandedTo(c)' = HandedTo(c)
    BY <1>9 DEF Taken
  <2>2. /\ ChunksIn(queue[c]) = ChunksOf(Head(queue[c])) \union ChunksIn(Tail(queue[c]))
        /\ Ordered(Tail(queue[c]))
        /\ \A a \in ChunksOf(Head(queue[c])), b \in ChunksIn(Tail(queue[c])) : a < b
    BY <1>0, <1>1, <2>1, OrderedHeadTail
  <2>3. Live(Head(queue[c]), chunks) /\ \A i \in DOMAIN Tail(queue[c]) : Live(Tail(queue[c])[i], chunks)
    <3>1. Head(queue[c]) = queue[c][1] /\ 1 \in DOMAIN queue[c]
      BY <1>0, <2>1
    <3>2. \A i \in DOMAIN Tail(queue[c]) : i + 1 \in DOMAIN queue[c] /\ Tail(queue[c])[i] = queue[c][i + 1]
      BY <1>0, <2>1
    <3> QED BY <1>1, <3>1, <3>2
  <2>4. \A n : Fresh(c, n) => Fresh(c, n)'
    BY <1>5, <2>1
  <2>5. Live(sending'[c], chunks') /\ \A i \in DOMAIN queue'[c] : Live(queue'[c][i], chunks')
    BY <2>1, <2>3
  <2> QED BY <1>1, <2>1, <2>2, <2>4, <2>5 DEF LiveInv, HandedTo
<1>10. CASE Sent(c)
  <2>1. queue'[c] = queue[c] /\ sending'[c] = Sentinel /\ chunks' = chunks /\ HandedTo(c)' = HandedTo(c)
        /\ live'[c] = IF sending[c].kind = "rx" THEN Head(sending[c].chunks) ELSE live[c]
    BY <1>10 DEF Sent
  <2>2. ChunksOf(sending'[c]) = {} /\ Live(sending'[c], chunks')
    BY <2>1, ChunksOfKinds DEF Live
  <2>3. live'[c] = live[c] \/ live'[c] \in ChunksOf(sending[c])
    BY <1>0, <1>1, <2>1, LiveChunks
  <2>4. live'[c] <= chunks /\ (HandedTo(c) => live'[c] < chunks)
    BY <1>0, <1>1, <1>3, <2>3 DEF Fresh, HandedTo
  <2>5. \A m \in ChunksIn(queue[c]) : live'[c] < m
    BY <1>1, <2>3 DEF Fresh
  <2>6. \A m \in ChunksIn(queue[c]) : Fresh(c, m)'
    BY <1>1, <2>1, <2>5 DEF Fresh, HandedTo
  <2> QED BY <1>1, <2>1, <2>2, <2>4, <2>6 DEF LiveInv, HandedTo
<1>11. CASE Lost(c)
  <2>1. queue'[c] \in {queue[c], <<>>} /\ chunks' = chunks /\ HandedTo(c)' = HandedTo(c)
        /\ (sending'[c] = Sentinel \/ sending'[c] = sending[c])
        /\ (live'[c] = live[c] \/ live'[c] = 0)
    BY <1>11 DEF Lost
  <2>2. ChunksIn(queue'[c]) \subseteq ChunksIn(queue[c]) /\ Ordered(queue'[c])
    BY <1>1, <2>1, EmptyIsOrdered
  <2>3. ChunksOf(sending'[c]) \subseteq ChunksOf(sending[c]) /\ Live(sending'[c], chunks)
    BY <1>1, <2>1, ChunksOfKinds DEF Live
  <2>4. \A i \in DOMAIN queue'[c] : Live(queue'[c][i], chunks)
    <3>1. DOMAIN <<>> = {}
      OBVIOUS
    <3> QED BY <1>1, <2>1, <3>1
  <2>5. HandedTo(c) => chunks > 0
    BY DEF HandedTo, FanOutInv, Busy
  <2>6. live'[c] <= chunks /\ (HandedTo(c) => live'[c] < chunks) 
    BY <1>0, <1>1, <2>1, <2>5
  <2>7. live'[c] <= live[c]
    BY <1>0, <2>1
  <2>8. \A n \in 1..chunks : Fresh(c, n) => Fresh(c, n)'
    BY <1>0, <2>1, <2>7 DEF Fresh, HandedTo
  <2>9. Live(sending'[c], chunks') /\ \A i \in DOMAIN queue'[c] : Live(queue'[c][i], chunks')
    BY <2>1, <2>3, <2>4
  <2> QED BY <1>1, <1>2, <1>3, <2>1, <2>2, <2>3, <2>6, <2>8, <2>9 DEF LiveInv, HandedTo
<1>12. CASE Joined(c)
  <2>1. ChunksIn(<<>>) = {} /\ Ordered(<<>>) /\ DOMAIN <<>> = {} /\ ChunksOf(Sentinel) = {} /\ Live(Sentinel, chunks')
    BY EmptyIsOrdered, ChunksOfKinds DEF Live
  <2>2. live'[c] <= chunks' /\ ~HandedTo(c)' /\ queue'[c] = <<>> /\ sending'[c] = Sentinel
    BY <1>0, <1>12 DEF Joined
  <2> QED BY <2>1, <2>2 DEF LiveInv, HandedTo
<1> QED BY <1>6, <1>7, <1>8, <1>9, <1>10, <1>11, <1>12 DEF StreamStep

LEMMA StreamsStep ==
  ASSUME TypeOK, SlotInv, FanOutInv, PlaceInv, StreamsInv, [Next]_vars
  PROVE  StreamsInv'
BY TypeStep, StreamSteps, LiveStep DEF StreamsInv

-----------------------------------------------------------------------------
(* The history, and what of it a connection is still to be sent *)

LEMMA HistoryStep ==
  ASSUME TypeOK, HistoryInv, [Next]_vars
  PROVE  HistoryInv'
<1>0. /\ chunks \in Nat /\ pending \in Seq(Nat) /\ replay \in Seq(Seq(Nat))
      /\ Lines(replay) \in Seq(Message) /\ Old(pending) \in Message
  BY LinesTypes, MessageTypes DEF TypeOK
<1>1. ASSUME UNCHANGED <<chunks, pending, replay>> PROVE HistoryInv'
  BY <1>1 DEF HistoryInv, Lines, Old
<1>2. CASE DeviceSays
  <2>1. chunks' = chunks + 1 /\ pending' = Append(pending, chunks + 1) /\ replay' = replay
    BY <1>2 DEF DeviceSays
  <2>2. /\ Len(pending') = Len(pending) + 1 /\ DOMAIN pending = 1..Len(pending)
        /\ DOMAIN pending' = 1..(Len(pending) + 1) /\ Len(pending) \in Nat
        /\ \A i \in 1..Len(pending) : pending'[i] = pending[i]
        /\ pending'[Len(pending) + 1] = chunks + 1
    BY <1>0, <2>1
  <2>3. ChunksOf(Old(pending)) = {pending[i] : i \in DOMAIN pending}
    BY ChunksOfKinds
  <2>4. ChunksOf(Old(pending')) = {pending'[i] : i \in DOMAIN pending'}
    BY ChunksOfKinds
  <2>5. ChunksOf(Old(pending')) = ChunksOf(Old(pending)) \union {chunks + 1}
    BY <2>2, <2>3, <2>4
  <2>6. \A i \in 1..Len(pending) : pending[i] \in 1..chunks
    BY <2>2, <2>3 DEF HistoryInv
  <2>7. Increasing(pending')
    <3> SUFFICES ASSUME NEW k \in 1..(Len(pending) + 1), NEW l \in 1..(Len(pending) + 1), k < l
                 PROVE  pending'[k] < pending'[l]
      BY <2>2 DEF Increasing
    <3>1. k \in 1..Len(pending)
      BY <2>2
    <3>2. CASE l \in 1..Len(pending)
      BY <2>2, <3>1, <3>2 DEF HistoryInv, Increasing
    <3>3. CASE l = Len(pending) + 1
      <4>1. pending'[k] \in 1..chunks /\ pending'[l] = chunks + 1
        BY <2>2, <2>6, <3>1, <3>3
      <4> QED BY <1>0, <4>1
    <3> QED BY <2>2, <3>2, <3>3
  <2>8. \A a \in 1..chunks : a < chunks + 1 /\ a \in 1..(chunks + 1)
    BY <1>0
  <2>9. chunks + 1 \in 1..(chunks + 1)
    BY <1>0
  <2> HIDE DEF Old
  <2>10. \A a \in ChunksIn(Lines(replay)), b \in ChunksOf(Old(pending')) : a < b
    BY <2>5, <2>8 DEF HistoryInv
  <2>11. ChunksIn(Lines(replay)) \subseteq 1..(chunks + 1) /\ ChunksOf(Old(pending')) \subseteq 1..(chunks + 1)
    BY <2>5, <2>8, <2>9 DEF HistoryInv
  <2>12. HistoryInv' <=>
           /\ Ordered(Lines(replay'))
           /\ Increasing(pending')
           /\ \A a \in ChunksIn(Lines(replay')), b \in ChunksOf(Old(pending')) : a < b
           /\ ChunksIn(Lines(replay')) \subseteq 1..chunks'
           /\ ChunksOf(Old(pending')) \subseteq 1..chunks'
    BY DEF HistoryInv
  <2> QED BY <2>1, <2>7, <2>10, <2>11, <2>12 DEF HistoryInv
<1>3. ASSUME LineEnds(TRUE) PROVE HistoryInv'
  <2> DEFINE all == Append(replay, pending)
  <2>1. chunks' = chunks /\ pending' = <<>> /\ replay' = IF Len(all) > ReplayMax THEN Tail(all) ELSE all
    BY <1>3 DEF LineEnds
  <2>2. all \in Seq(Seq(Nat)) /\ Len(all) = Len(replay) + 1 /\ all # <<>> /\ Len(replay) \in Nat
    BY <1>0
  <2>3. Lines(all) \in Seq(Message) /\ Len(Lines(all)) = Len(all)
    BY <2>2, LinesTypes
  <2>4. Lines(all) = Append(Lines(replay), Old(pending))
    <3>1. \A i \in 1..Len(replay) : Lines(replay)[i] = Old(replay[i])
      BY <1>0, LinesTypes
    <3>2. \A i \in 1..(Len(replay) + 1) : Lines(all)[i] = Old(all[i])
      BY <2>2, LinesTypes
    <3>3. Len(Lines(replay)) = Len(replay)
      BY <1>0, LinesTypes
    <3>4. \A i \in 1..Len(replay) : all[i] = replay[i] /\ i \in 1..(Len(replay) + 1)
      BY <1>0
    <3>5. all[Len(replay) + 1] = pending
      BY <1>0
    <3>6. \A i \in 1..Len(replay) : Append(Lines(replay), Old(pending))[i] = Lines(replay)[i]
      BY <1>0, <3>3
    <3>7. Append(Lines(replay), Old(pending))[Len(replay) + 1] = Old(pending)
      BY <1>0, <3>3
    <3>8. Append(Lines(replay), Old(pending)) \in Seq(Message)
          /\ Len(Append(Lines(replay), Old(pending))) = Len(replay) + 1
      BY <1>0, <3>3
    <3>9. \A i \in 1..(Len(replay) + 1) : Lines(all)[i] = Append(Lines(replay), Old(pending))[i]
      <4> SUFFICES ASSUME NEW i \in 1..(Len(replay) + 1)
                   PROVE  Lines(all)[i] = Append(Lines(replay), Old(pending))[i]
        OBVIOUS
      <4>1. CASE i \in 1..Len(replay)
        BY <3>1, <3>2, <3>4, <3>6, <4>1
      <4>2. CASE i = Len(replay) + 1
        BY <3>2, <3>5, <3>7, <4>2
      <4>3. i \in 1..Len(replay) \/ i = Len(replay) + 1
        BY <2>2
      <4> QED BY <4>1, <4>2, <4>3
    <3> HIDE DEF all
    <3> QED BY <2>2, <2>3, <3>8, <3>9, SeqEqual
  <2>5. Old(pending).chunks = pending
    BY ChunksOfKinds
  <2>6. Ordered(Lines(all)) /\ ChunksIn(Lines(all)) = ChunksIn(Lines(replay)) \union ChunksOf(Old(pending))
    BY <1>0, <2>4, <2>5, OrderedAppend DEF HistoryInv
  <2> HIDE DEF all
  <2>7. Tail(all) \in Seq(Seq(Nat)) /\ Lines(Tail(all)) = Tail(Lines(all))
    <3>1. Tail(all) \in Seq(Seq(Nat)) /\ Len(Tail(all)) = Len(replay)
          /\ \A i \in 1..Len(replay) : Tail(all)[i] = all[i + 1] /\ i + 1 \in 1..Len(all)
      BY <2>2
    <3>2. Lines(Tail(all)) \in Seq(Message) /\ Len(Lines(Tail(all))) = Len(replay)
          /\ \A i \in 1..Len(replay) : Lines(Tail(all))[i] = Old(Tail(all)[i])
      BY <3>1, LinesTypes
    <3>3. Tail(Lines(all)) \in Seq(Message) /\ Len(Tail(Lines(all))) = Len(replay)
          /\ \A i \in 1..Len(replay) : Tail(Lines(all))[i] = Lines(all)[i + 1]
      BY <2>2, <2>3
    <3>4. \A i \in 1..Len(all) : Lines(all)[i] = Old(all[i])
      BY <2>2, LinesTypes
    <3>5. \A i \in 1..Len(replay) : Lines(Tail(all))[i] = Tail(Lines(all))[i]
      BY <3>1, <3>2, <3>3, <3>4
    <3>6. Lines(Tail(all)) = Tail(Lines(all))
      BY <3>2, <3>3, <3>5, SeqEqual
    <3> QED BY <3>1, <3>6
  <2>8. Lines(all) # <<>>
    BY <2>2, <2>3
  <2>9. Ordered(Lines(replay')) /\ ChunksIn(Lines(replay')) \subseteq 1..chunks
    <3>1. Ordered(Tail(Lines(all))) /\ ChunksIn(Tail(Lines(all))) \subseteq ChunksIn(Lines(all))
      BY <2>3, <2>6, <2>8, OrderedHeadTail
    <3> QED BY <2>1, <2>6, <2>7, <3>1 DEF HistoryInv
  <2>10. ChunksOf(Old(pending')) = {} /\ Increasing(pending')
    <3>1. DOMAIN pending' = {}
      BY <2>1
    <3>2. ChunksOf(Old(pending')) = {pending'[i] : i \in DOMAIN pending'}
      BY ChunksOfKinds
    <3> QED BY <3>1, <3>2 DEF Increasing
  <2>11. HistoryInv' <=>
           /\ Ordered(Lines(replay'))
           /\ Increasing(pending')
           /\ \A a \in ChunksIn(Lines(replay')), b \in ChunksOf(Old(pending')) : a < b
           /\ ChunksIn(Lines(replay')) \subseteq 1..chunks'
           /\ ChunksOf(Old(pending')) \subseteq 1..chunks'
    BY DEF HistoryInv
  <2> QED BY <2>1, <2>9, <2>10, <2>11
<1>4. ASSUME LineEnds(FALSE) PROVE HistoryInv'
  BY <1>1, <1>4 DEF LineEnds
<1>5. CASE DeviceStep
  BY <1>1, <1>3, <1>4, <1>5 DEF DeviceStep, HandTo, device
<1>6. CASE BeginStop \/ StopStep \/ UNCHANGED vars
  BY <1>1, <1>6 DEF BeginStop, StopStep, StopTakesClients, StopEnds, StopShutsDown, device, vars
<1>7. ASSUME NEW d \in Conns, ClientStep(d) \/ AcceptStep(d) \/ WriterStep(d) \/ WriterSends(d)
      PROVE  HistoryInv'
  BY <1>1, <1>7 DEF ClientStep, AcceptReturns, HangUp, Answer, BeginWrite, AcceptStep, RefuseFull, Admit,
     WriterStep, WriterTakes, WriterFails, WriterSends, device
<1>8. ASSUME NEW d \in Conns, HandlerStep(d) PROVE HistoryInv'
  BY <1>1, <1>8 DEF HandlerStep, HandTo, TurnAway, Join, SendNow, Unblock, StartServing, EndWrite, ReaderEnds,
     Leave, Release, device
<1> QED BY <1>2, <1>5, <1>6, <1>7, <1>8 DEF Next

LEMMA ToSendSteps ==
  ASSUME TypeOK, [Next]_vars, NEW c \in Conns
  PROVE  \/ toSend'[c] = toSend[c]
         \/ toSend[c] # <<>> /\ toSend'[c] = Tail(toSend[c])
         \/ \E wanted \in Wanted : Join(c, wanted)
<1>0. DOMAIN toSend = Conns
  BY DEF TypeOK
<1>1. CASE DeviceSays \/ DeviceStep \/ BeginStop \/ StopStep \/ UNCHANGED vars
  BY <1>1 DEF DeviceSays, DeviceStep, HandTo, LineEnds, BeginStop, StopStep, StopTakesClients, StopEnds,
     StopShutsDown, connection, vars
<1>2. ASSUME NEW d \in Conns, ClientStep(d) \/ AcceptStep(d) \/ WriterStep(d) \/ WriterSends(d)
      PROVE  toSend'[c] = toSend[c]
  BY <1>2 DEF ClientStep, AcceptReturns, HangUp, Answer, BeginWrite, AcceptStep, RefuseFull, Admit,
     WriterStep, WriterTakes, WriterFails, WriterSends, connection
<1>3. ASSUME NEW d \in Conns, HandlerStep(d)
      PROVE  \/ toSend'[c] = toSend[c]
             \/ toSend[c] # <<>> /\ toSend'[c] = Tail(toSend[c])
             \/ \E wanted \in Wanted : Join(c, wanted)
  <2>1. CASE SendNow(d)
    BY <1>0, <2>1 DEF SendNow
  <2>2. ASSUME NEW wanted \in Wanted, Join(d, wanted)
        PROVE  toSend'[c] = toSend[c] \/ Join(c, wanted)
    <3>1. CASE c = d
      BY <2>2, <3>1
    <3>2. CASE c # d
      BY <1>0, <2>2, <3>2 DEF Join
    <3> QED BY <3>1, <3>2
  <2>3. CASE \/ \E e \in Conns : HandTo(d, e)
             \/ \E announced \in BOOLEAN : TurnAway(d, announced)
             \/ Unblock(d) \/ StartServing(d) \/ EndWrite(d) \/ ReaderEnds(d) \/ Leave(d) \/ Release(d)
    BY <2>3 DEF HandTo, TurnAway, Unblock, StartServing, EndWrite, ReaderEnds, Leave, Release, connection
  <2> QED BY <1>3, <2>1, <2>2, <2>3 DEF HandlerStep
<1> QED BY <1>1, <1>2, <1>3 DEF Next

LEMMA JoinShowsHistory ==
  ASSUME TypeOK, HistoryInv, NEW c \in Conns, NEW wanted \in Wanted, Join(c, wanted)
  PROVE  Ordered(toSend'[c]) /\ ChunksIn(toSend'[c]) \subseteq 0..chunks
<1>1. replay \in Seq(Seq(Nat)) /\ wanted \in Nat /\ chunks \in Nat /\ DOMAIN toSend = Conns
  BY DEF TypeOK
<1> DEFINE from == SnapshotFrom(Len(replay), wanted)
           past == Lines(Snapshot(replay, wanted))
<1>2. Snapshot(replay, wanted) = SubSeq(replay, from + 1, Len(replay)) /\ from \in 0..Len(replay)
      /\ Snapshot(replay, wanted) \in Seq(Seq(Nat))
  BY <1>1, SnapshotIsAnEnd
<1>3. past \in Seq(Message) /\ Len(past) = Len(Snapshot(replay, wanted))
      /\ \A i \in 1..Len(Snapshot(replay, wanted)) : past[i] = Old(Snapshot(replay, wanted)[i])
  BY <1>2, LinesTypes
<1>4. Lines(replay) \in Seq(Message) /\ Len(Lines(replay)) = Len(replay)
      /\ \A i \in 1..Len(replay) : Lines(replay)[i] = Old(replay[i])
  BY <1>1, LinesTypes
<1>5. past = SubSeq(Lines(replay), from + 1, Len(Lines(replay)))
  <2> DEFINE n == Len(replay) - from
             end == SubSeq(Lines(replay), from + 1, Len(Lines(replay)))
  <2>1. Len(replay) \in Nat /\ from \in Nat /\ from <= Len(replay) /\ n \in Nat
    BY <1>1, <1>2
  <2>2. /\ \A i \in from + 1 .. Len(replay) : replay[i] \in Seq(Nat)
        /\ \A i \in from + 1 .. Len(replay) : Lines(replay)[i] \in Message
        /\ from + 1 \in Int /\ Len(replay) \in Int
    BY <1>1, <1>4, <2>1
  <2>3. Len(Snapshot(replay, wanted)) = n /\ \A i \in 1..n : Snapshot(replay, wanted)[i] = replay[from + i]
    <3>1. /\ Len(SubSeq(replay, from + 1, Len(replay)))
               = IF from + 1 <= Len(replay) THEN Len(replay) - (from + 1) + 1 ELSE 0
          /\ \A i \in 1 .. Len(replay) - (from + 1) + 1 :
               SubSeq(replay, from + 1, Len(replay))[i] = replay[(from + 1) + i - 1]
      <4> HIDE DEF from
      <4> QED BY <2>2, SubSeqProperties
    <3>2. Len(replay) - (from + 1) + 1 = n /\ (from + 1 <= Len(replay) \/ n = 0)
      BY <2>1
    <3>3. \A i \in 1..n : (from + 1) + i - 1 = from + i
      BY <2>1
    <3> HIDE DEF from, n
    <3> QED BY <1>2, <3>1, <3>2, <3>3
  <2>4. end \in Seq(Message) /\ Len(end) = n /\ \A i \in 1..n : end[i] = Lines(replay)[from + i]
    <3>1. /\ end \in Seq(Message)
          /\ Len(end) = IF from + 1 <= Len(replay) THEN Len(replay) - (from + 1) + 1 ELSE 0
          /\ \A i \in 1 .. Len(replay) - (from + 1) + 1 : end[i] = Lines(replay)[(from + 1) + i - 1]
      BY <1>4, <2>1, <2>2, SubSeqProperties
    <3>2. Len(replay) - (from + 1) + 1 = n /\ (from + 1 <= Len(replay) \/ n = 0)
      BY <2>1
    <3>3. \A i \in 1..n : (from + 1) + i - 1 = from + i
      BY <2>1
    <3> HIDE DEF from, n, end
    <3> QED BY <3>1, <3>2, <3>3
  <2>5. \A i \in 1..n : from + i \in 1..Len(replay)
    BY <2>1
  <2> HIDE DEF from, n, end, past
  <2>6. \A i \in 1..n : past[i] = end[i]
    BY <1>3, <1>4, <2>3, <2>4, <2>5
  <2>7. past = end
    BY <1>3, <2>3, <2>4, <2>6, SeqEqual
  <2> QED BY <2>7 DEF end
<1> HIDE DEF from, past
<1>6. Ordered(past) /\ ChunksIn(past) \subseteq 1..chunks
  <2>1. from \in 0..Len(Lines(replay))
    BY <1>2, <1>4
  <2>2. Ordered(Lines(replay)) /\ ChunksIn(Lines(replay)) \subseteq 1..chunks
    BY DEF HistoryInv
  <2>3. Ordered(past) /\ ChunksIn(past) \subseteq ChunksIn(Lines(replay))
    BY <1>4, <1>5, <2>1, <2>2, OrderedEnd
  <2> QED BY <2>2, <2>3
<1>7. Other \in Message /\ Increasing(Other.chunks) /\ ChunksOf(Other) = {} /\ <<Other>> \in Seq(Message)
  BY MessageTypes, ChunksOfKinds
<1>8. Ordered(<<Other>>) /\ ChunksIn(<<Other>>) = {}
  BY <1>7, SingleIsOrdered
<1>9. /\ past \o <<Other>> \in Seq(Message)
      /\ Ordered(past \o <<Other>>) /\ ChunksIn(past \o <<Other>>) \subseteq 1..chunks
  <2>1. past \o <<Other>> \in Seq(Message)
    BY <1>3, <1>7
  <2>2. ChunksIn(past \o <<Other>>) = ChunksIn(past) \union ChunksIn(<<Other>>)
        /\ (Ordered(past \o <<Other>>) <=>
              /\ Ordered(past) /\ Ordered(<<Other>>)
              /\ \A a \in ChunksIn(past), b \in ChunksIn(<<Other>>) : a < b)
    BY <1>3, <1>7, OrderedConcat
  <2> QED BY <1>6, <1>8, <2>1, <2>2
<1>10. toSend'[c] = <<Other>> \o (IF wanted > 0 THEN past \o <<Other>> ELSE <<>>)
  BY <1>1 DEF Join, past
<1>11. ASSUME NEW rest \in Seq(Message), Ordered(rest), ChunksIn(rest) \subseteq 1..chunks
       PROVE  Ordered(<<Other>> \o rest) /\ ChunksIn(<<Other>> \o rest) \subseteq 0..chunks
  <2>1. ChunksIn(<<Other>> \o rest) = ChunksIn(<<Other>>) \union ChunksIn(rest)
        /\ (Ordered(<<Other>> \o rest) <=>
              /\ Ordered(<<Other>>) /\ Ordered(rest)
              /\ \A a \in ChunksIn(<<Other>>), b \in ChunksIn(rest) : a < b)
    BY <1>7, OrderedConcat
  <2>2. 1..chunks \subseteq 0..chunks
    BY <1>1
  <2> QED BY <1>8, <1>11, <2>1, <2>2
<1>12. CASE wanted > 0
  BY <1>9, <1>10, <1>11, <1>12
<1>13. CASE ~(wanted > 0)
  <2>1. <<>> \in Seq(Message) /\ Ordered(<<>>) /\ ChunksIn(<<>>) \subseteq 1..chunks
    BY EmptyIsOrdered
  <2> QED BY <1>10, <1>11, <1>13, <2>1
<1> QED BY <1>12, <1>13

LEMMA ReplayStep ==
  ASSUME TypeOK, SlotInv, FanOutInv, PlaceInv, StreamsInv, HistoryInv, ReplayInv, [Next]_vars
  PROVE  ReplayInv'
<1> SUFFICES ASSUME NEW c \in Conns PROVE Ordered(toSend'[c]) /\ ChunksIn(toSend'[c]) \subseteq 0..live'[c]
  BY DEF ReplayInv
<1>0. /\ toSend[c] \in Seq(Message) /\ live[c] \in Nat /\ chunks \in Nat /\ DOMAIN live = Conns
      /\ Ordered(toSend[c]) /\ ChunksIn(toSend[c]) \subseteq 0..live[c]
  BY DEF TypeOK, ReplayInv
<1>1. ASSUME NEW wanted \in Wanted, Join(c, wanted)
      PROVE  Ordered(toSend'[c]) /\ ChunksIn(toSend'[c]) \subseteq 0..live'[c]
  <2>1. live'[c] = chunks
    BY <1>0, <1>1 DEF Join
  <2> QED BY <1>1, <2>1, JoinShowsHistory
<1>2. ASSUME toSend'[c] = toSend[c] \/ (toSend[c] # <<>> /\ toSend'[c] = Tail(toSend[c]))
      PROVE  Ordered(toSend'[c]) /\ ChunksIn(toSend'[c]) \subseteq 0..live'[c]
  <2>1. Ordered(toSend'[c]) /\ ChunksIn(toSend'[c]) \subseteq ChunksIn(toSend[c])
    BY <1>0, <1>2, OrderedHeadTail
  <2> DEFINE Later == live'[c] \in Nat /\ live'[c] >= live[c]
  <2>2. Later \/ pc'[c] = "gone"
    <3>1. LiveInv(c) /\ StreamStep(c)
      BY StreamSteps DEF StreamsInv
    <3>2. live'[c] \in {live[c], chunks} \/ live'[c] \in ChunksOf(sending[c]) \/ pc'[c] = "gone"
      BY <1>0, <3>1, LiveChunks DEF LiveInv, StreamStep, Unmoved, Announced, QueuedLast, Taken, Sent, Lost, Joined
    <3>3. live[c] <= chunks /\ \A n \in ChunksOf(sending[c]) : n \in 1..chunks /\ live[c] < n
      BY <1>0, <3>1, LiveChunks DEF LiveInv, Fresh
    <3> QED BY <1>0, <3>2, <3>3
  <2>3. CASE Later
    <3>1. 0..live[c] \subseteq 0..live'[c]
      BY <1>0, <2>3
    <3> QED BY <1>0, <2>1, <3>1
  <2>4. CASE pc'[c] = "gone"
    <3>1. toSend'[c] = <<>>
      BY <2>4, PlaceStep DEF PlaceInv
    <3>2. ChunksIn(toSend'[c]) = {} /\ Ordered(toSend'[c])
      BY <3>1, EmptyIsOrdered
    <3> QED BY <3>2
  <2> HIDE DEF Later
  <2> QED BY <2>2, <2>3, <2>4
<1> QED BY <1>1, <1>2, ToSendSteps

-----------------------------------------------------------------------------
(* Nothing is missing *)

LEMMA ReceiverSteps ==
  ASSUME TypeOK, SlotInv, HolesInv, [Next]_vars, NEW c \in Conns, Receives(c)', Subscribed'
  PROVE  /\ Subscribed /\ c \in clients'
         /\ (Receives(c) /\ c \in clients) \/ \E wanted \in Wanted : Join(c, wanted)
<1>0. /\ pc \in [Conns -> {"away", "accepted", "authenticating", "joining", "joined", "serving",
                           "writing", "leaving", "releasing", "gone"}]
      /\ sock \in [Conns -> {"none", "open", "hungup", "closed"}]
  BY DEF TypeOK
<1> DEFINE Wish == /\ Subscribed /\ c \in clients'
                   /\ (Receives(c) /\ c \in clients) \/ \E wanted \in Wanted : Join(c, wanted)
<1>1. ASSUME Subscribed, Receives(c), c \in clients => c \in clients' PROVE Wish
  BY <1>1 DEF HolesInv
<1>2. CASE DeviceSays \/ UNCHANGED vars \/ \E ends \in BOOLEAN : LineEnds(ends)
  BY <1>1, <1>2 DEF DeviceSays, LineEnds, connection, vars, Subscribed, Receives
<1>3. ASSUME NEW t \in Threads, NEW d \in Conns, HandTo(t, d) PROVE Wish
  <2>1. CASE Fits(d)
    BY <1>1, <1>3, <2>1 DEF HandTo, connection, Subscribed, Receives
  <2>2. CASE ~Fits(d) /\ c = d
    BY <1>0, <1>3, <2>2 DEF HandTo, Shutdown, Receives
  <2>3. CASE ~Fits(d) /\ c # d
    BY <1>0, <1>1, <1>3, <2>3 DEF HandTo, Shutdown, connection, Subscribed, Receives
  <2> QED BY <2>1, <2>2, <2>3
<1>4. CASE BeginStop \/ StopStep
  BY <1>4 DEF BeginStop, StopStep, StopTakesClients, StopEnds, StopShutsDown, Subscribed
<1>5. ASSUME NEW d \in Conns, ClientStep(d) \/ AcceptStep(d) PROVE Wish
  <2>1. Subscribed /\ clients' = clients
    BY <1>5 DEF ClientStep, AcceptReturns, HangUp, Answer, BeginWrite, AcceptStep, RefuseFull, Admit, Subscribed
  <2>2. CASE HangUp(d) \/ Answer(d) \/ BeginWrite(d)
    BY <1>0, <1>1, <2>1, <2>2 DEF HangUp, Answer, BeginWrite, Request, connection, Receives
  <2>3. CASE AcceptReturns(d)
    BY <1>0, <1>1, <2>1, <2>3 DEF AcceptReturns, Receives
  <2>4. CASE RefuseFull(d)
    BY <1>0, <1>1, <2>1, <2>4 DEF RefuseFull, Receives
  <2>5. CASE Admit(d)
    BY <1>0, <1>1, <2>1, <2>5 DEF Admit, Receives
  <2> QED BY <1>5, <2>2, <2>3, <2>4, <2>5 DEF ClientStep, AcceptStep
<1>6. ASSUME NEW d \in Conns, WriterStep(d) \/ WriterSends(d) PROVE Wish
  BY <1>1, <1>6 DEF WriterStep, WriterTakes, WriterFails, WriterSends, connection, Subscribed, Receives
<1>7. ASSUME NEW d \in Conns, HandlerStep(d) PROVE Wish
  <2>1. CASE \E e \in Conns : HandTo(d, e)
    BY <1>3, <2>1, ThreadTypes
  <2>2. CASE (\E announced \in BOOLEAN : TurnAway(d, announced)) \/ SendNow(d) \/ Unblock(d)
    BY <1>0, <1>1, <2>2 DEF TurnAway, SendNow, Unblock, Subscribed, Receives
  <2>3. CASE StartServing(d) \/ EndWrite(d) \/ ReaderEnds(d)
    BY <1>0, <1>1, <2>3 DEF StartServing, EndWrite, ReaderEnds, Subscribed, Receives
  <2>4. ASSUME NEW wanted \in Wanted, Join(d, wanted) PROVE Wish
    <3>1. CASE c = d
      BY <2>4, <3>1 DEF Join, Subscribed
    <3>2. CASE c # d
      BY <1>0, <1>1, <2>4, <3>2 DEF Join, Subscribed, Receives
    <3> QED BY <3>1, <3>2
  <2>5. CASE Leave(d)
    <3>1. CASE c = d
      BY <1>0, <2>5, <3>1 DEF Leave, Receives
    <3>2. CASE c # d
      BY <1>0, <1>1, <2>5, <3>2 DEF Leave, Shutdown, Subscribed, Receives
    <3> QED BY <3>1, <3>2
  <2>6. CASE Release(d)
    BY <1>0, <1>1, <2>6 DEF Release, Subscribed, Receives
  <2> QED BY <1>7, <2>1, <2>2, <2>3, <2>4, <2>5, <2>6 DEF HandlerStep
<1> QED
  BY <1>2, <1>3, <1>4, <1>5, <1>6, <1>7, ThreadTypes DEF Next, DeviceStep

LEMMA NoneLeavesOpen ==
  ASSUME TypeOK, SlotInv, HolesInv, [Next]_vars
  PROVE  \A c \in clients' : sock'[c] = "open" => pc'[c] # "leaving"
<1>0. /\ pc \in [Conns -> {"away", "accepted", "authenticating", "joining", "joined", "serving",
                           "writing", "leaving", "releasing", "gone"}]
      /\ sock \in [Conns -> {"none", "open", "hungup", "closed"}]
      /\ clients \subseteq Conns
      /\ \A c \in clients : pc[c] \in Members /\ (sock[c] = "open" => pc[c] # "leaving")
  BY DEF TypeOK, SlotInv, HolesInv
<1> DEFINE Wish == \A c \in clients' : sock'[c] = "open" => pc'[c] # "leaving"
<1>1. ASSUME clients' \subseteq clients, \A c \in clients : sock'[c] = "open" => sock[c] = "open",
             \A c \in clients : pc'[c] = "leaving" => pc[c] = "leaving" \/ sock'[c] # "open"
      PROVE  Wish
  BY <1>0, <1>1
<1>2. CASE DeviceSays \/ UNCHANGED vars \/ (\E ends \in BOOLEAN : LineEnds(ends)) \/ BeginStop
           \/ StopTakesClients \/ StopEnds
  BY <1>1, <1>2 DEF DeviceSays, LineEnds, BeginStop, StopTakesClients, StopEnds, connection, vars
<1>3. ASSUME NEW t \in Threads, NEW d \in Conns, HandTo(t, d) PROVE Wish
  <2>1. UNCHANGED pc /\ clients' \subseteq clients /\ \A c \in clients : sock'[c] = "open" => sock[c] = "open"
    BY <1>0, <1>3 DEF HandTo, Shutdown, connection
  <2> QED BY <1>1, <2>1
<1>4. ASSUME NEW d \in Conns, StopShutsDown(d) PROVE Wish
  <2>1. UNCHANGED <<pc, clients>> /\ \A c \in clients : sock'[c] = "open" => sock[c] = "open"
    BY <1>0, <1>4 DEF StopShutsDown, Shutdown, connection
  <2> QED BY <1>1, <2>1
<1>5. ASSUME NEW d \in Conns, ClientStep(d) \/ AcceptStep(d) PROVE Wish
  <2>1. CASE HangUp(d) \/ Answer(d) \/ BeginWrite(d)
    BY <1>0, <1>1, <2>1 DEF HangUp, Answer, BeginWrite, Request, connection
  <2>2. CASE AcceptReturns(d) \/ RefuseFull(d) \/ Admit(d)
    BY <1>0, <1>1, <2>2 DEF AcceptReturns, RefuseFull, Admit, Members
  <2> QED BY <1>5, <2>1, <2>2 DEF ClientStep, AcceptStep
<1>6. ASSUME NEW d \in Conns, WriterStep(d) \/ WriterSends(d) PROVE Wish
  BY <1>1, <1>6 DEF WriterStep, WriterTakes, WriterFails, WriterSends, connection
<1>7. ASSUME NEW d \in Conns, HandlerStep(d) PROVE Wish
  <2>1. CASE \E e \in Conns : HandTo(d, e)
    BY <1>3, <2>1, ThreadTypes
  <2>2. CASE (\E announced \in BOOLEAN : TurnAway(d, announced)) \/ SendNow(d) \/ EndWrite(d) \/ Release(d)
    BY <1>0, <1>1, <2>2 DEF TurnAway, SendNow, EndWrite, Release, Members
  <2>3. CASE Unblock(d) \/ ReaderEnds(d)
    BY <1>0, <1>1, <2>3 DEF Unblock, ReaderEnds
  <2>4. CASE (\E wanted \in Wanted : Join(d, wanted)) \/ StartServing(d)
    <3>1. /\ clients' = clients \union {d} /\ sock' = sock
          /\ pc' = [pc EXCEPT ![d] = "joining"] \/ pc' = [pc EXCEPT ![d] = "serving"]
      BY <2>4 DEF Join, StartServing
    <3> QED BY <1>0, <3>1
  <2>5. CASE Leave(d)
    <3>1. clients' = clients \ {d} /\ pc' = [pc EXCEPT ![d] = "releasing"]
          /\ \A c \in clients : sock'[c] = "open" => sock[c] = "open"
      BY <1>0, <2>5 DEF Leave, Shutdown
    <3> QED BY <1>0, <3>1
  <2> QED BY <1>7, <2>1, <2>2, <2>3, <2>4, <2>5 DEF HandlerStep
<1> QED
  BY <1>2, <1>3, <1>4, <1>5, <1>6, <1>7, ThreadTypes DEF Next, DeviceStep, StopStep

LEMMA HolesStep ==
  ASSUME TypeOK, TypeOK', SlotInv, FanOutInv, PlaceInv, StreamsInv, HolesInv, [Next]_vars
  PROVE  HolesInv'
<1>1. SUFFICES ASSUME NEW c \in Conns, Receives(c)', Subscribed'
               PROVE  c \in clients' /\ (live'[c] + 1)..chunks' \subseteq Held(c)'
  BY NoneLeavesOpen DEF HolesInv
<1>0. /\ chunks \in Nat /\ live[c] \in Nat /\ live'[c] \in Nat /\ queue[c] \in Seq(Message)
      /\ DOMAIN live = Conns
  BY DEF TypeOK
<1>2. c \in clients' /\ Subscribed /\ sock'[c] = "open" /\ pc'[c] # "gone"
  BY <1>1, ReceiverSteps DEF Receives
<1>3. LiveInv(c) /\ StreamStep(c)
  BY StreamSteps DEF StreamsInv
<1>4. ChunksOf(Sentinel) = {} /\ ChunksIn(<<>>) = {}
  BY ChunksOfKinds, EmptyIsOrdered
<1>5. ASSUME live'[c] = chunks, chunks' = chunks PROVE (live'[c] + 1)..chunks' \subseteq Held(c)'
  <2>1. (chunks + 1)..chunks = {}
    BY <1>0
  <2> QED BY <1>5, <2>1
<1>6. ASSUME NEW wanted \in Wanted, Join(c, wanted) PROVE (live'[c] + 1)..chunks' \subseteq Held(c)'
  BY <1>0, <1>5, <1>6 DEF Join, device
<1>7. ASSUME Receives(c), c \in clients PROVE (live'[c] + 1)..chunks' \subseteq Held(c)'
  <2>0. (live[c] + 1)..chunks \subseteq Held(c)
    BY <1>2, <1>7 DEF HolesInv
  <2>a. Held(c) = ChunksOf(sending[c]) \union ChunksIn(queue[c]) \union (IF HandedTo(c) THEN {chunks} ELSE {})
    BY DEF Held, HandedTo
  <2>b. Held(c)' = ChunksOf(sending'[c]) \union ChunksIn(queue'[c])
                     \union (IF HandedTo(c)' THEN {chunks'} ELSE {})
    BY DEF Held, HandedTo, ChunksOf, ChunksIn
  <2>1. CASE Unmoved(c)
    BY <1>2, <2>0, <2>1, <2>a, <2>b DEF Unmoved
  <2>2. CASE Announced(c)
    <3>1. (live[c] + 1)..(chunks + 1) \subseteq (live[c] + 1)..chunks \union {chunks + 1}
      BY <1>0
    <3> QED BY <1>2, <1>7, <2>0, <2>2, <2>a, <2>b, <3>1 DEF Announced
  <2>3. ASSUME NEW msg \in Message, QueuedLast(c, msg)
        PROVE  (live'[c] + 1)..chunks' \subseteq Held(c)'
    <3>1. /\ queue'[c] = Append(queue[c], msg) /\ sending'[c] = sending[c] /\ live'[c] = live[c]
          /\ chunks' = chunks
          /\ HandedTo(c) => HandedTo(c)' \/ ChunksOf(msg) = {chunks}
      BY <2>3, ChunksOfKinds DEF QueuedLast
    <3>2. Increasing(msg.chunks)
      BY <2>3, ChunksOfKinds DEF QueuedLast
    <3>3. ChunksIn(queue'[c]) = ChunksIn(queue[c]) \union ChunksOf(msg)
      BY <1>0, <3>1, <3>2, OrderedAppend
    <3> QED BY <2>0, <2>a, <2>b, <3>1, <3>3
  <2>4. CASE Taken(c)
    <3>1. /\ sending[c] = Sentinel /\ sending'[c] = Head(queue[c]) /\ queue'[c] = Tail(queue[c])
          /\ queue[c] # <<>> /\ live'[c] = live[c] /\ chunks' = chunks /\ HandedTo(c)' = HandedTo(c)
      BY <2>4 DEF Taken
    <3>2. ChunksIn(queue[c]) = ChunksOf(Head(queue[c])) \union ChunksIn(Tail(queue[c]))
      BY <1>0, <3>1, OrderedHeadTail
    <3> QED BY <1>4, <2>0, <2>a, <2>b, <3>1, <3>2
  <2>5. CASE Sent(c)
    <3>1. /\ queue'[c] = queue[c] /\ sending'[c] = Sentinel /\ chunks' = chunks /\ HandedTo(c)' = HandedTo(c)
          /\ live'[c] = IF sending[c].kind = "rx" THEN Head(sending[c].chunks) ELSE live[c]
      BY <2>5 DEF Sent
    <3>2. \/ ChunksOf(sending[c]) = {} /\ live'[c] = live[c]
          \/ ChunksOf(sending[c]) = {live'[c]} /\ live[c] < live'[c]
      <4>1. IF sending[c].kind = "rx" THEN ChunksOf(sending[c]) = {Head(sending[c].chunks)}
            ELSE ChunksOf(sending[c]) = {}
        BY <1>0, <1>3, LiveChunks DEF LiveInv
      <4>2. \A n \in ChunksOf(sending[c]) : live[c] < n
        BY <1>3 DEF LiveInv, Fresh
      <4> QED BY <3>1, <4>1, <4>2
    <3>3. ASSUME NEW k \in (live'[c] + 1)..chunks PROVE k \in Held(c)'
      <4>1. k \in (live[c] + 1)..chunks /\ k # live'[c]
        BY <1>0, <3>2
      <4>2. k \in Held(c) /\ k \notin ChunksOf(sending[c])
        BY <2>0, <3>2, <4>1
      <4> QED BY <2>a, <2>b, <3>1, <4>2
    <3> QED BY <3>1, <3>3
  <2>6. CASE Lost(c)
    BY <1>2, <2>6 DEF Lost
  <2>7. CASE Joined(c)
    BY <1>5, <2>7 DEF Joined
  <2> QED BY <1>3, <2>1, <2>2, <2>3, <2>4, <2>5, <2>6, <2>7 DEF StreamStep
<1> QED BY <1>1, <1>2, <1>6, <1>7, ReceiverSteps

-----------------------------------------------------------------------------
(* The theorems *)

StreamInv == FanOutInv /\ PlaceInv /\ StreamsInv /\ HistoryInv /\ ReplayInv /\ HolesInv

LEMMA StreamInvHolds == Spec => [](TypeOK /\ SlotInv /\ StreamInv)
<1>1. Init => StreamInv
  <2> SUFFICES ASSUME Init PROVE StreamInv
    OBVIOUS
  <2>1. \A t \in Threads : fanOut[t].to = {}
    BY MessageTypes DEF Init, Idle, FanOut
  <2>2. Ordered(<<>>) /\ ChunksIn(<<>>) = {} /\ ChunksOf(Sentinel) = {} /\ DOMAIN <<>> = {}
    BY EmptyIsOrdered, ChunksOfKinds
  <2>3. FanOutInv
    BY <2>1, ThreadTypes DEF Init, FanOutInv, Busy
  <2>4. PlaceInv
    BY DEF Init, PlaceInv
  <2>5. StreamsInv
    BY <2>1, <2>2, ThreadTypes DEF Init, StreamsInv, LiveInv, Live
  <2>6. HistoryInv
    <3>1. Lines(<<>>) = <<>>
      BY <2>2 DEF Lines
    <3>2. ChunksOf(Old(<<>>)) = {} /\ Increasing(<<>>)
      BY <2>2, ChunksOfKinds DEF Increasing
    <3>3. replay = <<>> /\ pending = <<>>
      BY DEF Init
    <3> QED BY <2>2, <3>1, <3>2, <3>3 DEF HistoryInv
  <2>7. ReplayInv
    BY <2>2 DEF Init, ReplayInv
  <2>8. HolesInv
    BY DEF Init, HolesInv, Receives
  <2> QED BY <2>3, <2>4, <2>5, <2>6, <2>7, <2>8 DEF StreamInv
<1>2. TypeOK /\ TypeOK' /\ SlotInv /\ StreamInv /\ [Next]_vars => StreamInv'
  BY FanOutStep, PlaceStep, StreamsStep, HistoryStep, ReplayStep, HolesStep DEF StreamInv
<1> QED BY <1>1, <1>2, SlotInvHolds, PTL DEF Spec

LEMMA ComingIs ==
  ASSUME TypeOK, PlaceInv, StreamsInv, ReplayInv, NEW c \in Conns
  PROVE  /\ Ordered(Coming(c))
         /\ Held(c) \subseteq LiveComing(c)
<1> DEFINE first == IF writer[c] = "sending" THEN <<sending[c]>> ELSE <<>>
<1>0. /\ queue[c] \in Seq(Message) /\ toSend[c] \in Seq(Message) /\ sending[c] \in Message /\ live[c] \in Nat
      /\ chunks \in Nat /\ LiveInv(c) /\ first \in Seq(Message)
  BY DEF TypeOK, StreamsInv
<1>1. Ordered(first) /\ ChunksIn(first) = ChunksOf(sending[c])
  <2>1. CASE writer[c] = "sending"
    <3>1. Increasing(sending[c].chunks)
      BY <1>0, LiveChunks DEF LiveInv
    <3> QED BY <2>1, <3>1, SingleIsOrdered
  <2>2. CASE writer[c] # "sending"
    BY <2>2, EmptyIsOrdered, ChunksOfKinds DEF PlaceInv
  <2> QED BY <2>1, <2>2
<1>2. toSend[c] # <<>> => ChunksOf(sending[c]) = {}
  BY ChunksOfKinds DEF PlaceInv, Started
<1>3. /\ Ordered(toSend[c]) /\ ChunksIn(toSend[c]) \subseteq 0..live[c]
      /\ Ordered(queue[c]) /\ \A n \in ChunksIn(queue[c]) : live[c] < n
      /\ \A n \in ChunksOf(sending[c]), m \in ChunksIn(queue[c]) : n < m
  BY <1>0 DEF ReplayInv, LiveInv, Fresh
<1>4. \A a \in ChunksIn(first), b \in ChunksIn(toSend[c]) : a < b
  <2>1. toSend[c] = <<>> => ChunksIn(toSend[c]) = {}
    BY EmptyIsOrdered
  <2> QED BY <1>1, <1>2, <2>1
<1> HIDE DEF first
<1>5. /\ first \o toSend[c] \in Seq(Message) /\ Ordered(first \o toSend[c])
      /\ ChunksIn(first \o toSend[c]) = ChunksIn(first) \union ChunksIn(toSend[c])
  <2>1. first \o toSend[c] \in Seq(Message)
    BY <1>0
  <2> QED BY <1>0, <1>1, <1>3, <1>4, <2>1, OrderedConcat
<1>6. \A a \in ChunksIn(first \o toSend[c]), b \in ChunksIn(queue[c]) : a < b
  <2>1. \A a \in ChunksIn(queue[c]) : a \in Nat
    BY <1>0, ChunksInNat
  <2>2. \A a \in ChunksIn(toSend[c]), b \in ChunksIn(queue[c]) : a < b
    BY <1>0, <1>3, <2>1
  <2> QED BY <1>1, <1>3, <1>5, <2>2
<1>7. /\ Ordered((first \o toSend[c]) \o queue[c])
      /\ ChunksIn((first \o toSend[c]) \o queue[c]) = ChunksIn(first \o toSend[c]) \union ChunksIn(queue[c])
  BY <1>0, <1>3, <1>5, <1>6, OrderedConcat
<1>8. Coming(c) = (first \o toSend[c]) \o queue[c]
  BY DEF Coming, first
<1> QED BY <1>1, <1>5, <1>7, <1>8 DEF Held, LiveComing

\* S18: whatever a client is sent of the device's output, the history first and then the live
\* stream, never goes back and never repeats a chunk (server.py:431-438, 471).
THEOREM StreamIsInOrder == Spec => []OutputInOrder
<1>1. TypeOK /\ SlotInv /\ StreamInv => OutputInOrder
  BY ComingIs DEF StreamInv, OutputInOrder, ReplayInv
<1> QED BY <1>1, StreamInvHolds, PTL

\* PROTOCOL.md:184: a client that cannot keep up is dropped; one that is kept is never sent a
\* stream with a hole in it, however its queue fills and drains (server.py:653-676).
THEOREM NoHolesInTheStream == Spec => []LiveHasNoHoles
<1>1. TypeOK /\ SlotInv /\ StreamInv => LiveHasNoHoles
  <2> SUFFICES ASSUME TypeOK, SlotInv, StreamInv, NEW c \in clients, sock[c] = "open", Subscribed
               PROVE  (live[c] + 1)..chunks \subseteq LiveComing(c)
    BY DEF LiveHasNoHoles
  <2>1. c \in Conns /\ Receives(c)
    BY DEF TypeOK, SlotInv, Members, StreamInv, HolesInv, Receives
  <2>2. (live[c] + 1)..chunks \subseteq Held(c)
    BY <2>1 DEF StreamInv, HolesInv
  <2> QED BY <2>1, <2>2, ComingIs DEF StreamInv
<1> QED BY <1>1, StreamInvHolds, PTL
====
