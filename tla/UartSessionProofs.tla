-------------------------- MODULE UartSessionProofs --------------------------
(***************************************************************************)
(* What holds of a session for any number of threads calling stop(), any   *)
(* reasons a source may give, and any number of attempts to open it.       *)
(***************************************************************************)
EXTENDS UartSession, FiniteSetTheorems, TLAPS

USE ManagerAssumption, ReasonAssumption

LEMMA SayTypes ==
  ASSUME NEW reason \in Reasons
  PROVE  /\ Say("connected") \in Status
         /\ Say("disconnected") \in Status
         /\ Say("reconnecting") \in Status
         /\ SayWhy("waiting", reason) \in Status
         /\ SayWhy("error", reason) \in Status
         /\ SayWhy("refused", reason) \in Status
BY DEF Say, SayWhy, Status, StatusName, Error

\* A typed status leaves the health and the announcements typed.
LEMMA PublishTypes ==
  ASSUME TypeOK, NEW t \in Threads, NEW status \in Status, PublishStatus(t, status)
  PROVE  /\ health' \in Health
         /\ announcing' \in [Threads -> Status \union {Nothing}]
         /\ statuses' \in Seq(Status)
<1>1. status.state \in StatusName /\ status.error \in Error
  BY DEF Status
<1>2. health \in Health /\ health' = HealthAfter(status)
  BY DEF TypeOK, PublishStatus
<1>3. health' \in Health
  <2>1. CASE status.state = "connected"
    BY <1>1, <1>2, <2>1 DEF HealthAfter, Health, Error
  <2>2. CASE status.state # "connected"
    BY <1>1, <1>2, <2>2 DEF HealthAfter, Health
  <2> QED BY <2>1, <2>2
<1> QED BY <1>3 DEF PublishStatus, TypeOK

\* Type correctness: every variable keeps to the values the code gives it.
THEOREM TypeCorrect == Spec => []TypeOK
<1>1. Init => TypeOK
  <2> SUFFICES ASSUME Init PROVE TypeOK
    OBVIOUS
  <2>1. health \in Health
    BY DEF Init, Health, Error, StatusName
  <2>2. announcing \in [Threads -> Status \union {Nothing}]
    BY DEF Init
  <2>3. statuses \in Seq(Status)
    BY DEF Init
  <2> QED BY <2>1, <2>2, <2>3 DEF Init, TypeOK, Error
<1>2. TypeOK /\ [Next]_vars => TypeOK'
  <2> SUFFICES ASSUME TypeOK, [Next]_vars PROVE TypeOK'
    OBVIOUS
  <2>0. Manager \in Threads /\ \A s \in Stoppers : s \in Threads
    BY DEF Threads
  <2>1. CASE Start
    BY <2>1 DEF Start, TypeOK, source, published, received
  <2>2. CASE BeginOpen
    BY <2>2 DEF BeginOpen, TypeOK, source, published, received
  <2>3. CASE OpenSucceeds
    <3>1. PublishStatus(Manager, Say("connected")) /\ Say("connected") \in Status
      BY <2>3 DEF OpenSucceeds, Say, Status, StatusName, Error
    <3> QED BY <2>0, <2>3, <3>1, PublishTypes DEF OpenSucceeds, TypeOK, Error, received
  <2>4. ASSUME NEW reason \in Reasons, OpenRefused(reason) PROVE TypeOK'
    <3>1. PublishStatus(Manager, SayWhy("refused", reason))
      BY <2>4 DEF OpenRefused
    <3> QED BY <2>0, <2>4, <3>1, SayTypes, PublishTypes DEF OpenRefused, TypeOK, source, received
  <2>5. ASSUME NEW reason \in Reasons, OpenFails(reason) PROVE TypeOK'
    <3>1. CASE reason = lastWait
      BY <2>5, <3>1 DEF OpenFails, TypeOK, source, received, published
    <3>2. CASE reason # lastWait
      <4>1. PublishStatus(Manager, SayWhy("waiting", reason))
        BY <2>5, <3>2 DEF OpenFails
      <4> QED BY <2>0, <2>5, <3>2, <4>1, SayTypes, PublishTypes DEF OpenFails, TypeOK, Error, source, received
    <3> QED BY <3>1, <3>2
  <2>6. CASE Pause
    BY <2>6 DEF Pause, TypeOK, source, published, received
  <2>7. CASE BeginRead
    BY <2>7 DEF BeginRead, TypeOK, source, published, received
  <2>8. ASSUME NEW ends \in BOOLEAN, NEW tail \in BOOLEAN, ReadData(ends, tail) PROVE TypeOK'
    BY <2>8 DEF ReadData, TypeOK, source, published
  <2>9. CASE ReadNothing
    BY <2>9 DEF ReadNothing, FlushPending, TypeOK, source, published, received
  <2>10. ASSUME NEW reason \in Reasons, ReadFails(reason) PROVE TypeOK'
    <3>1. PublishStatus(Manager, SayWhy("error", reason))
      BY <2>10 DEF ReadFails
    <3> QED BY <2>0, <2>10, <3>1, SayTypes, PublishTypes DEF ReadFails, TypeOK, source, received
  <2>11. CASE LeaveReadLoop
    BY <2>11 DEF LeaveReadLoop, FlushPending, TypeOK, source, published
  <2>12. CASE CloseSource
    BY <2>12 DEF CloseSource, TypeOK, published, received
  <2>13. CASE AfterClose
    <3>1. Say("reconnecting") \in Status
      BY DEF Say, Status, StatusName, Error
    <3>2. CASE stopping \/ ~autoReconnect
      BY <2>13, <3>2 DEF AfterClose, TypeOK, source, published, received
    <3>3. CASE ~(stopping \/ ~autoReconnect)
      BY <2>0, <2>13, <3>1, <3>3, PublishTypes DEF AfterClose, TypeOK, source, received
    <3> QED BY <3>2, <3>3
  <2>14. CASE Finish
    <3>1. Say("disconnected") \in Status
      BY DEF Say, Status, StatusName, Error
    <3>2. CASE running
      BY <2>0, <2>14, <3>1, <3>2, PublishTypes DEF Finish, TypeOK, source, received
    <3>3. CASE ~running
      BY <2>14, <3>3 DEF Finish, TypeOK, source, published, received
    <3> QED BY <3>2, <3>3
  <2>15. ASSUME NEW t \in Threads, EmitStatus(t) PROVE TypeOK'
    <3>1. announcing[t] \in Status
      BY <2>15 DEF EmitStatus, Free, TypeOK
    <3>2. statuses' \in Seq(Status)
      BY <2>15, <3>1 DEF EmitStatus, TypeOK
    <3> QED BY <2>15, <3>2 DEF EmitStatus, TypeOK, source, manager, received
  <2>16. ASSUME NEW s \in Stoppers, CallStop(s) PROVE TypeOK'
    BY <2>16 DEF CallStop, TypeOK, source, manager, published, received
  <2>17. ASSUME NEW s \in Stoppers, SetStop(s) PROVE TypeOK'
    BY <2>17 DEF SetStop, TypeOK, source, manager, published, received
  <2>18. ASSUME NEW s \in Stoppers, Joined(s) PROVE TypeOK'
    <3>1. PublishStatus(s, Say("disconnected")) /\ Say("disconnected") \in Status
      BY <2>18 DEF Joined, Say, Status, StatusName, Error
    <3> QED BY <2>0, <2>18, <3>1, PublishTypes DEF Joined, TypeOK, source, manager, received
  <2>19. ASSUME NEW s \in Stoppers, StopReturns(s) PROVE TypeOK'
    BY <2>19 DEF StopReturns, TypeOK, source, manager, published, received
  <2>21. ASSUME NEW s \in Stoppers, Expires(s) PROVE TypeOK'
    <3>1. PublishStatus(s, Say("disconnected")) /\ Say("disconnected") \in Status
      BY <2>21 DEF Expires, Say, Status, StatusName, Error
    <3> QED BY <2>0, <2>21, <3>1, PublishTypes DEF Expires, TypeOK, source, manager, received
  <2>20. CASE UNCHANGED vars
    BY <2>20 DEF vars, TypeOK, source, manager, published, received
  <2> QED
    BY <2>0, <2>1, <2>2, <2>3, <2>4, <2>5, <2>6, <2>7, <2>8, <2>9, <2>10, <2>11, <2>12,
       <2>13, <2>14, <2>15, <2>16, <2>17, <2>18, <2>19, <2>20, <2>21
       DEF Next, ManagerStep, StopStep
<1> QED BY <1>1, <1>2, PTL DEF Spec
-----------------------------------------------------------------------------
(***************************************************************************)
(* The end is announced once.  A thread owes the announcement from the     *)
(* moment _end() lets it through until its event has gone out; EndInv says *)
(* that at most one thread owes it, and none once it is made.              *)
(***************************************************************************)
Owes(t) ==
  \/ announcing[t].state = "disconnected"
  \/ t \in Stoppers /\ stopper[t] \in {"ending", "joining"}

NobodyOwes == \A t \in Threads : ~Owes(t)
NotAnnounced == \A i \in 1..Len(statuses) : ~IsEnd(i)

NotStarted ==
  /\ ~running /\ statuses = <<>>
  /\ \A t \in Threads : Free(t)
  /\ \A s \in Stoppers : stopper[s] \in {"idle", "returned"}

EndInv ==
  /\ \A s \in Stoppers : ~Free(s) => stopper[s] \in {"announcing", "leaving"}
  /\ \A s \in Stoppers : ~Free(s) => announcing[s].state = "disconnected"
  /\ announcing[Manager].state = "disconnected" => mgr = "done"
  /\ mgr = "new" => NotStarted
  /\ running => NobodyOwes /\ NotAnnounced
  /\ \A t, u \in Threads : Owes(t) /\ Owes(u) => t = u
  /\ NobodyOwes \/ NotAnnounced
  /\ EndAnnouncedOnce

\* A step of the manager that leaves the end alone: it announces nothing, or another status.
LEMMA ManagerLeavesTheEnd ==
  ASSUME TypeOK, EndInv, Free(Manager),
         UNCHANGED <<running, stopper>>, mgr # "new", mgr' # "new",
         \/ UNCHANGED published
         \/ \E status \in Status : /\ status.state # "disconnected"
                                   /\ PublishStatus(Manager, status)
  PROVE  EndInv'
<1>0. Manager \in Threads /\ Stoppers \subseteq Threads
  BY DEF Threads
<1>1. statuses' = statuses
  BY DEF published, PublishStatus
<1>2. \A s \in Stoppers : announcing'[s] = announcing[s] /\ stopper'[s] = stopper[s]
  BY <1>0 DEF published, PublishStatus, TypeOK
<1>3. announcing'[Manager].state # "disconnected"
  BY <1>0 DEF published, PublishStatus, TypeOK, Free, Nothing
<1>4. \A t \in Threads : Owes(t)' => Owes(t)
  BY <1>2, <1>3 DEF Owes, Threads
<1>5. \A t \in Threads : Owes(t) => Owes(t)'
  BY <1>2 DEF Owes, Threads, Free, Nothing
<1>6. /\ NobodyOwes' <=> NobodyOwes
      /\ NotAnnounced' <=> NotAnnounced
      /\ EndAnnouncedOnce' <=> EndAnnouncedOnce
  BY <1>1, <1>4, <1>5 DEF NobodyOwes, NotAnnounced, EndAnnouncedOnce, IsEnd, Threads
<1>7. \A s \in Stoppers : Free(s)' <=> Free(s)
  BY <1>2 DEF Free
<1> QED BY <1>2, <1>3, <1>4, <1>6, <1>7 DEF EndInv

\* Emitting the end discharges the one thread that owed it.
LEMMA EmitKeepsEndInv ==
  ASSUME TypeOK, EndInv, NEW t \in Threads, EmitStatus(t)
  PROVE  EndInv'
<1>0. Manager \in Threads /\ Stoppers \subseteq Threads
  BY DEF Threads
<1>1. /\ statuses' = Append(statuses, announcing[t])
      /\ announcing' = [announcing EXCEPT ![t] = Nothing]
      /\ ~Free(t)
      /\ UNCHANGED <<running, stopper, mgr>>
  BY DEF EmitStatus, manager
<1>2. announcing \in [Threads -> Status \union {Nothing}] /\ statuses \in Seq(Status)
  BY DEF TypeOK
<1>3. announcing[t] \in Status
  BY <1>1, <1>2 DEF Free
<1>4. /\ Len(statuses') = Len(statuses) + 1
      /\ statuses'[Len(statuses) + 1] = announcing[t]
      /\ \A i \in 1..Len(statuses) : statuses'[i] = statuses[i]
  BY <1>1, <1>2, <1>3
<1>5. \A u \in Threads : u # t => announcing'[u] = announcing[u]
  BY <1>1, <1>2
<1>6. announcing'[t] = Nothing
  BY <1>1, <1>2
<1>7. mgr # "new"
  BY <1>1 DEF EndInv, NotStarted
<1>8. \A u \in Threads : Owes(u)' => Owes(u) /\ u # t
  <2> SUFFICES ASSUME NEW u \in Threads, Owes(u)' PROVE Owes(u) /\ u # t
    OBVIOUS
  <2>1. CASE u = t
    <3>1. t \in Stoppers => stopper[t] \in {"announcing", "leaving"}
      BY <1>1 DEF EndInv
    <3> QED BY <1>1, <1>6, <2>1, <3>1 DEF Owes, Nothing
  <2>2. CASE u # t
    BY <1>1, <1>5, <2>2 DEF Owes
  <2> QED BY <2>1, <2>2
<1>9. \A s \in Stoppers : Free(s) \/ s = t => Free(s)'
  BY <1>0, <1>5, <1>6 DEF Free
<1>10. CASE announcing[t].state = "disconnected"
  <2>1. Owes(t)
    BY <1>10 DEF Owes
  <2>2. NotAnnounced /\ ~running
    BY <2>1 DEF EndInv, NobodyOwes
  <2>3. NobodyOwes'
    BY <1>8, <2>1 DEF EndInv, NobodyOwes
  <2>4. EndAnnouncedOnce'
    <3>1. \A i \in 1..Len(statuses') : IsEnd(i)' => i = Len(statuses) + 1
      BY <1>2, <1>4, <2>2 DEF IsEnd, NotAnnounced
    <3> QED BY <3>1 DEF EndAnnouncedOnce
  <2> QED BY <1>0, <1>1, <1>5, <1>6, <1>7, <1>8, <1>9, <2>2, <2>3, <2>4
          DEF EndInv, NobodyOwes, Nothing, Free
<1>11. CASE announcing[t].state # "disconnected"
  <2>1. NotAnnounced => NotAnnounced'
    BY <1>2, <1>4, <1>11 DEF NotAnnounced, IsEnd
  <2>2. EndAnnouncedOnce'
    <3>1. \A i \in 1..Len(statuses') : IsEnd(i)' => i \in 1..Len(statuses) /\ IsEnd(i)
      BY <1>2, <1>4, <1>11 DEF IsEnd
    <3> QED BY <3>1 DEF EndAnnouncedOnce, EndInv
  <2>3. NobodyOwes => NobodyOwes'
    BY <1>8 DEF NobodyOwes
  <2> QED BY <1>0, <1>1, <1>5, <1>6, <1>7, <1>8, <1>9, <2>1, <2>2, <2>3
          DEF EndInv, Nothing, Free
<1> QED BY <1>10, <1>11

\* Ending the session: whoever finds `running` set is the only thread to owe the end.
LEMMA EndingKeepsEndInv ==
  ASSUME TypeOK, EndInv, NEW t \in Threads, running, ~running', mgr' # "new",
         UNCHANGED statuses,
         \A u \in Threads : u # t => announcing'[u] = announcing[u],
         \A s \in Stoppers : s # t => stopper'[s] = stopper[s],
         t \in Stoppers => announcing'[t] = announcing[t] /\ Free(t),
         t # Manager => mgr' = mgr,
         t = Manager => mgr' = "done"
  PROVE  EndInv'
<1>0. Manager \in Threads /\ Stoppers \subseteq Threads /\ (t # Manager => t \in Stoppers)
  BY DEF Threads
<1>1. NobodyOwes /\ NotAnnounced
  BY DEF EndInv
<1>2. \A u \in Threads : u # t => ~Owes(u)'
  BY <1>1 DEF NobodyOwes, Owes
<1>3. NotAnnounced' /\ EndAnnouncedOnce'
  BY <1>1 DEF NotAnnounced, EndAnnouncedOnce, IsEnd
<1>4. \A s \in Stoppers : ~Free(s)' => s # t /\ ~Free(s)
  BY <1>0 DEF Free
<1>5. \A s \in Stoppers : ~Free(s)' => stopper'[s] \in {"announcing", "leaving"}
                                       /\ announcing'[s].state = "disconnected"
  BY <1>0, <1>4 DEF EndInv
<1>6. announcing'[Manager].state = "disconnected" => mgr' = "done"
  BY <1>0 DEF EndInv
<1> QED BY <1>2, <1>3, <1>5, <1>6 DEF EndInv

LEMMA EndInvHolds == Spec => []EndInv
<1>1. Init => EndInv
  BY DEF Init, EndInv, NotStarted, Free, Owes, Nothing, NobodyOwes, NotAnnounced,
         EndAnnouncedOnce, IsEnd, Threads
<1>2. TypeOK /\ EndInv /\ [Next]_vars => EndInv'
  <2> SUFFICES ASSUME TypeOK, EndInv, [Next]_vars PROVE EndInv'
    OBVIOUS
  <2>0. Manager \in Threads /\ Stoppers \subseteq Threads
    BY DEF Threads
  <2>1. CASE Start
    <3>1. NotStarted /\ mgr' = "deciding" /\ UNCHANGED <<stopper, health, announcing, statuses>>
      BY <2>1 DEF Start, EndInv, published
    <3>2. NobodyOwes /\ NotAnnounced
      BY <3>1 DEF NotStarted, NobodyOwes, NotAnnounced, IsEnd, Owes, Free, Nothing
    <3>3. NobodyOwes' /\ NotAnnounced' /\ EndAnnouncedOnce'
      BY <3>1, <3>2 DEF NobodyOwes, NotAnnounced, IsEnd, Owes, EndAnnouncedOnce
    <3>4. \A t \in Threads : Free(t) /\ Free(t)'
      BY <3>1 DEF NotStarted, Free
    <3>5. announcing'[Manager].state # "disconnected"
      BY <2>0, <3>4 DEF Free, Nothing
    <3> QED BY <2>0, <3>1, <3>3, <3>4, <3>5 DEF EndInv, NobodyOwes
  <2>2. CASE BeginOpen \/ Pause \/ BeginRead \/ ReadNothing \/ LeaveReadLoop \/ CloseSource
             \/ \E ends, tail \in BOOLEAN : ReadData(ends, tail)
    <3>1. /\ UNCHANGED <<running, stopper, published>>
          /\ mgr # "new" /\ mgr' # "new" /\ Free(Manager)
      BY <2>2 DEF BeginOpen, Pause, BeginRead, ReadNothing, LeaveReadLoop, CloseSource,
         ReadData, ManagerAt
    <3> QED BY <3>1, ManagerLeavesTheEnd
  <2>3. CASE OpenSucceeds \/ AfterClose
             \/ \E reason \in Reasons : OpenRefused(reason) \/ OpenFails(reason)
                                        \/ ReadFails(reason)
    <3>1. /\ Say("connected") \in Status /\ Say("reconnecting") \in Status
          /\ Say("connected").state # "disconnected"
          /\ Say("reconnecting").state # "disconnected"
      BY DEF Say, Status, StatusName, Error
    <3>2. ASSUME NEW reason \in Reasons, NEW state \in {"refused", "waiting", "error"}
          PROVE  /\ SayWhy(state, reason) \in Status
                 /\ SayWhy(state, reason).state # "disconnected"
      BY DEF SayWhy, Status, StatusName, Error
    <3>3. CASE OpenSucceeds
      BY <3>1, <3>3, ManagerLeavesTheEnd DEF OpenSucceeds, ManagerAt
    <3>4. CASE AfterClose
      BY <3>1, <3>4, ManagerLeavesTheEnd DEF AfterClose, ManagerAt
    <3>5. ASSUME NEW reason \in Reasons, OpenRefused(reason) PROVE EndInv'
      BY <3>2, <3>5, ManagerLeavesTheEnd DEF OpenRefused, ManagerAt
    <3>6. ASSUME NEW reason \in Reasons, OpenFails(reason) PROVE EndInv'
      BY <3>2, <3>6, ManagerLeavesTheEnd DEF OpenFails, ManagerAt
    <3>7. ASSUME NEW reason \in Reasons, ReadFails(reason) PROVE EndInv'
      BY <3>2, <3>7, ManagerLeavesTheEnd DEF ReadFails, ManagerAt
    <3> QED BY <2>3, <3>3, <3>4, <3>5, <3>6, <3>7
  <2>4. CASE Finish
    <3>1. CASE running
      <4>1. PublishStatus(Manager, Say("disconnected")) /\ mgr' = "done" /\ ~running'
            /\ UNCHANGED stopper
        BY <2>4, <3>1 DEF Finish
      <4> QED BY <2>0, <3>1, <4>1, EndingKeepsEndInv DEF PublishStatus, TypeOK
    <3>2. CASE ~running
      BY <2>4, <3>2, ManagerLeavesTheEnd DEF Finish, ManagerAt, TypeOK
    <3> QED BY <3>1, <3>2
  <2>5. ASSUME NEW t \in Threads, EmitStatus(t) PROVE EndInv'
    BY <2>5, EmitKeepsEndInv
  <2>6. ASSUME NEW s \in Stoppers, CallStop(s) PROVE EndInv'
    <3>1. CASE running
      <4>1. Free(s)
        BY <2>6 DEF CallStop, EndInv
      <4>2. mgr # "new"
        BY <3>1 DEF EndInv, NotStarted
      <4> QED BY <2>0, <2>6, <3>1, <4>1, <4>2, EndingKeepsEndInv
              DEF CallStop, TypeOK, published, manager
    <3>2. CASE ~running
      <4>1. /\ stopper' = [stopper EXCEPT ![s] = "returned"] /\ running' = FALSE
            /\ UNCHANGED <<mgr, announcing, statuses>> /\ stopper[s] = "idle"
        BY <2>6, <3>2 DEF CallStop, manager, published
      <4>2. \A t \in Threads : Owes(t)' <=> Owes(t)
        BY <4>1 DEF Owes, TypeOK
      <4> QED BY <3>2, <4>1, <4>2 DEF EndInv, NobodyOwes, NotAnnounced, EndAnnouncedOnce,
                 IsEnd, Free, NotStarted, TypeOK
    <3> QED BY <3>1, <3>2
  <2>7. ASSUME NEW s \in Stoppers, SetStop(s) PROVE EndInv'
    <3>1. /\ stopper' = [stopper EXCEPT ![s] = "joining"] /\ stopper[s] = "ending"
          /\ UNCHANGED <<running, mgr, announcing, statuses>>
      BY <2>7 DEF SetStop, manager, published
    <3>2. \A t \in Threads : Owes(t)' <=> Owes(t)
      BY <3>1 DEF Owes, TypeOK
    <3> QED BY <3>1, <3>2 DEF EndInv, NobodyOwes, NotAnnounced, EndAnnouncedOnce,
               IsEnd, Free, NotStarted, TypeOK
  <2>8. ASSUME NEW s \in Stoppers, Joined(s) \/ Expires(s) PROVE EndInv'
    <3>1. PICK next \in {"announcing", "leaving"} :
            /\ stopper' = [stopper EXCEPT ![s] = next] /\ stopper[s] = "joining"
            /\ announcing' = [announcing EXCEPT ![s] = Say("disconnected")]
            /\ UNCHANGED <<running, mgr, statuses>>
      BY <2>8 DEF Joined, Expires, PublishStatus, manager
    <3>2. \A t \in Threads : Owes(t)' <=> Owes(t)
      BY <2>0, <3>1 DEF Owes, Say, TypeOK
    <3>3. \A u \in Stoppers : u # s => announcing'[u] = announcing[u] /\ stopper'[u] = stopper[u]
      BY <2>0, <3>1 DEF TypeOK
    <3>4. announcing'[s].state = "disconnected" /\ stopper'[s] \in {"announcing", "leaving"}
      BY <2>0, <3>1 DEF TypeOK, Say
    <3>5. announcing'[Manager] = announcing[Manager]
      BY <2>0, <3>1 DEF TypeOK
    <3>6. mgr # "new"
      BY <3>1 DEF EndInv, NotStarted
    <3>7. /\ NobodyOwes' <=> NobodyOwes
          /\ NotAnnounced' <=> NotAnnounced
          /\ EndAnnouncedOnce' <=> EndAnnouncedOnce
      BY <3>1, <3>2 DEF NobodyOwes, NotAnnounced, EndAnnouncedOnce, IsEnd
    <3> QED BY <3>1, <3>2, <3>3, <3>4, <3>5, <3>6, <3>7 DEF EndInv, Free
  <2>9. ASSUME NEW s \in Stoppers, StopReturns(s) PROVE EndInv'
    <3>1. PICK next \in {"stopped", "left"} :
            /\ stopper' = [stopper EXCEPT ![s] = next] /\ stopper[s] \in {"announcing", "leaving"}
            /\ Free(s) /\ UNCHANGED <<running, mgr, announcing, statuses>>
      BY <2>9 DEF StopReturns, manager, published
    <3>2. \A t \in Threads : Owes(t)' <=> Owes(t)
      BY <3>1 DEF Owes, TypeOK
    <3>3. mgr # "new"
      BY <3>1 DEF EndInv, NotStarted
    <3> QED BY <3>1, <3>2, <3>3 DEF EndInv, NobodyOwes, NotAnnounced, EndAnnouncedOnce,
               IsEnd, Free, TypeOK
  <2>10. CASE UNCHANGED vars
    BY <2>10 DEF vars, manager, published, EndInv, NobodyOwes, NotAnnounced, NotStarted,
       EndAnnouncedOnce, IsEnd, Free, Owes
  <2> QED
    BY <2>0, <2>1, <2>2, <2>3, <2>4, <2>5, <2>6, <2>7, <2>8, <2>9, <2>10
       DEF Next, ManagerStep, StopStep
<1> QED BY <1>1, <1>2, TypeCorrect, PTL DEF Spec

\* S12: the end of a session is announced at most once, whoever ends it and whenever.
THEOREM AnnouncedOnce == Spec => []EndAnnouncedOnce
<1>1. EndInv => EndAnnouncedOnce
  BY DEF EndInv
<1> QED BY <1>1, EndInvHolds, PTL
-----------------------------------------------------------------------------
(***************************************************************************)
(* The reader's side: what is pending and whether the source is open       *)
(* depend only on where the manager is.                                    *)
(***************************************************************************)
ReadInv ==
  /\ sourceOpen => mgr \in {"reading", "inRead", "dropping", "closing"}
  /\ connected  => mgr \in {"reading", "inRead", "dropping"}
  /\ pending # {} => mgr \in {"reading", "inRead", "dropping"}
  /\ pending \subseteq {conn}
  /\ \A line \in lines : \E c \in Nat : line \subseteq {c}

LEMMA ReadInvHolds == Spec => []ReadInv
<1>1. Init => ReadInv
  BY DEF Init, ReadInv
<1>2. TypeOK /\ ReadInv /\ [Next]_vars => ReadInv'
  <2> SUFFICES ASSUME TypeOK, ReadInv, [Next]_vars PROVE ReadInv'
    OBVIOUS
  <2> USE DEF ReadInv
  <2>1. CASE Start
    BY <2>1 DEF Start, source, received
  <2>2. CASE BeginOpen
    BY <2>2 DEF BeginOpen, ManagerAt, received
  <2>3. CASE OpenSucceeds
    BY <2>3 DEF OpenSucceeds, ManagerAt, received
  <2>4. ASSUME NEW reason \in Reasons, OpenRefused(reason) \/ OpenFails(reason) PROVE ReadInv'
    BY <2>4 DEF OpenRefused, OpenFails, ManagerAt, source, received
  <2>5. CASE Pause
    BY <2>5 DEF Pause, ManagerAt, source, received
  <2>6. CASE BeginRead
    BY <2>6 DEF BeginRead, ManagerAt, source, received
  <2>7. ASSUME NEW ends \in BOOLEAN, NEW tail \in BOOLEAN, ReadData(ends, tail) PROVE ReadInv'
    <3>1. conn \in Nat /\ UNCHANGED <<sourceOpen, connected, conn>> /\ mgr' = "reading"
      BY <2>7 DEF ReadData, TypeOK, source
    <3>2. pending' \subseteq {conn}
      BY <2>7 DEF ReadData
    <3>3. \A line \in lines' : \E c \in Nat : line \subseteq {c}
      BY <2>7, <3>1 DEF ReadData
    <3> QED BY <2>7, <3>1, <3>2, <3>3 DEF ReadData, ManagerAt
  <2>8. CASE ReadNothing \/ LeaveReadLoop
    <3>1. conn \in Nat /\ UNCHANGED <<sourceOpen, conn>>
      BY <2>8 DEF ReadNothing, LeaveReadLoop, TypeOK, source
    <3>2. /\ pending' \subseteq pending
          /\ \A line \in lines' : \E c \in Nat : line \subseteq {c}
      BY <2>8, <3>1 DEF ReadNothing, LeaveReadLoop, FlushPending, received
    <3> QED BY <2>8, <3>1, <3>2 DEF ReadNothing, LeaveReadLoop, FlushPending, ManagerAt
  <2>9. ASSUME NEW reason \in Reasons, ReadFails(reason) PROVE ReadInv'
    BY <2>9 DEF ReadFails, ManagerAt, source, received
  <2>10. CASE CloseSource
    BY <2>10 DEF CloseSource, ManagerAt, received
  <2>11. CASE AfterClose \/ Finish
    BY <2>11 DEF AfterClose, Finish, ManagerAt, source, received
  <2>12. ASSUME NEW t \in Threads, EmitStatus(t) PROVE ReadInv'
    BY <2>12 DEF EmitStatus, source, manager, received
  <2>13. ASSUME NEW s \in Stoppers, CallStop(s) \/ SetStop(s) \/ Joined(s) \/ Expires(s)
                                 \/ StopReturns(s)
         PROVE  ReadInv'
    BY <2>13 DEF CallStop, SetStop, Joined, Expires, StopReturns, source, manager, received
  <2>14. CASE UNCHANGED vars
    BY <2>14 DEF vars, source, manager, received
  <2>15. Manager \in Threads /\ Stoppers \subseteq Threads
    BY DEF Threads
  <2> QED
    BY <2>1, <2>2, <2>3, <2>4, <2>5, <2>6, <2>7, <2>8, <2>9, <2>10, <2>11, <2>12, <2>13,
       <2>14, <2>15 DEF Next, ManagerStep, StopStep
<1> QED BY <1>1, <1>2, TypeCorrect, PTL DEF Spec

\* S3, S12: no line mixes the bytes of two connections, however often the source drops.
THEOREM NoLineSpansADrop == Spec => []LinesWithinOneConnection
<1>1. ReadInv => LinesWithinOneConnection
  <2> SUFFICES ASSUME ReadInv, NEW line \in lines PROVE Cardinality(line) <= 1
    BY DEF LinesWithinOneConnection
  <2>1. PICK c \in Nat : line \subseteq {c}
    BY DEF ReadInv
  <2>2. CASE line = {}
    <3>1. Cardinality({}) = 0
      BY FS_EmptySet, Zenon
    <3> QED BY <2>2, <3>1
  <2>3. CASE line = {c}
    <3>1. Cardinality({c}) = 1
      BY FS_Singleton, Zenon
    <3> QED BY <2>3, <3>1
  <2> QED BY <2>1, <2>2, <2>3
<1> QED BY <1>1, ReadInvHolds, PTL

\* Nothing is stopped that was not started, and a stop() that has seen its join through
\* finds the manager dead.
WaitInv ==
  /\ running => mgr # "new"
  /\ \A s \in Stoppers : stopper[s] \notin {"idle", "returned"} => mgr # "new"
  /\ \A s \in Stoppers : stopper[s] \in {"announcing", "stopped"} => mgr = "done"

LEMMA WaitInvHolds == Spec => []WaitInv
<1>1. Init => WaitInv
  BY DEF Init, WaitInv
<1>2. TypeOK /\ WaitInv /\ [Next]_vars => WaitInv'
  <2> SUFFICES ASSUME TypeOK, WaitInv, [Next]_vars PROVE WaitInv'
    OBVIOUS
  <2> USE DEF WaitInv
  <2>1. CASE Start
    BY <2>1 DEF Start
  <2>2. CASE BeginOpen \/ OpenSucceeds \/ Pause \/ BeginRead \/ ReadNothing \/ LeaveReadLoop
             \/ CloseSource \/ AfterClose \/ Finish
             \/ (\E reason \in Reasons : OpenRefused(reason) \/ OpenFails(reason)
                                         \/ ReadFails(reason))
             \/ \E ends, tail \in BOOLEAN : ReadData(ends, tail)
    <3>1. /\ stopper' = stopper /\ (running' => running)
          /\ mgr \notin {"new", "done"} /\ mgr' # "new"
      BY <2>2 DEF BeginOpen, OpenSucceeds, Pause, BeginRead, ReadNothing, LeaveReadLoop,
         CloseSource, AfterClose, Finish, OpenRefused, OpenFails, ReadFails, ReadData, ManagerAt
    <3> QED BY <3>1
  <2>3. ASSUME NEW t \in Threads, EmitStatus(t) PROVE WaitInv'
    BY <2>3 DEF EmitStatus, manager
  <2>4. ASSUME NEW s \in Stoppers, CallStop(s) PROVE WaitInv'
    BY <2>4 DEF CallStop, manager, TypeOK
  <2>5. ASSUME NEW s \in Stoppers, SetStop(s) \/ StopReturns(s) PROVE WaitInv'
    BY <2>5 DEF SetStop, StopReturns, manager, TypeOK
  <2>6. ASSUME NEW s \in Stoppers, Joined(s) PROVE WaitInv'
    <3>1. mgr = "done" /\ mgr' = mgr /\ stopper' = [stopper EXCEPT ![s] = "announcing"]
          /\ running' = running
      BY <2>6 DEF Joined, ManagerAlive, manager, TypeOK
    <3> QED BY <3>1 DEF TypeOK
  <2>7. CASE UNCHANGED vars
    BY <2>7 DEF vars, manager
  <2>9. ASSUME NEW s \in Stoppers, Expires(s) PROVE WaitInv'
    <3>1. /\ stopper[s] = "joining" /\ stopper' = [stopper EXCEPT ![s] = "leaving"]
          /\ mgr' = mgr /\ running' = running
      BY <2>9 DEF Expires, manager
    <3> QED BY <3>1 DEF TypeOK
  <2>8. Manager \in Threads /\ Stoppers \subseteq Threads
    BY DEF Threads
  <2> QED BY <2>1, <2>2, <2>3, <2>4, <2>5, <2>6, <2>7, <2>8, <2>9 DEF Next, ManagerStep, StopStep
<1> QED BY <1>1, <1>2, TypeCorrect, PTL DEF Spec

\* session.py:106-113: a stop() that has seen the manager end returns with the source closed
\* for good and no partial line held back; after one whose join expired, wherever the manager
\* was, that is so once the manager is dead.
THEOREM StopCloses == Spec => []StopClosesTheSource
<1>1. WaitInv /\ ReadInv => StopClosesTheSource
  BY DEF WaitInv, ReadInv, StopClosesTheSource, Closed, ManagerAlive
<1> QED BY <1>1, WaitInvHolds, ReadInvHolds, PTL
-----------------------------------------------------------------------------
(***************************************************************************)
(* What a subscriber is told until the join of a stop() expires.  A        *)
(* status is on its way between _publish_status recording it and its event *)
(* going out: Told is the last one the manager has recorded.  StreamInv    *)
(* says that only one thread has a status on its way, that it may follow   *)
(* the last that went out, and that where the manager is tells what it has *)
(* said last.  All of it is lost with the join: stop() then speaks while   *)
(* the manager still does.                                                 *)
(***************************************************************************)
\* A stop() that has gone on without the manager stays one that has.
LEMMA OutlastedStays ==
  ASSUME TypeOK, [Next]_vars, Outlasted
  PROVE  Outlasted'
<1>1. PICK x \in Stoppers : stopper[x] \in {"leaving", "left"}
  BY DEF Outlasted
<1>2. stopper'[x] \in {"leaving", "left"}
  <2>1. CASE stopper' = stopper
    BY <1>1, <2>1
  <2>2. ASSUME NEW s \in Stoppers, CallStop(s) \/ SetStop(s) \/ Joined(s) \/ Expires(s) \/ StopReturns(s)
        PROVE  stopper'[x] \in {"leaving", "left"}
    BY <1>1, <2>2 DEF CallStop, SetStop, Joined, Expires, StopReturns, TypeOK
  <2>3. CASE \/ Start \/ BeginOpen \/ OpenSucceeds \/ Pause \/ BeginRead \/ ReadNothing \/ LeaveReadLoop
             \/ CloseSource \/ AfterClose \/ Finish
             \/ (\E reason \in Reasons : OpenRefused(reason) \/ OpenFails(reason) \/ ReadFails(reason))
             \/ (\E ends, tail \in BOOLEAN : ReadData(ends, tail))
             \/ (\E t \in Threads : EmitStatus(t)) \/ UNCHANGED vars
    BY <2>1, <2>3 DEF Start, BeginOpen, OpenSucceeds, Pause, BeginRead, ReadNothing, LeaveReadLoop,
       CloseSource, AfterClose, Finish, OpenRefused, OpenFails, ReadFails, ReadData, EmitStatus, vars
  <2> QED BY <2>2, <2>3 DEF Next, ManagerStep, StopStep, Threads
<1> QED BY <1>1, <1>2 DEF Outlasted

\* A step after which none has is not one that gives up waiting.
LEMMA NobodyExpires ==
  ASSUME ~Outlasted', TypeOK
  PROVE  \A s \in Stoppers : ~Expires(s)
BY DEF Outlasted, Expires, TypeOK

Told == IF Free(Manager) THEN LastStatus ELSE announcing[Manager]

\* What the manager has said last, by where it is.
PlaceInv ==
  /\ mgr = "new" => Told = Say("connecting") /\ lastWait = NoReason
  /\ mgr \in {"deciding", "opening", "pausing"} =>
       IF lastWait = NoReason
       THEN Told \in {Say("connecting"), Say("reconnecting")}
       ELSE Told = SayWhy("waiting", lastWait)
  /\ mgr \in {"reading", "inRead"} => Told = Say("connected") /\ lastWait = NoReason
  /\ mgr \in {"dropping", "closing", "closed"} =>
       /\ Told.state = "error" \/ (Told = Say("connected") /\ stopping)
       /\ lastWait = NoReason

\* The next status a StatusStream allows.
CanFollow(last, next) ==
  \/ /\ last.state \in {"connecting", "waiting", "reconnecting"}
     /\ \/ next.state = "waiting" /\ next # last /\ next.error \in Reasons
        \/ next.state = "refused" /\ next.error \in Reasons
        \/ next = Say("connected")
  \/ last.state = "connected" /\ next.state = "error" /\ next.error \in Reasons
  \/ last.state = "error" /\ next = Say("reconnecting")
  \/ last.state # "disconnected" /\ next = Say("disconnected")

StreamInv ==
  /\ \A s \in Stoppers :
       stopper[s] \in {"announcing", "leaving", "stopped"} => mgr = "done" /\ Free(Manager)
  /\ \A t \in Threads : ~Free(t) => CanFollow(LastStatus, announcing[t])
  /\ stopping => mgr # "new"
  /\ PlaceInv

NobodyAnnounces == \A t \in Threads : Free(t)

\* A thread records a status that may follow, and nobody else has one on its way.
Publishes(t, status) ==
  /\ NobodyAnnounces
  /\ t \in Stoppers => status = Say("disconnected")
  /\ CanFollow(LastStatus, status)
  /\ PublishStatus(t, status)

\* One status at a time is on its way.
LEMMA OneAnnouncer ==
  ASSUME EndInv, StreamInv, NEW t \in Threads, NEW u \in Threads, ~Free(t), ~Free(u)
  PROVE  t = u
<1>1. ASSUME NEW s \in Stoppers, ~Free(s) PROVE Owes(s) /\ Free(Manager)
  BY <1>1 DEF EndInv, StreamInv, Owes
<1>2. CASE t \in Stoppers /\ u \in Stoppers
  BY <1>1, <1>2 DEF EndInv
<1>3. CASE t = Manager \/ u = Manager
  BY <1>1, <1>3 DEF Threads
<1> QED BY <1>2, <1>3 DEF Threads

\* While the manager runs and has nothing on its way, nobody has.
LEMMA ManagerAnnouncesAlone ==
  ASSUME EndInv, StreamInv, mgr # "done", Free(Manager)
  PROVE  NobodyAnnounces
BY DEF EndInv, StreamInv, NobodyAnnounces, Threads

\* The end is only recorded when it was not announced before.
LEMMA EndCanFollow ==
  ASSUME TypeOK, NotAnnounced
  PROVE  CanFollow(LastStatus, Say("disconnected"))
<1>1. CASE statuses = <<>>
  BY <1>1 DEF LastStatus, Say, CanFollow
<1>2. CASE statuses # <<>>
  <2>1. Len(statuses) \in 1..Len(statuses)
    BY <1>2 DEF TypeOK
  <2>2. ~IsEnd(Len(statuses))
    BY <2>1 DEF NotAnnounced
  <2> QED BY <1>2, <2>1, <2>2 DEF LastStatus, IsEnd, CanFollow
<1> QED BY <1>1, <1>2

\* What a step does with the statuses: nothing, record one, or let one out.
LEMMA StepSays ==
  ASSUME ~Outlasted', TypeOK, EndInv, WaitInv, StreamInv, [Next]_vars
  PROVE  \/ UNCHANGED published
         \/ \E t \in Threads, status \in Status : Publishes(t, status)
         \/ \E t \in Threads : EmitStatus(t)
<1> DEFINE Goal == \/ UNCHANGED published
                   \/ \E t \in Threads, status \in Status : Publishes(t, status)
                   \/ \E t \in Threads : EmitStatus(t)
<1>0. Manager \in Threads /\ Stoppers \subseteq Threads
  BY DEF Threads
<1>1. CASE Start \/ BeginOpen \/ Pause \/ BeginRead \/ ReadNothing \/ LeaveReadLoop \/ CloseSource
           \/ (\E ends, tail \in BOOLEAN : ReadData(ends, tail))
           \/ (\E s \in Stoppers : CallStop(s) \/ SetStop(s) \/ StopReturns(s))
           \/ UNCHANGED vars
  BY <1>1 DEF Start, BeginOpen, Pause, BeginRead, ReadNothing, LeaveReadLoop, CloseSource, ReadData,
     CallStop, SetStop, StopReturns, vars
<1>2. CASE OpenSucceeds
  <2>1. mgr = "opening" /\ Free(Manager) /\ PublishStatus(Manager, Say("connected"))
    BY <1>2 DEF OpenSucceeds, ManagerAt
  <2>2. LastStatus.state \in {"connecting", "waiting", "reconnecting"}
    BY <2>1 DEF StreamInv, PlaceInv, Told, Say, SayWhy
  <2>3. CanFollow(LastStatus, Say("connected"))
    BY <2>2 DEF CanFollow
  <2>4. Say("connected") \in Status
    BY DEF Say, Status, StatusName, Error
  <2> QED BY <1>0, <2>1, <2>3, <2>4, ManagerAnnouncesAlone DEF Publishes
<1>3. ASSUME NEW reason \in Reasons, OpenRefused(reason) PROVE Goal
  <2>1. mgr = "opening" /\ Free(Manager) /\ PublishStatus(Manager, SayWhy("refused", reason))
    BY <1>3 DEF OpenRefused, ManagerAt
  <2>2. LastStatus.state \in {"connecting", "waiting", "reconnecting"}
    BY <2>1 DEF StreamInv, PlaceInv, Told, Say, SayWhy
  <2>3. CanFollow(LastStatus, SayWhy("refused", reason))
    BY <2>2 DEF CanFollow, SayWhy
  <2> QED BY <1>0, <2>1, <2>3, SayTypes, ManagerAnnouncesAlone DEF Publishes
<1>4. ASSUME NEW reason \in Reasons, OpenFails(reason) PROVE Goal
  <2>1. CASE reason = lastWait
    BY <1>4, <2>1 DEF OpenFails
  <2>2. CASE reason # lastWait
    <3>1. mgr = "opening" /\ Free(Manager) /\ PublishStatus(Manager, SayWhy("waiting", reason))
      BY <1>4, <2>2 DEF OpenFails, ManagerAt
    <3>2. /\ LastStatus.state \in {"connecting", "waiting", "reconnecting"}
          /\ LastStatus # SayWhy("waiting", reason)
      BY <2>2, <3>1 DEF StreamInv, PlaceInv, Told, Say, SayWhy
    <3>3. CanFollow(LastStatus, SayWhy("waiting", reason))
      BY <3>2 DEF CanFollow, SayWhy
    <3> QED BY <1>0, <3>1, <3>3, SayTypes, ManagerAnnouncesAlone DEF Publishes
  <2> QED BY <2>1, <2>2
<1>5. ASSUME NEW reason \in Reasons, ReadFails(reason) PROVE Goal
  <2>1. mgr = "inRead" /\ Free(Manager) /\ PublishStatus(Manager, SayWhy("error", reason))
    BY <1>5 DEF ReadFails, ManagerAt
  <2>2. LastStatus.state = "connected"
    BY <2>1 DEF StreamInv, PlaceInv, Told, Say
  <2>3. CanFollow(LastStatus, SayWhy("error", reason))
    BY <2>2 DEF CanFollow, SayWhy
  <2> QED BY <1>0, <2>1, <2>3, SayTypes, ManagerAnnouncesAlone DEF Publishes
<1>6. CASE AfterClose
  <2>1. CASE stopping \/ ~autoReconnect
    BY <1>6, <2>1 DEF AfterClose
  <2>2. CASE ~(stopping \/ ~autoReconnect)
    <3>1. mgr = "closed" /\ Free(Manager) /\ PublishStatus(Manager, Say("reconnecting"))
      BY <1>6, <2>2 DEF AfterClose, ManagerAt
    <3>2. CanFollow(LastStatus, Say("reconnecting"))
      BY <2>2, <3>1 DEF StreamInv, PlaceInv, Told, CanFollow
    <3>3. Say("reconnecting") \in Status
      BY DEF Say, Status, StatusName, Error
    <3> QED BY <1>0, <3>1, <3>2, <3>3, ManagerAnnouncesAlone DEF Publishes
  <2> QED BY <2>1, <2>2
<1>7. Say("disconnected") \in Status
  BY DEF Say, Status, StatusName, Error
<1>8. CASE Finish
  <2>1. CASE running
    <3>1. mgr = "finishing" /\ Free(Manager) /\ PublishStatus(Manager, Say("disconnected"))
      BY <1>8, <2>1 DEF Finish, ManagerAt
    <3>2. NotAnnounced
      BY <2>1 DEF EndInv
    <3> QED BY <1>0, <1>7, <3>1, <3>2, EndCanFollow, ManagerAnnouncesAlone DEF Publishes
  <2>2. CASE ~running
    BY <1>8, <2>2 DEF Finish
  <2> QED BY <2>1, <2>2
<1>9. ASSUME NEW s \in Stoppers, Joined(s) PROVE Goal
  <2>1. stopper[s] = "joining" /\ ~ManagerAlive /\ PublishStatus(s, Say("disconnected"))
    BY <1>9 DEF Joined
  <2>2. Owes(s) /\ Free(s)
    BY <2>1 DEF Owes, EndInv
  <2>3. NotAnnounced
    BY <1>0, <2>2 DEF EndInv, NobodyOwes
  <2>4. NobodyAnnounces
    <3>1. Free(Manager)
      BY <2>1 DEF ManagerAlive
    <3>2. ASSUME NEW u \in Stoppers, ~Free(u) PROVE FALSE
      <4>1. Owes(u)
        BY <3>2 DEF EndInv, Owes
      <4>2. u = s
        BY <1>0, <2>2, <4>1 DEF EndInv
      <4> QED BY <2>2, <3>2, <4>2
    <3> QED BY <3>1, <3>2 DEF NobodyAnnounces, Threads
  <2> QED BY <1>0, <1>7, <2>1, <2>3, <2>4, EndCanFollow DEF Publishes
<1>10. ASSUME NEW t \in Threads, EmitStatus(t) PROVE Goal
  BY <1>10
<1>11. \A s \in Stoppers : ~Expires(s)
  BY NobodyExpires
<1> QED
  BY <1>0, <1>1, <1>2, <1>3, <1>4, <1>5, <1>6, <1>8, <1>9, <1>10, <1>11
     DEF Next, ManagerStep, StopStep

\* What is last told once a status has gone out.
LEMMA EmitTells ==
  ASSUME TypeOK, NEW t \in Threads, EmitStatus(t)
  PROVE  /\ announcing[t] \in Status
         /\ announcing'[t] = Nothing
         /\ \A u \in Threads : u # t => announcing'[u] = announcing[u]
         /\ statuses' = Append(statuses, announcing[t])
         /\ Len(statuses') = Len(statuses) + 1
         /\ \A i \in 1..Len(statuses) : statuses'[i] = statuses[i]
         /\ LastStatus' = announcing[t]
<1>1. announcing \in [Threads -> Status \union {Nothing}] /\ statuses \in Seq(Status)
  BY DEF TypeOK
<1>2. announcing[t] \in Status
  BY <1>1 DEF EmitStatus, Free
<1>3. /\ statuses' = Append(statuses, announcing[t])
      /\ announcing' = [announcing EXCEPT ![t] = Nothing]
  BY DEF EmitStatus
<1>4. /\ Len(statuses') = Len(statuses) + 1
      /\ statuses'[Len(statuses')] = announcing[t]
      /\ \A i \in 1..Len(statuses) : statuses'[i] = statuses[i]
      /\ statuses' # <<>>
  BY <1>1, <1>2, <1>3
<1> QED BY <1>1, <1>2, <1>3, <1>4 DEF LastStatus

\* What is on its way can go out: the second part of StreamInv.
LEMMA FollowersStay ==
  ASSUME ~Outlasted', TypeOK, EndInv, WaitInv, StreamInv, [Next]_vars
  PROVE  \A t \in Threads : ~Free(t)' => CanFollow(LastStatus', announcing'[t])
<1>1. CASE UNCHANGED published
  BY <1>1 DEF published, StreamInv, LastStatus, Free
<1>2. ASSUME NEW t \in Threads, NEW status \in Status, Publishes(t, status)
      PROVE  \A u \in Threads : ~Free(u)' => CanFollow(LastStatus', announcing'[u])
  <2>1. LastStatus' = LastStatus
    BY <1>2 DEF Publishes, PublishStatus, LastStatus
  <2>2. announcing'[t] = status /\ \A u \in Threads : u # t => Free(u)'
    BY <1>2 DEF Publishes, PublishStatus, NobodyAnnounces, Free, TypeOK
  <2> QED BY <1>2, <2>1, <2>2 DEF Publishes
<1>3. ASSUME NEW t \in Threads, EmitStatus(t) PROVE \A u \in Threads : Free(u)'
  <2>1. ~Free(t)
    BY <1>3 DEF EmitStatus
  <2> QED BY <1>3, <2>1, EmitTells, OneAnnouncer DEF Free
<1> QED BY <1>1, <1>2, <1>3, StepSays

\* What the manager has said last changes only when it records something.
LEMMA ToldStays ==
  ASSUME TypeOK, \/ UNCHANGED <<announcing, statuses>>
                 \/ \E s \in Stoppers, status \in Status : PublishStatus(s, status)
                 \/ EmitStatus(Manager)
  PROVE  Told' = Told
<1>0. Manager \in Threads
  BY DEF Threads
<1>1. CASE UNCHANGED <<announcing, statuses>>
  BY <1>1 DEF Told, LastStatus, Free
<1>2. ASSUME NEW s \in Stoppers, NEW status \in Status, PublishStatus(s, status) PROVE Told' = Told
  <2>1. announcing'[Manager] = announcing[Manager] /\ statuses' = statuses
    BY <1>0, <1>2 DEF PublishStatus, TypeOK
  <2> QED BY <2>1 DEF Told, LastStatus, Free
<1>3. CASE EmitStatus(Manager)
  <2>1. ~Free(Manager) /\ Free(Manager)'
    BY <1>0, <1>3, EmitTells DEF EmitStatus, Free
  <2> QED BY <1>0, <1>3, <2>1, EmitTells DEF Told
<1> QED BY <1>1, <1>2, <1>3

\* And when it does, that is what it has said.
LEMMA ToldPublishes ==
  ASSUME TypeOK, NEW status \in Status, PublishStatus(Manager, status)
  PROVE  Told' = status
<1>1. Manager \in Threads
  BY DEF Threads
<1>2. announcing'[Manager] = status
  BY <1>1 DEF PublishStatus, TypeOK
<1>3. status # Nothing
  BY DEF Status, StatusName, Nothing
<1> QED BY <1>2, <1>3 DEF Told, Free

\* The fourth part of StreamInv.
LEMMA PlaceStays ==
  ASSUME ~Outlasted', TypeOK, EndInv, WaitInv, StreamInv, [Next]_vars
  PROVE  PlaceInv'
<1> USE DEF PlaceInv
<1>0. PlaceInv /\ Manager \in Threads /\ Stoppers \subseteq Threads
  BY DEF StreamInv, Threads
<1>1. CASE Start
  <2>1. Told' = Told
    BY <1>1, ToldStays DEF Start, published
  <2> QED BY <1>0, <1>1, <2>1 DEF Start
<1>2. CASE BeginOpen \/ Pause \/ BeginRead \/ ReadNothing \/ LeaveReadLoop \/ CloseSource
           \/ \E ends, tail \in BOOLEAN : ReadData(ends, tail)
  <2>1. Told' = Told
    BY <1>2, ToldStays DEF BeginOpen, Pause, BeginRead, ReadNothing, LeaveReadLoop, CloseSource,
       ReadData, published
  <2>2. lastWait' = lastWait /\ stopping' = stopping
    BY <1>2 DEF BeginOpen, Pause, BeginRead, ReadNothing, LeaveReadLoop, CloseSource, ReadData
  <2>3. \/ mgr = "deciding" /\ mgr' \in {"opening", "finishing"}
        \/ mgr = "pausing" /\ mgr' = "deciding"
        \/ mgr = "reading" /\ mgr' = "dropping" /\ stopping
        \/ mgr \in {"reading", "inRead"} /\ mgr' \in {"reading", "inRead"}
        \/ mgr \in {"dropping", "closing"} /\ mgr' \in {"closing", "closed"}
    BY <1>2 DEF BeginOpen, Pause, BeginRead, ReadNothing, LeaveReadLoop, CloseSource, ReadData, ManagerAt
  <2> QED BY <1>0, <2>1, <2>2, <2>3
<1>3. CASE OpenSucceeds
  <2>1. Say("connected") \in Status
    BY DEF Say, Status, StatusName, Error
  <2>2. Told' = Say("connected")
    BY <1>3, <2>1, ToldPublishes DEF OpenSucceeds
  <2> QED BY <1>3, <2>2 DEF OpenSucceeds
<1>4. ASSUME NEW reason \in Reasons, OpenRefused(reason) PROVE PlaceInv'
  BY <1>4 DEF OpenRefused
<1>5. ASSUME NEW reason \in Reasons, OpenFails(reason) PROVE PlaceInv'
  <2>1. mgr = "opening" /\ mgr' \in {"pausing", "finishing"}
    BY <1>5 DEF OpenFails, ManagerAt
  <2>2. CASE reason = lastWait
    <3>1. Told' = Told /\ lastWait' = lastWait
      BY <1>5, <2>2, ToldStays DEF OpenFails, published
    <3> QED BY <1>0, <2>1, <3>1
  <2>3. CASE reason # lastWait
    <3>1. Told' = SayWhy("waiting", reason) /\ lastWait' = reason
      BY <1>5, <2>3, SayTypes, ToldPublishes DEF OpenFails
    <3> QED BY <2>1, <3>1
  <2> QED BY <2>2, <2>3
<1>6. ASSUME NEW reason \in Reasons, ReadFails(reason) PROVE PlaceInv'
  <2>1. Told' = SayWhy("error", reason)
    BY <1>6, SayTypes, ToldPublishes DEF ReadFails
  <2>2. mgr = "inRead" /\ mgr' = "dropping" /\ lastWait' = lastWait
    BY <1>6 DEF ReadFails, ManagerAt
  <2> QED BY <1>0, <2>1, <2>2 DEF SayWhy
<1>7. CASE AfterClose
  <2>1. mgr = "closed" /\ lastWait' = lastWait
    BY <1>7 DEF AfterClose, ManagerAt
  <2>2. CASE stopping \/ ~autoReconnect
    BY <1>7, <2>2 DEF AfterClose
  <2>3. CASE ~(stopping \/ ~autoReconnect)
    <3>1. Say("reconnecting") \in Status
      BY DEF Say, Status, StatusName, Error
    <3>2. Told' = Say("reconnecting") /\ mgr' = "pausing"
      BY <1>7, <2>3, <3>1, ToldPublishes DEF AfterClose
    <3> QED BY <1>0, <2>1, <3>2
  <2> QED BY <2>2, <2>3
<1>8. CASE Finish
  BY <1>8 DEF Finish
<1>9. ASSUME NEW t \in Threads, EmitStatus(t) PROVE PlaceInv'
  <2>1. UNCHANGED <<mgr, lastWait, stopping>>
    BY <1>9 DEF EmitStatus, manager
  <2>2. CASE t = Manager
    <3>1. Told' = Told
      BY <1>9, <2>2, ToldStays
    <3> QED BY <1>0, <2>1, <3>1
  <2>3. CASE t \in Stoppers
    <3>1. mgr = "done"
      BY <1>9, <2>3 DEF EmitStatus, EndInv, StreamInv
    <3> QED BY <2>1, <3>1
  <2> QED BY <2>2, <2>3 DEF Threads
<1>10. ASSUME NEW s \in Stoppers, CallStop(s) \/ SetStop(s) \/ StopReturns(s) PROVE PlaceInv'
  <2>1. Told' = Told
    BY <1>10, ToldStays DEF CallStop, SetStop, StopReturns, published
  <2>2. UNCHANGED <<mgr, lastWait>> /\ (stopping => stopping')
    BY <1>10 DEF CallStop, SetStop, StopReturns, manager
  <2> QED BY <1>0, <2>1, <2>2
<1>11. ASSUME NEW s \in Stoppers, Joined(s) PROVE PlaceInv'
  <2>1. Say("disconnected") \in Status
    BY DEF Say, Status, StatusName, Error
  <2>2. Told' = Told
    BY <1>11, <2>1, ToldStays DEF Joined
  <2>3. UNCHANGED <<mgr, lastWait, stopping>>
    BY <1>11 DEF Joined, manager
  <2> QED BY <1>0, <2>2, <2>3
<1>12. CASE UNCHANGED vars
  <2>1. Told' = Told /\ UNCHANGED <<mgr, lastWait, stopping>>
    BY <1>12, ToldStays DEF vars, published, manager
  <2> QED BY <1>0, <2>1
<1>13. \A s \in Stoppers : ~Expires(s)
  BY NobodyExpires
<1> QED
  BY <1>0, <1>1, <1>2, <1>3, <1>4, <1>5, <1>6, <1>7, <1>8, <1>9, <1>10, <1>11, <1>12, <1>13
     DEF Next, ManagerStep, StopStep

\* The first and the third: who has waited for the manager finds it dead and silent.
LEMMA DeadStaysSilent ==
  ASSUME ~Outlasted', TypeOK, EndInv, WaitInv, StreamInv, [Next]_vars
  PROVE  /\ \A s \in Stoppers :
              stopper'[s] \in {"announcing", "leaving", "stopped"}
                => mgr' = "done" /\ Free(Manager)'
         /\ stopping' => mgr' # "new"
<1> DEFINE Waited == \A s \in Stoppers :
                       stopper'[s] \in {"announcing", "leaving", "stopped"}
                         => mgr' = "done" /\ Free(Manager)'
           Begun  == stopping' => mgr' # "new"
<1>0. Manager \in Threads /\ Stoppers \subseteq Threads
  BY DEF Threads
<1>1. CASE Start \/ BeginOpen \/ OpenSucceeds \/ Pause \/ BeginRead \/ ReadNothing \/ LeaveReadLoop
           \/ CloseSource \/ AfterClose \/ Finish
           \/ (\E reason \in Reasons : OpenRefused(reason) \/ OpenFails(reason) \/ ReadFails(reason))
           \/ \E ends, tail \in BOOLEAN : ReadData(ends, tail)
  <2>1. mgr # "done" /\ mgr' # "new" /\ stopper' = stopper
    BY <1>1 DEF Start, BeginOpen, OpenSucceeds, Pause, BeginRead, ReadNothing, LeaveReadLoop,
       CloseSource, AfterClose, Finish, OpenRefused, OpenFails, ReadFails, ReadData, ManagerAt
  <2> QED BY <2>1 DEF StreamInv
<1>2. ASSUME NEW t \in Threads, EmitStatus(t) PROVE Waited /\ Begun
  <2>1. UNCHANGED <<mgr, stopper, stopping>> /\ (Free(Manager) => Free(Manager)')
    BY <1>0, <1>2, EmitTells DEF EmitStatus, manager, Free
  <2> QED BY <2>1 DEF StreamInv
<1>3. ASSUME NEW s \in Stoppers, CallStop(s) \/ SetStop(s) \/ StopReturns(s) PROVE Waited /\ Begun
  <2>1. UNCHANGED <<mgr, announcing>>
    BY <1>3 DEF CallStop, SetStop, StopReturns, manager, published
  <2>2. \A x \in Stoppers : stopper'[x] \in {"announcing", "leaving", "stopped"}
                              => stopper[x] \in {"announcing", "leaving", "stopped"}
    BY <1>3 DEF CallStop, SetStop, StopReturns, TypeOK
  <2>3. stopping' => mgr # "new"
    BY <1>3 DEF CallStop, SetStop, StopReturns, StreamInv, WaitInv
  <2> QED BY <2>1, <2>2, <2>3 DEF StreamInv, Free
<1>4. ASSUME NEW s \in Stoppers, Joined(s) PROVE Waited /\ Begun
  <2>1. mgr = "done" /\ Free(Manager) /\ UNCHANGED <<mgr, stopping>>
    BY <1>4 DEF Joined, ManagerAlive, WaitInv, manager
  <2>2. announcing'[Manager] = announcing[Manager]
    BY <1>0, <1>4 DEF Joined, PublishStatus, TypeOK
  <2> QED BY <2>1, <2>2 DEF Free
<1>5. CASE UNCHANGED vars
  BY <1>5 DEF vars, manager, published, StreamInv, Free
<1>6. \A s \in Stoppers : ~Expires(s)
  BY NobodyExpires
<1> QED
  BY <1>0, <1>1, <1>2, <1>3, <1>4, <1>5, <1>6 DEF Next, ManagerStep, StopStep

LEMMA StreamInvHolds == Spec => [](Outlasted \/ StreamInv)
<1>1. Init => StreamInv
  <2> SUFFICES ASSUME Init PROVE StreamInv
    OBVIOUS
  <2>1. \A t \in Threads : Free(t)
    BY DEF Init, Free
  <2>2. Told = Say("connecting") /\ lastWait = NoReason /\ mgr = "new" /\ ~stopping
    BY <2>1 DEF Init, Told, LastStatus, Threads
  <2>3. \A s \in Stoppers : stopper[s] = "idle"
    BY DEF Init
  <2> QED BY <2>1, <2>2, <2>3 DEF StreamInv, PlaceInv
<1>2. TypeOK /\ EndInv /\ WaitInv /\ (Outlasted \/ StreamInv) /\ [Next]_vars => (Outlasted \/ StreamInv)'
  <2> SUFFICES ASSUME TypeOK, EndInv, WaitInv, Outlasted \/ StreamInv, [Next]_vars, ~Outlasted'
               PROVE  StreamInv'
    OBVIOUS
  <2>1. StreamInv
    BY OutlastedStays
  <2> QED BY <2>1, FollowersStay, PlaceStays, DeadStaysSilent DEF StreamInv
<1> QED BY <1>1, <1>2, TypeCorrect, EndInvHolds, WaitInvHolds, PTL DEF Spec

\* S12: while the manager waits for a source that does not open, the last a subscriber was
\* told is that wait, with its current reason, until the join of a stop() has expired.
THEOREM WaitIsTold == Spec => []WaitIsAnnounced
<1>1. Outlasted \/ StreamInv => WaitIsAnnounced
  BY DEF StreamInv, PlaceInv, Told, WaitIsAnnounced
<1> QED BY <1>1, StreamInvHolds, PTL

\* Statuses go out one at a time, and not as a stop() gives up waiting.
LEMMA OneGoesOut ==
  ASSUME TypeOK, [Next]_vars, statuses' # statuses
  PROVE  \E t \in Threads : EmitStatus(t) /\ Outlasted' = Outlasted
<1>1. CASE \/ Start \/ BeginOpen \/ OpenSucceeds \/ Pause \/ BeginRead \/ ReadNothing \/ LeaveReadLoop
           \/ CloseSource \/ AfterClose \/ Finish
           \/ (\E reason \in Reasons : OpenRefused(reason) \/ OpenFails(reason) \/ ReadFails(reason))
           \/ (\E ends, tail \in BOOLEAN : ReadData(ends, tail))
           \/ (\E s \in Stoppers : CallStop(s) \/ SetStop(s) \/ Joined(s) \/ Expires(s) \/ StopReturns(s))
           \/ UNCHANGED vars
  BY <1>1 DEF Start, BeginOpen, OpenSucceeds, Pause, BeginRead, ReadNothing, LeaveReadLoop, CloseSource,
     AfterClose, Finish, OpenRefused, OpenFails, ReadFails, ReadData, CallStop, SetStop, Joined, Expires,
     StopReturns, PublishStatus, published, vars
<1>2. ASSUME NEW t \in Threads, EmitStatus(t) PROVE Outlasted' = Outlasted
  BY <1>2 DEF EmitStatus, Outlasted
<1>3. Manager \in Threads /\ Stoppers \subseteq Threads
  BY DEF Threads
<1> QED BY <1>1, <1>2, <1>3 DEF Next, ManagerStep, StopStep

\* Until a stop() gives up waiting, what goes out is what StatusStream lets come next.
LEMMA StepFollows ==
  ASSUME TypeOK, EndInv, WaitInv, StreamInv, [Next]_vars, ~Outlasted, ~Outlasted', statuses' # statuses
  PROVE  Promised!Next
<1>0. ~Outlasted /\ Outlasted' = Outlasted
  BY DEF Outlasted
<1>1. PICK t \in Threads : EmitStatus(t)
  BY StepSays DEF published, Publishes, PublishStatus
<1>2. CanFollow(LastStatus, announcing[t])
  BY <1>1 DEF EmitStatus, StreamInv
<1>3. /\ statuses' = Append(statuses, announcing[t]) /\ LastStatus' = announcing[t]
      /\ announcing[t] \in Status
  BY <1>1, EmitTells
<1>4. announcing[t] = [state |-> announcing[t].state, error |-> announcing[t].error]
  BY <1>3 DEF Status
<1>5. Promised!Last = LastStatus /\ Promised!Last' = LastStatus'
  BY DEF Promised!Last, LastStatus, Say
<1>6. LastStatus.state \in StatusName \union {"connecting"}
  <2>1. statuses # <<>> => statuses[Len(statuses)] \in Status
    BY DEF TypeOK
  <2> QED BY <2>1 DEF LastStatus, Say, Status
<1>7. CASE announcing[t].state = "waiting" /\ announcing[t] # LastStatus
           /\ announcing[t].error \in Reasons
           /\ LastStatus.state \in {"connecting", "waiting", "reconnecting"}
  <2>1. Promised!Then({"connecting", "waiting", "reconnecting"}, {"waiting"}, Reasons)
    BY <1>0, <1>3, <1>4, <1>5, <1>7 DEF Promised!Then
  <2> QED BY <1>3, <1>5, <1>7, <2>1 DEF Promised!Waiting, Promised!Next
<1>8. CASE announcing[t].state = "refused" /\ announcing[t].error \in Reasons
           /\ LastStatus.state \in {"connecting", "waiting", "reconnecting"}
  BY <1>0, <1>3, <1>4, <1>5, <1>8 DEF Promised!Then, Promised!Refused, Promised!Next
<1>9. CASE announcing[t] = Say("connected")
           /\ LastStatus.state \in {"connecting", "waiting", "reconnecting"}
  BY <1>0, <1>3, <1>5, <1>9 DEF Promised!Then, Promised!Connected, Promised!Next, Say
<1>10. CASE LastStatus.state = "connected" /\ announcing[t].state = "error"
            /\ announcing[t].error \in Reasons
  BY <1>0, <1>3, <1>4, <1>5, <1>10 DEF Promised!Then, Promised!Dropped, Promised!Next
<1>11. CASE LastStatus.state = "error" /\ announcing[t] = Say("reconnecting")
  BY <1>0, <1>3, <1>5, <1>11 DEF Promised!Then, Promised!Reconnecting, Promised!Next, Say
<1>12. CASE LastStatus.state # "disconnected" /\ announcing[t] = Say("disconnected")
  BY <1>0, <1>3, <1>5, <1>6, <1>12 DEF Promised!Then, Promised!Ended, Promised!Next, Say, StatusName
<1> QED BY <1>2, <1>7, <1>8, <1>9, <1>10, <1>11, <1>12 DEF CanFollow

\* And after that, the end still comes once.
LEMMA StepOverlaps ==
  ASSUME TypeOK, EndInv, [Next]_vars, Outlasted, statuses' # statuses
  PROVE  Promised!Overlap
<1>1. PICK t \in Threads : EmitStatus(t) /\ Outlasted' = Outlasted
  BY OneGoesOut
<1>2. announcing[t] \in Status /\ statuses' = Append(statuses, announcing[t])
  BY <1>1, EmitTells
<1>3. announcing[t].state = "disconnected" => \A i \in DOMAIN statuses : statuses[i].state # "disconnected"
  <2>1. announcing[t].state = "disconnected" => NotAnnounced
    BY DEF EndInv, Owes, NobodyOwes
  <2>2. DOMAIN statuses = 1..Len(statuses)
    BY DEF TypeOK
  <2> QED BY <2>1, <2>2 DEF NotAnnounced, IsEnd
<1>4. announcing[t] \in [state : Promised!States, error : Reasons \union {NoReason}]
  BY <1>2 DEF Promised!States, Status, StatusName, Error
<1> QED BY <1>1, <1>2, <1>3, <1>4 DEF Promised!Overlap

\* A session keeps what it promises a subscriber: its status events follow StatusStream.
THEOREM ImplementsStatusStream == Spec => StatusesFollowTheStream
<1>1. Init => Promised!Init
  BY DEF Init, Promised!Init, Outlasted
<1>2. TypeOK /\ EndInv /\ WaitInv /\ (Outlasted \/ StreamInv) /\ [Next]_vars
        => [Promised!Next]_<<statuses, Outlasted>>
  <2> SUFFICES ASSUME TypeOK, EndInv, WaitInv, Outlasted \/ StreamInv, [Next]_vars,
                      ~(statuses' = statuses /\ Outlasted' = Outlasted)
               PROVE  Promised!Next
    OBVIOUS
  <2>0. Outlasted \in BOOLEAN /\ Outlasted' \in BOOLEAN
    BY DEF Outlasted
  <2>1. CASE Outlasted
    <3>1. statuses' # statuses
      BY <2>0, <2>1, OutlastedStays
    <3> QED BY <2>1, <3>1, StepOverlaps DEF Promised!Next
  <2>2. CASE ~Outlasted /\ ~Outlasted'
    <3>1. statuses' # statuses
      BY <2>0, <2>2
    <3> QED BY <2>2, <3>1, StepFollows
  <2>3. CASE ~Outlasted /\ Outlasted'
    <3>1. statuses' = statuses
      BY <2>0, <2>3, OneGoesOut
    <3>2. Outlasted' = TRUE
      BY <2>0, <2>3
    <3> QED BY <2>3, <3>1, <3>2 DEF Promised!Outlast, Promised!Next
  <2> QED BY <2>1, <2>2, <2>3
<1> QED
  BY <1>1, <1>2, TypeCorrect, EndInvHolds, WaitInvHolds, StreamInvHolds, PTL
     DEF Spec, StatusesFollowTheStream, Promised!Spec
-----------------------------------------------------------------------------
(***************************************************************************)
(* The health.  A connection has been counted once its status is recorded: *)
(* Returns are those told and the one that is on its way, at the place it  *)
(* will have in the stream.                                                *)
(***************************************************************************)
Returns == {i \in 1..Len(statuses) : statuses[i].state = "connected"}
             \union IF announcing[Manager].state = "connected" THEN {Len(statuses) + 1} ELSE {}

HealthInv ==
  /\ \A t \in Threads : ~Free(t) => health.state = announcing[t].state
  /\ NobodyAnnounces => health.state = LastStatus.state
  /\ health.state = "connected" => health.error = NoReason
  /\ IsFiniteSet(Returns)
  /\ health.ever <=> Returns # {}
  /\ health.reconnects = IF Returns = {} THEN 0 ELSE Cardinality(Returns) - 1

\* Recording a status makes it the state of the device, and counts a return.
LEMMA PublishKeepsHealth ==
  ASSUME TypeOK, StreamInv, HealthInv, NEW t \in Threads, NEW status \in Status, Publishes(t, status)
  PROVE  HealthInv'
<1>0. Manager \in Threads /\ health \in Health /\ statuses \in Seq(Status)
  BY DEF Threads, TypeOK
<1>1. /\ health' = HealthAfter(status) /\ statuses' = statuses
      /\ announcing' = [announcing EXCEPT ![t] = status] /\ NobodyAnnounces
  BY DEF Publishes, PublishStatus
<1>2. /\ announcing'[t] = status /\ status # Nothing
      /\ \A u \in Threads : u # t => announcing'[u] = announcing[u] /\ announcing[u] = Nothing
  BY <1>1 DEF TypeOK, Status, StatusName, Nothing, NobodyAnnounces, Free
<1>3. health'.state = status.state
  BY <1>0, <1>1 DEF HealthAfter, Health
<1>4. ~NobodyAnnounces'
  BY <1>2 DEF NobodyAnnounces, Free
<1>5. \A u \in Threads : ~Free(u)' => health'.state = announcing'[u].state
  BY <1>2, <1>3 DEF Free
<1>6. announcing[Manager].state # "connected"
  BY <1>0, <1>1 DEF NobodyAnnounces, Free, Nothing
<1>7. CASE status.state = "connected"
  <2>1. t = Manager
    BY <1>7 DEF Threads, Publishes, Say
  <2>2. health' = [state |-> "connected", error |-> NoReason,
                   reconnects |-> health.reconnects + (IF health.ever THEN 1 ELSE 0), ever |-> TRUE]
    BY <1>1, <1>7 DEF HealthAfter
  <2>3. Returns' = Returns \union {Len(statuses) + 1} /\ Len(statuses) + 1 \notin Returns
    BY <1>0, <1>1, <1>2, <1>6, <1>7, <2>1 DEF Returns
  <2>4. IsFiniteSet(Returns') /\ Cardinality(Returns') = Cardinality(Returns) + 1
    BY <2>3, FS_AddElement DEF HealthInv
  <2>5. CASE Returns = {}
    <3>1. Cardinality(Returns) = 0
      BY <2>5, FS_EmptySet
    <3>2. ~health.ever /\ health.reconnects = 0
      BY <2>5 DEF HealthInv
    <3>3. health'.reconnects = Cardinality(Returns') - 1
      BY <2>2, <2>4, <3>1, <3>2
    <3> QED BY <1>4, <1>5, <2>2, <2>3, <2>4, <3>3 DEF HealthInv
  <2>6. CASE Returns # {}
    <3>1. Cardinality(Returns) \in Nat
      BY FS_CardinalityType DEF HealthInv
    <3>2. health.ever /\ health.reconnects = Cardinality(Returns) - 1
      BY <2>6 DEF HealthInv
    <3>3. health'.reconnects = Cardinality(Returns') - 1
      BY <2>2, <2>4, <3>1, <3>2
    <3> QED BY <1>4, <1>5, <2>2, <2>3, <2>4, <3>3 DEF HealthInv
  <2> QED BY <2>5, <2>6
<1>8. CASE status.state # "connected"
  <2>1. announcing'[Manager].state # "connected"
    BY <1>0, <1>2, <1>6, <1>8
  <2>2. Returns' = Returns
    BY <1>1, <1>6, <2>1 DEF Returns
  <2>3. health'.ever = health.ever /\ health'.reconnects = health.reconnects
    BY <1>0, <1>1, <1>8 DEF HealthAfter, Health
  <2> QED BY <1>3, <1>4, <1>5, <1>8, <2>2, <2>3 DEF HealthInv
<1> QED BY <1>7, <1>8

\* Letting it out takes nothing away from what was counted.
LEMMA EmitKeepsHealth ==
  ASSUME TypeOK, EndInv, StreamInv, HealthInv, NEW t \in Threads, EmitStatus(t)
  PROVE  HealthInv'
<1>0. Manager \in Threads /\ statuses \in Seq(Status) /\ ~Free(t) /\ health' = health
  BY DEF Threads, TypeOK, EmitStatus
<1>1. \A u \in Threads : u # t => Free(u)
  BY <1>0, OneAnnouncer
<1>2. \A u \in Threads : Free(u)'
  BY <1>1, EmitTells DEF Free
<1>3. health'.state = LastStatus'.state
  BY <1>0, EmitTells DEF HealthInv
<1>4. Returns' = Returns
  <2>1. Len(statuses) \in Nat
    BY <1>0
  <2>2. announcing'[Manager].state # "connected"
    BY <1>0, <1>2 DEF Free, Nothing
  <2>3. /\ Len(statuses') = Len(statuses) + 1 /\ statuses'[Len(statuses) + 1] = announcing[t]
        /\ \A i \in 1..Len(statuses) : statuses'[i] = statuses[i]
    BY <1>0, EmitTells
  <2>4. CASE t = Manager
    BY <2>1, <2>2, <2>3, <2>4 DEF Returns
  <2>5. CASE t \in Stoppers
    <3>1. announcing[t].state = "disconnected" /\ announcing[Manager].state # "connected"
      BY <1>0, <1>1, <2>5 DEF EndInv, Free, Nothing
    <3> QED BY <2>1, <2>2, <2>3, <3>1 DEF Returns
  <2> QED BY <2>4, <2>5 DEF Threads
<1> QED BY <1>0, <1>2, <1>3, <1>4 DEF HealthInv, NobodyAnnounces

LEMMA HealthInvHolds == Spec => [](Outlasted \/ HealthInv)
<1>1. Init => HealthInv
  <2> SUFFICES ASSUME Init PROVE HealthInv
    OBVIOUS
  <2>1. Returns = {}
    BY DEF Init, Returns, Nothing, Threads
  <2>2. IsFiniteSet({})
    BY FS_EmptySet
  <2> QED BY <2>1, <2>2 DEF Init, HealthInv, Free, NobodyAnnounces, LastStatus, Say
<1>2. TypeOK /\ EndInv /\ WaitInv /\ (Outlasted \/ StreamInv) /\ (Outlasted \/ HealthInv) /\ [Next]_vars
        => (Outlasted \/ HealthInv)'
  <2> SUFFICES ASSUME TypeOK, EndInv, WaitInv, Outlasted \/ StreamInv, Outlasted \/ HealthInv, [Next]_vars,
                      ~Outlasted'
               PROVE  HealthInv'
    OBVIOUS
  <2>0. StreamInv /\ HealthInv
    BY OutlastedStays
  <2>1. CASE UNCHANGED published
    BY <2>0, <2>1 DEF published, HealthInv, Returns, NobodyAnnounces, Free, LastStatus
  <2> QED BY <2>0, <2>1, StepSays, PublishKeepsHealth, EmitKeepsHealth
<1> QED
  BY <1>1, <1>2, TypeCorrect, EndInvHolds, WaitInvHolds, StreamInvHolds, PTL DEF Spec

\* S43: whenever no status is on its way, device_health() agrees with what subscribers saw:
\* the state is the last status, reconnects the returns that were told, and a device that is
\* connected has no error; until the join of a stop() has expired.
THEOREM HealthIsTold == Spec => []HealthIsLastPublished
<1>1. Outlasted \/ HealthInv => HealthIsLastPublished
  <2> SUFFICES ASSUME Outlasted \/ HealthInv, ~Outlasted, NobodyAnnounces PROVE HealthIsLastPublished
    BY DEF HealthIsLastPublished, NobodyAnnounces
  <2>1. announcing[Manager].state # "connected"
    BY DEF NobodyAnnounces, Free, Nothing, Threads
  <2>2. Returns = {i \in 1..Len(statuses) : statuses[i].state = "connected"}
    BY <2>1 DEF Returns
  <2> QED BY <2>2 DEF HealthInv, HealthIsLastPublished
<1> QED BY <1>1, HealthInvHolds, PTL
=============================================================================
