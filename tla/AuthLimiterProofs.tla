-------------------------- MODULE AuthLimiterProofs --------------------------
(***************************************************************************)
(* What holds of AuthLimiter for any addresses, any number of attempts     *)
(* under way at once, and any limits.                                      *)
(***************************************************************************)
EXTENDS AuthLimiter, TLAPS

\* The limits, in the form the arithmetic below needs.
LEMMA Limits == MaxFailures \in Nat /\ MaxFailures > 0 /\ Window \in Nat /\ Ban \in Nat /\ Ban > 0
BY LimitsAssumption

LEMMA AddressIsOne == \A t \in Attempts : AddressOf[t] \in Addresses
BY AddressAssumption

-----------------------------------------------------------------------------
(* What a step does to the clock, the bans and the slates *)

\* The failures of an address are counted, or get it banned, or are forgiven, or are let be.
Counted(a, first) ==
  LET times == Append(failures[a], now) IN
  /\ first \in DOMAIN times
  /\ FirstKept(times, first)
  /\ Len(times) - first + 1 < MaxFailures
  /\ failures' = [failures EXCEPT ![a] = SubSeq(times, first, Len(times))]
  /\ log' = [log EXCEPT ![a] = Append(@, now)]
  /\ bannedUntil' = bannedUntil

GotBanned(a, first) ==
  LET times == Append(failures[a], now) IN
  /\ first \in DOMAIN times
  /\ FirstKept(times, first)
  /\ ~(Len(times) - first + 1 < MaxFailures)
  /\ failures' = [failures EXCEPT ![a] = <<>>]
  /\ log' = [log EXCEPT ![a] = <<>>]
  /\ bannedUntil' = [bannedUntil EXCEPT ![a] = now + Ban]

Forgiven(a) ==
  /\ failures' = [failures EXCEPT ![a] = <<>>]
  /\ log' = [log EXCEPT ![a] = <<>>]
  /\ bannedUntil' = bannedUntil

BanOver(a) ==
  /\ failures' = failures /\ log' = log
  /\ ~Banned(a)
  /\ bannedUntil' = [bannedUntil EXCEPT ![a] = 0]

LetBe == failures' = failures /\ log' = log /\ bannedUntil' = bannedUntil

\* Every step is one of these, and the clock only moves when nothing else does.
LEMMA StepEffect ==
  ASSUME [Next]_vars
  PROVE  \/ LetBe /\ (now' = now \/ now' = now + 1)
         \/ /\ now' = now
            /\ \E a \in Addresses :
                 \/ Forgiven(a) \/ BanOver(a)
                 \/ \E first \in DOMAIN Append(failures[a], now) :
                      Counted(a, first) \/ GotBanned(a, first)
<1>1. CASE Tick
  BY <1>1 DEF Tick, limits, LetBe
<1>2. ASSUME NEW t \in Attempts, Check(t)
      PROVE  now' = now /\ (LetBe \/ BanOver(AddressOf[t]))
  BY <1>2 DEF Check, LetBe, BanOver
<1>3. ASSUME NEW t \in Attempts, RecordFailure(t)
      PROVE  now' = now /\ \E first \in DOMAIN Append(failures[AddressOf[t]], now) :
                             Counted(AddressOf[t], first) \/ GotBanned(AddressOf[t], first)
  BY <1>3 DEF RecordFailure, Counted, GotBanned
<1>4. ASSUME NEW t \in Attempts, RecordSuccess(t)
      PROVE  now' = now /\ Forgiven(AddressOf[t])
  BY <1>4 DEF RecordSuccess, Forgiven
<1>5. ASSUME NEW t \in Attempts, GiveUp(t)
      PROVE  LetBe /\ now' = now
  BY <1>5 DEF GiveUp, LetBe, limits
<1>6. CASE UNCHANGED vars
  BY <1>6 DEF vars, limits, LetBe
<1> QED BY <1>1, <1>2, <1>3, <1>4, <1>5, <1>6, AddressIsOne DEF Next

-----------------------------------------------------------------------------
(* Types *)

ClockTyped    == now \in Nat /\ bannedUntil \in [Addresses -> Nat]
SlatesTyped   == failures \in [Addresses -> Seq(Nat)] /\ log \in [Addresses -> Seq(Nat)]
SlatesShort   == \A a \in Addresses : Len(failures[a]) < MaxFailures
AttemptsTyped == pc \in [Attempts -> {"away", "trying"}] /\ since \in [Attempts -> Nat]
TypeInv == ClockTyped /\ SlatesTyped /\ SlatesShort /\ AttemptsTyped

\* Appending a time, and dropping a few from the front, leaves times.
LEMMA TimesStayTimes ==
  ASSUME NEW s \in Seq(Nat), NEW n \in Nat, NEW k \in DOMAIN Append(s, n)
  PROVE  /\ Append(s, n) \in Seq(Nat)
         /\ SubSeq(Append(s, n), k, Len(Append(s, n))) \in Seq(Nat)
         /\ Len(SubSeq(Append(s, n), k, Len(Append(s, n)))) = Len(Append(s, n)) - k + 1
OBVIOUS

LEMMA ClockStep == ClockTyped /\ [Next]_vars => ClockTyped'
<1> SUFFICES ASSUME ClockTyped, [Next]_vars
             PROVE  ClockTyped'
  OBVIOUS
<1>1. now' \in Nat
  BY StepEffect DEF ClockTyped
<1>2. now + Ban \in Nat
  BY Limits DEF ClockTyped
<1>3. bannedUntil' \in [Addresses -> Nat]
  BY StepEffect, <1>2 DEF ClockTyped, LetBe, Forgiven, BanOver, Counted, GotBanned
<1> QED BY <1>1, <1>3 DEF ClockTyped

LEMMA SlatesStep ==
  ClockTyped /\ SlatesTyped /\ SlatesShort /\ [Next]_vars => SlatesTyped' /\ SlatesShort'
<1> SUFFICES ASSUME ClockTyped, SlatesTyped, SlatesShort, [Next]_vars
             PROVE  SlatesTyped' /\ SlatesShort'
  OBVIOUS
<1>1. CASE LetBe
  BY <1>1 DEF LetBe, SlatesTyped, SlatesShort
<1>2. ASSUME NEW a \in Addresses, Forgiven(a) \/ \E first \in DOMAIN Append(failures[a], now) : GotBanned(a, first)
      PROVE  SlatesTyped' /\ SlatesShort'
  <2>1. failures' = [failures EXCEPT ![a] = <<>>] /\ log' = [log EXCEPT ![a] = <<>>]
    BY <1>2 DEF Forgiven, GotBanned
  <2>2. SlatesTyped'
    BY <2>1 DEF SlatesTyped
  <2>3. ASSUME NEW b \in Addresses
        PROVE  Len(failures'[b]) < MaxFailures
    <3>1. CASE b = a
      BY <3>1, <2>1, Limits DEF SlatesTyped
    <3>2. CASE b # a
      BY <3>2, <2>1 DEF SlatesTyped, SlatesShort
    <3> QED BY <3>1, <3>2
  <2> QED BY <2>2, <2>3 DEF SlatesShort
<1>3. ASSUME NEW a \in Addresses, BanOver(a)
      PROVE  SlatesTyped' /\ SlatesShort'
  BY <1>3 DEF BanOver, SlatesTyped, SlatesShort
<1>4. ASSUME NEW a \in Addresses, NEW first \in DOMAIN Append(failures[a], now), Counted(a, first)
      PROVE  SlatesTyped' /\ SlatesShort'
  <2> DEFINE times == Append(failures[a], now)
             kept  == SubSeq(times, first, Len(times))
  <2>1. now \in Nat /\ failures[a] \in Seq(Nat) /\ log[a] \in Seq(Nat)
    BY DEF ClockTyped, SlatesTyped
  <2>2. kept \in Seq(Nat) /\ Len(kept) = Len(times) - first + 1
    BY <2>1, TimesStayTimes
  <2>3. Append(log[a], now) \in Seq(Nat)
    BY <2>1
  <2>4. /\ failures' = [failures EXCEPT ![a] = kept]
        /\ log' = [log EXCEPT ![a] = Append(log[a], now)]
        /\ Len(times) - first + 1 < MaxFailures
    BY <1>4 DEF Counted
  <2> HIDE DEF times, kept
  <2>5. SlatesTyped'
    BY <2>2, <2>3, <2>4 DEF SlatesTyped
  <2>6. \A b \in Addresses : Len(failures'[b]) < MaxFailures
    BY <2>2, <2>4 DEF SlatesTyped, SlatesShort
  <2> QED BY <2>5, <2>6 DEF SlatesShort
<1> QED BY <1>1, <1>2, <1>3, <1>4, StepEffect

LEMMA AttemptsStep == ClockTyped /\ AttemptsTyped /\ [Next]_vars => AttemptsTyped'
<1> SUFFICES ASSUME ClockTyped, AttemptsTyped, [Next]_vars
             PROVE  AttemptsTyped'
  OBVIOUS
<1>1. ASSUME NEW t \in Attempts, Finished(t)
      PROVE  AttemptsTyped'
  BY <1>1 DEF Finished, AttemptsTyped
<1>2. ASSUME NEW t \in Attempts, Check(t)
      PROVE  AttemptsTyped'
  <2>1. \/ pc' = pc /\ since' = since
        \/ pc' = [pc EXCEPT ![t] = "trying"] /\ since' = [since EXCEPT ![t] = now]
    BY <1>2 DEF Check
  <2> QED BY <2>1 DEF ClockTyped, AttemptsTyped
<1>3. CASE Tick \/ UNCHANGED vars
  BY <1>3 DEF Tick, vars, AttemptsTyped
<1> QED BY <1>1, <1>2, <1>3 DEF Next, RecordFailure, RecordSuccess, GiveUp

LEMMA TypeInit == Init => TypeInv
<1> SUFFICES ASSUME Init PROVE TypeInv
  OBVIOUS
<1>1. ClockTyped /\ AttemptsTyped /\ SlatesTyped
  BY DEF Init, ClockTyped, AttemptsTyped, SlatesTyped
<1>2. SlatesShort
  BY Limits DEF Init, SlatesShort
<1> QED BY <1>1, <1>2 DEF TypeInv

LEMMA TypeAlways == Spec => []TypeInv
<1>1. TypeInv /\ [Next]_vars => TypeInv'
  BY ClockStep, SlatesStep, AttemptsStep DEF TypeInv
<1> QED BY <1>1, TypeInit, PTL DEF Spec

\* Every variable keeps its type, and an address always has fewer failures on its slate
\* than would get it banned.
THEOREM TypeCorrect == Spec => []TypeOK
<1>1. TypeInv => TypeOK
  BY DEF TypeInv, ClockTyped, SlatesTyped, SlatesShort, AttemptsTyped, TypeOK
<1> QED BY <1>1, TypeAlways, PTL

-----------------------------------------------------------------------------
(* A ban is kept *)

\* No ban has longer to go than a new one would, so no new one shortens it.
NoBanIsLonger == \A a \in Addresses : bannedUntil[a] <= now + Ban

LEMMA NoBanIsLongerStep == ClockTyped /\ NoBanIsLonger /\ [Next]_vars => NoBanIsLonger'
<1> SUFFICES ASSUME ClockTyped, NoBanIsLonger, [Next]_vars, NEW b \in Addresses
             PROVE  bannedUntil'[b] <= now' + Ban
  BY DEF NoBanIsLonger
<1>1. now \in Nat /\ bannedUntil \in [Addresses -> Nat] /\ bannedUntil[b] <= now + Ban
      /\ Ban \in Nat
  BY Limits DEF ClockTyped, NoBanIsLonger
<1>2. now' = now \/ now' = now + 1
  BY StepEffect
<1>3. bannedUntil'[b] \in {bannedUntil[b], 0, now + Ban}
  BY <1>1, StepEffect DEF LetBe, Forgiven, BanOver, Counted, GotBanned
<1> QED BY <1>1, <1>2, <1>3

LEMMA BanStep ==
  ASSUME ClockTyped, NoBanIsLonger, [Next]_vars, NEW b \in Addresses, Banned(b)
  PROVE  bannedUntil'[b] >= bannedUntil[b]
<1>1. now \in Nat /\ bannedUntil \in [Addresses -> Nat] /\ bannedUntil[b] <= now + Ban
      /\ Ban \in Nat
  BY Limits DEF ClockTyped, NoBanIsLonger
<1>2. bannedUntil'[b] \in {bannedUntil[b], now + Ban}
  BY <1>1, StepEffect DEF LetBe, Forgiven, BanOver, Counted, GotBanned
<1> QED BY <1>1, <1>2

LEMMA NoBanIsLongerInit == Init => NoBanIsLonger
<1> SUFFICES ASSUME Init, NEW a \in Addresses PROVE bannedUntil[a] <= now + Ban
  BY DEF NoBanIsLonger
<1>1. bannedUntil[a] = 0 /\ now \in Nat
  BY DEF Init
<1> QED BY <1>1, Limits

\* S22, "for the ban and no longer": no step lifts or shortens a ban that has time left.
\* Only a check forgets one, when it is over, and a failure can only begin another.
THEOREM BansAreKept == Spec => BanIsKept
<1> DEFINE Kept == \A a \in Addresses : Banned(a) => bannedUntil'[a] >= bannedUntil[a]
<1>1. TypeInv /\ NoBanIsLonger /\ [Next]_vars => NoBanIsLonger'
  BY NoBanIsLongerStep DEF TypeInv
<1>2. TypeInv /\ NoBanIsLonger /\ [Next]_vars => [Kept]_vars
  BY BanStep DEF TypeInv
<1> QED BY <1>1, <1>2, NoBanIsLongerInit, TypeAlways, PTL DEF Spec, BanIsKept

-----------------------------------------------------------------------------
(* Nobody gets past the check while banned *)

\* An attempt under way began in the past; and not in its address's ban.
Began == \A t \in Attempts : since[t] <= now

LEMMA BeganStep == TypeInv /\ Began /\ [Next]_vars => Began'
<1> SUFFICES ASSUME TypeInv, Began, [Next]_vars, NEW t \in Attempts
             PROVE  since'[t] <= now'
  BY DEF Began
<1>1. now \in Nat /\ since \in [Attempts -> Nat] /\ since[t] <= now
  BY DEF TypeInv, ClockTyped, AttemptsTyped, Began
<1>2. now' = now \/ now' = now + 1
  BY StepEffect
<1>3. since'[t] \in {since[t], 0, now}
  BY <1>1 DEF Next, vars, Tick, Check, RecordFailure, RecordSuccess, GiveUp, Finished
<1> QED BY <1>1, <1>2, <1>3

LEMMA AttemptStep ==
  ASSUME TypeInv, Began, NoAttemptBeginsInABan, [Next]_vars,
         NEW t \in Attempts, pc'[t] = "trying", Banned(AddressOf[t])'
  PROVE  since'[t] + Ban <= bannedUntil'[AddressOf[t]]
<1> DEFINE a == AddressOf[t]
<1>1. /\ a \in Addresses /\ Ban \in Nat /\ Ban > 0
      /\ now \in Nat /\ bannedUntil \in [Addresses -> Nat]
      /\ pc \in [Attempts -> {"away", "trying"}] /\ since \in [Attempts -> Nat]
      /\ since[t] <= now
  BY AddressIsOne, Limits DEF TypeInv, ClockTyped, AttemptsTyped, Began
<1>2. now' = now \/ now' = now + 1
  BY StepEffect
<1>3. bannedUntil'[a] > now'
  BY DEF Banned
<1>4. \/ pc[t] = "trying" /\ since'[t] = since[t]
      \/ pc[t] = "away" /\ since'[t] = now /\ bannedUntil'[a] = 0
  BY <1>1 DEF Next, vars, Tick, Check, RecordFailure, RecordSuccess, GiveUp, Finished
<1>5. CASE pc[t] = "trying" /\ since'[t] = since[t]
  <2>1. bannedUntil'[a] \in {bannedUntil[a], 0, now + Ban}
    BY <1>1, StepEffect DEF LetBe, Forgiven, BanOver, Counted, GotBanned
  <2>2. CASE bannedUntil'[a] = bannedUntil[a]
    <3>1. bannedUntil[a] > now
      BY <1>1, <1>2, <1>3, <2>2
    <3>2. since[t] + Ban <= bannedUntil[a]
      BY <3>1, <1>5 DEF NoAttemptBeginsInABan, Banned
    <3> QED BY <3>2, <2>2, <1>5
  <2>3. CASE bannedUntil'[a] = now + Ban
    BY <2>3, <1>1, <1>5
  <2>4. CASE bannedUntil'[a] = 0
    BY <2>4, <1>1, <1>2, <1>3
  <2> QED BY <2>1, <2>2, <2>3, <2>4
<1>6. CASE bannedUntil'[a] = 0
  BY <1>6, <1>1, <1>2, <1>3
<1> QED BY <1>4, <1>5, <1>6

\* S22: every attempt made while its address is banned was let through before that ban
\* began, so a ban ends the guessing but for the connections already under way.
THEOREM BannedCannotBegin == Spec => []NoAttemptBeginsInABan
<1>1. Init => Began /\ NoAttemptBeginsInABan
  BY DEF Init, Began, NoAttemptBeginsInABan
<1>2. TypeInv /\ Began /\ [Next]_vars => Began'
  BY BeganStep
<1>3. TypeInv /\ Began /\ NoAttemptBeginsInABan /\ [Next]_vars => NoAttemptBeginsInABan'
  <2> SUFFICES ASSUME TypeInv, Began, NoAttemptBeginsInABan, [Next]_vars,
                      NEW t \in Attempts, pc'[t] = "trying", Banned(AddressOf[t])'
               PROVE  since'[t] + Ban <= bannedUntil'[AddressOf[t]]
    BY DEF NoAttemptBeginsInABan
  <2> QED BY AttemptStep
<1> QED BY <1>1, <1>2, <1>3, TypeAlways, PTL DEF Spec

-----------------------------------------------------------------------------
(* The failures kept are enough to judge by *)

\* The slate f of an address, against every failure L since it was clean: the times never
\* go back; f is the end of L; and what is in L only is too old to count with the last.
Slate(f, L) ==
  /\ Len(f) <= Len(L)
  /\ Len(L) > 0 => Len(f) > 0
  /\ \A i \in 1..Len(f) : f[i] = L[Len(L) - Len(f) + i]
  /\ \A i, j \in 1..Len(L) : i <= j => L[i] <= L[j]
  /\ \A i \in 1..Len(L) - Len(f) : L[Len(L)] - L[i] > Window

SlatesInv == \A a \in Addresses :
  /\ Slate(failures[a], log[a])
  /\ \A i \in 1..Len(log[a]) : log[a][i] <= now

\* One more failure: the slate is still the end of the log, and both are still in order.
LEMMA SlateWithOneMore ==
  ASSUME NEW f \in Seq(Nat), NEW L \in Seq(Nat), NEW n \in Nat, Slate(f, L),
         \A i \in 1..Len(L) : L[i] <= n
  PROVE  /\ \A i \in 1..Len(f) + 1 : Append(f, n)[i] = Append(L, n)[Len(L) - Len(f) + i]
         /\ \A i \in 1..Len(L) + 1 : Append(L, n)[i] \in Nat /\ Append(L, n)[i] <= n
         /\ \A i, j \in 1..Len(L) + 1 : i <= j => Append(L, n)[i] <= Append(L, n)[j]
<1> DEFINE e == Append(f, n)
           M == Append(L, n)
           m == Len(f)
           k == Len(L)
<1>1. m \in Nat /\ k \in Nat /\ m <= k
  BY DEF Slate
<1>2. Len(M) = k + 1 /\ M[k + 1] = n /\ \A i \in 1..k : M[i] = L[i] /\ L[i] \in Nat
  OBVIOUS
<1>3. e[m + 1] = n /\ \A i \in 1..m : e[i] = f[i]
  OBVIOUS
<1>4. /\ \A i \in 1..m : f[i] = L[k - m + i]
      /\ \A i, j \in 1..k : i <= j => L[i] <= L[j]
  BY DEF Slate
<1>5. \A i \in 1..k : L[i] <= n
  OBVIOUS
<1> HIDE DEF e, M, m, k
<1>6. ASSUME NEW i \in 1..m + 1
      PROVE  e[i] = M[k - m + i]
  <2>1. CASE i = m + 1
    <3>1. k - m + i = k + 1
      BY <2>1, <1>1
    <3> QED BY <3>1, <2>1, <1>2, <1>3
  <2>2. CASE i \in 1..m
    <3>1. k - m + i \in 1..k
      BY <2>2, <1>1
    <3> QED BY <3>1, <2>2, <1>2, <1>3, <1>4
  <2> QED BY <2>1, <2>2, <1>1
<1>7. ASSUME NEW i \in 1..k + 1
      PROVE  M[i] \in Nat /\ M[i] <= n
  <2>1. CASE i = k + 1
    BY <2>1, <1>2
  <2>2. CASE i \in 1..k
    BY <2>2, <1>2, <1>5
  <2> QED BY <2>1, <2>2, <1>1
<1>8. ASSUME NEW i \in 1..k + 1, NEW j \in 1..k + 1, i <= j
      PROVE  M[i] <= M[j]
  <2>1. CASE j = k + 1
    BY <2>1, <1>2, <1>7
  <2>2. CASE j \in 1..k
    <3>1. i \in 1..k
      BY <2>2, <1>8, <1>1
    <3> QED BY <3>1, <2>2, <1>8, <1>2, <1>4
  <2> QED BY <2>1, <2>2, <1>1
<1> QED BY <1>6, <1>7, <1>8 DEF e, M, m, k

\* Counting a failure and dropping what is too old from the front keeps it so.
LEMMA SlateGrows ==
  ASSUME NEW f \in Seq(Nat), NEW L \in Seq(Nat), NEW n \in Nat, Slate(f, L),
         \A i \in 1..Len(L) : L[i] <= n,
         NEW first \in 1..Len(f) + 1,
         \A i \in 1..first - 1 : n - Append(f, n)[i] > Window
  PROVE  Slate(SubSeq(Append(f, n), first, Len(f) + 1), Append(L, n))
<1> DEFINE e == Append(f, n)
           g == SubSeq(e, first, Len(f) + 1)
           M == Append(L, n)
           m == Len(f)
           k == Len(L)
<1>1. m \in Nat /\ k \in Nat /\ m <= k /\ Window \in Nat /\ first \in 1..m + 1
  BY Limits DEF Slate
<1>2. Len(M) = k + 1 /\ M[k + 1] = n /\ \A i \in 1..k : M[i] = L[i] /\ L[i] \in Nat
  OBVIOUS
<1>3. e \in Seq(Nat) /\ Len(e) = m + 1
  OBVIOUS
<1>4. Len(g) = m + 2 - first /\ \A i \in 1..m + 2 - first : g[i] = e[first + i - 1]
  <2> HIDE DEF e
  <2> QED BY <1>1, <1>3
<1>5. \A i \in 1..k - m : L[k] - L[i] > Window
  BY DEF Slate
<1>6. \A i \in 1..first - 1 : n - e[i] > Window
  OBVIOUS
<1>7. \A i \in 1..m + 1 : e[i] = M[k - m + i]
  BY SlateWithOneMore
<1>8. /\ \A i \in 1..k + 1 : M[i] \in Nat /\ M[i] <= n
      /\ \A i, j \in 1..k + 1 : i <= j => M[i] <= M[j]
  BY SlateWithOneMore
<1> HIDE DEF e, g, M, m, k
<1>9. ASSUME NEW i \in 1..(k + 1) - (m + 2 - first)
      PROVE  n - M[i] > Window
  <2>1. CASE i <= k - m
    <3>1. k \in 1..k /\ i \in 1..k /\ i \in 1..k - m /\ k \in 1..k + 1
      BY <2>1, <1>1
    <3>2. L[k] - L[i] > Window
      BY <3>1, <1>5
    <3>3. M[k] <= n /\ M[k] = L[k] /\ M[i] = L[i] /\ L[k] \in Nat /\ L[i] \in Nat
      BY <3>1, <1>2, <1>8
    <3> QED BY <3>2, <3>3, <1>1, SMTT(30)
  <2>2. CASE i > k - m
    <3> DEFINE j == i - (k - m)
    <3>1. j \in 1..first - 1 /\ j \in 1..m + 1 /\ k - m + j = i
      BY <2>2, <1>1
    <3> HIDE DEF j
    <3>2. n - e[j] > Window /\ e[j] = M[k - m + j]
      BY <3>1, <1>6, <1>7
    <3> QED BY <3>1, <3>2
  <2> QED BY <2>1, <2>2, <1>1
<1>10. ASSUME NEW i \in 1..m + 2 - first
       PROVE  g[i] = M[(k + 1) - (m + 2 - first) + i]
  <2>1. first + i - 1 \in 1..m + 1 /\ k - m + (first + i - 1) = (k + 1) - (m + 2 - first) + i
    BY <1>1
  <2>2. g[i] = e[first + i - 1]
    BY <1>4
  <2>3. e[first + i - 1] = M[k - m + (first + i - 1)]
    BY <2>1, <1>7
  <2> QED BY <2>1, <2>2, <2>3
<1>11. Len(g) <= Len(M) /\ Len(g) > 0
  BY <1>1, <1>2, <1>4
<1>12. \A i \in 1..Len(M) - Len(g) : M[Len(M)] - M[i] > Window
  BY <1>2, <1>4, <1>9
<1>13. \A i \in 1..Len(g) : g[i] = M[Len(M) - Len(g) + i]
  BY <1>2, <1>4, <1>10
<1>14. \A i, j \in 1..Len(M) : i <= j => M[i] <= M[j]
  BY <1>2, <1>8
<1>15. Slate(g, M)
  BY <1>11, <1>12, <1>13, <1>14 DEF Slate
<1> QED BY <1>15 DEF g, M, e

\* A clean slate.
LEMMA SlateClean == Slate(<<>>, <<>>)
BY DEF Slate

LEMMA SlatesInvStep == TypeInv /\ SlatesInv /\ [Next]_vars => SlatesInv'
<1> SUFFICES ASSUME TypeInv, SlatesInv, [Next]_vars
             PROVE  SlatesInv'
  OBVIOUS
<1>1. now \in Nat /\ SlatesTyped /\ (now' = now \/ now' = now + 1)
  BY StepEffect DEF TypeInv, ClockTyped
<1>2. ASSUME NEW b \in Addresses, failures'[b] = failures[b], log'[b] = log[b]
      PROVE  Slate(failures[b], log[b])' /\ \A i \in 1..Len(log'[b]) : log'[b][i] <= now'
  <2>1. Slate(failures'[b], log'[b])
    BY <1>2 DEF SlatesInv
  <2>2. log[b] \in Seq(Nat) /\ \A i \in 1..Len(log[b]) : log[b][i] <= now
    BY <1>1 DEF SlatesInv, SlatesTyped
  <2>3. \A i \in 1..Len(log[b]) : log[b][i] \in Nat
    BY <2>2
  <2>4. \A i \in 1..Len(log[b]) : log[b][i] <= now'
    BY <2>2, <2>3, <1>1
  <2>5. Slate(failures[b], log[b])'
    BY <2>1 DEF Slate
  <2> QED BY <2>4, <2>5, <1>2
<1>3. ASSUME NEW b \in Addresses, failures'[b] = <<>>, log'[b] = <<>>
      PROVE  Slate(failures[b], log[b])' /\ \A i \in 1..Len(log'[b]) : log'[b][i] <= now'
  <2>1. Slate(failures'[b], log'[b])
    BY <1>3, SlateClean
  <2> QED BY <2>1, <1>3 DEF Slate
<1>4. ASSUME NEW b \in Addresses, NEW first \in DOMAIN Append(failures[b], now),
             Counted(b, first), now' = now
      PROVE  Slate(failures[b], log[b])' /\ \A i \in 1..Len(log'[b]) : log'[b][i] <= now'
  <2> DEFINE f == failures[b]
             L == log[b]
  <2>1. f \in Seq(Nat) /\ L \in Seq(Nat) /\ now \in Nat
    BY <1>1 DEF SlatesTyped
  <2>2. Slate(f, L) /\ \A i \in 1..Len(L) : L[i] <= now
    BY DEF SlatesInv
  <2>3. first \in 1..Len(f) + 1 /\ Len(Append(f, now)) = Len(f) + 1
    BY <2>1
  <2>4. failures'[b] = SubSeq(Append(f, now), first, Len(f) + 1) /\ log'[b] = Append(L, now)
    BY <1>4, <2>3, <1>1 DEF Counted, SlatesTyped
  <2>5. \A i \in 1..first - 1 : now - Append(f, now)[i] > Window
    BY <1>4 DEF Counted, FirstKept
  <2> HIDE DEF f, L
  <2>6. Slate(SubSeq(Append(f, now), first, Len(f) + 1), Append(L, now))
    BY <2>1, <2>2, <2>3, <2>5, SlateGrows
  <2>7. Slate(failures[b], log[b])'
    BY <2>4, <2>6 DEF Slate
  <2>8. \A i \in 1..Len(Append(L, now)) : Append(L, now)[i] <= now
    BY <2>1, <2>2
  <2> QED BY <2>4, <2>7, <2>8, <1>4
<1>5. ASSUME NEW b \in Addresses
      PROVE  Slate(failures[b], log[b])' /\ \A i \in 1..Len(log'[b]) : log'[b][i] <= now'
  <2>1. CASE LetBe
    BY <2>1, <1>2 DEF LetBe
  <2>2. ASSUME NEW a \in Addresses, now' = now,
               \/ Forgiven(a) \/ BanOver(a)
               \/ \E first \in DOMAIN Append(failures[a], now) :
                    Counted(a, first) \/ GotBanned(a, first)
        PROVE  Slate(failures[b], log[b])' /\ \A i \in 1..Len(log'[b]) : log'[b][i] <= now'
    <3>1. CASE a # b
      <4>1. failures'[b] = failures[b] /\ log'[b] = log[b]
        BY <3>1, <2>2, <1>1 DEF SlatesTyped, Forgiven, BanOver, Counted, GotBanned
      <4> QED BY <4>1, <1>2
    <3>2. CASE BanOver(a)
      BY <3>2, <1>2 DEF BanOver
    <3>3. CASE a = b /\ (Forgiven(a) \/ \E first \in DOMAIN Append(failures[a], now) : GotBanned(a, first))
      <4>1. failures'[b] = <<>> /\ log'[b] = <<>>
        BY <3>3, <1>1 DEF SlatesTyped, Forgiven, GotBanned
      <4> QED BY <4>1, <1>3
    <3>4. CASE a = b /\ \E first \in DOMAIN Append(failures[a], now) : Counted(a, first)
      BY <3>4, <2>2, <1>4
    <3> QED BY <2>2, <3>1, <3>2, <3>3, <3>4
  <2> QED BY <2>1, <2>2, StepEffect
<1> QED BY <1>5 DEF SlatesInv

LEMMA SlatesInvAlways == Spec => [](TypeInv /\ SlatesInv)
<1>1. Init => SlatesInv
  <2> SUFFICES ASSUME Init, NEW a \in Addresses
               PROVE  Slate(failures[a], log[a]) /\ \A i \in 1..Len(log[a]) : log[a][i] <= now
    BY DEF SlatesInv
  <2>1. failures[a] = <<>> /\ log[a] = <<>>
    BY DEF Init
  <2> QED BY <2>1, SlateClean
<1> QED BY <1>1, SlatesInvStep, TypeAlways, PTL DEF Spec

\* The newest failure cannot be one too many: those kept are fewer than MaxFailures, and
\* those before them are too old.
LEMMA NewestIsNotOneTooMany ==
  ASSUME NEW f \in Seq(Nat), NEW L \in Seq(Nat), Slate(f, L), Len(f) < MaxFailures, Len(L) > 0
  PROVE  ~TooMany(L, Len(L))
<1>1. Len(L) \in Nat /\ Len(f) \in Nat
  OBVIOUS
<1>2. CASE Len(L) >= MaxFailures
  <2>1. Len(L) - MaxFailures + 1 \in 1..Len(L) - Len(f)
    BY <1>1, <1>2, Limits
  <2>2. L[Len(L)] - L[Len(L) - MaxFailures + 1] > Window
    BY <2>1 DEF Slate
  <2>3. Len(L) \in 1..Len(L) /\ Len(L) - MaxFailures + 1 \in 1..Len(L)
    BY <1>1, <1>2, Limits
  <2>4. L[Len(L)] \in Nat /\ L[Len(L) - MaxFailures + 1] \in Nat
    BY <2>3
  <2> QED BY <2>2, <2>4, Limits DEF TooMany
<1>3. CASE ~(Len(L) >= MaxFailures)
  BY <1>3 DEF TooMany
<1> QED BY <1>2, <1>3

LEMMA NobodyStep ==
  TypeInv /\ TypeInv' /\ SlatesInv' /\ NobodyIsOverlooked /\ [Next]_vars => NobodyIsOverlooked'
<1> SUFFICES ASSUME TypeInv, TypeInv', SlatesInv', NobodyIsOverlooked, [Next]_vars,
                    NEW b \in Addresses, NEW n \in DOMAIN log'[b]
             PROVE  ~TooMany(log'[b], n)
  BY DEF NobodyIsOverlooked, TooMany
<1>1. /\ log \in [Addresses -> Seq(Nat)] /\ failures \in [Addresses -> Seq(Nat)]
      /\ log'[b] \in Seq(Nat) /\ failures'[b] \in Seq(Nat)
      /\ Len(failures'[b]) < MaxFailures /\ now \in Nat
  BY DEF TypeInv, SlatesTyped, SlatesShort, ClockTyped
<1>2. CASE log'[b] = log[b]
  BY <1>2 DEF NobodyIsOverlooked
<1>3. CASE log'[b] = <<>>
  BY <1>3
<1>4. CASE log'[b] = Append(log[b], now)
  <2>1. CASE n = Len(log'[b])
    <3>1. Slate(failures'[b], log'[b])
      BY DEF SlatesInv, Slate
    <3>2. log[b] \in Seq(Nat) /\ Len(log'[b]) > 0
      BY <1>1, <1>4
    <3> QED BY <3>1, <3>2, <2>1, <1>1, NewestIsNotOneTooMany
  <2>2. CASE n \in DOMAIN log[b]
    <3>1. ~TooMany(log[b], n)
      BY <2>2 DEF NobodyIsOverlooked
    <3>2. \A i \in DOMAIN log[b] : log'[b][i] = log[b][i]
      BY <1>1, <1>4
    <3>3. n >= MaxFailures => n - MaxFailures + 1 \in DOMAIN log[b]
      BY <2>2, <1>1, Limits
    <3> QED BY <2>2, <3>1, <3>2, <3>3 DEF TooMany
  <2> QED BY <2>1, <2>2, <1>1, <1>4
<1>5. log'[b] = log[b] \/ log'[b] = <<>> \/ log'[b] = Append(log[b], now)
  BY <1>1, StepEffect DEF LetBe, Forgiven, BanOver, Counted, GotBanned
<1> QED BY <1>2, <1>3, <1>4, <1>5

\* S22: no address has MaxFailures failures within the window and no ban for them, although
\* the limiter forgets failures as it goes.
THEOREM FailuresAddUp == Spec => []NobodyIsOverlooked
<1>1. Init => NobodyIsOverlooked
  BY DEF Init, NobodyIsOverlooked
<1> QED BY <1>1, NobodyStep, SlatesInvAlways, PTL DEF Spec

LEMMA BanStepIsEarned ==
  ASSUME TypeInv, SlatesInv, [Next]_vars, NEW b \in Addresses, bannedUntil'[b] > bannedUntil[b]
  PROVE  TooMany(Append(log[b], now), Len(log[b]) + 1)
<1> DEFINE f == failures[b]
           L == log[b]
<1>1. /\ failures \in [Addresses -> Seq(Nat)] /\ f \in Seq(Nat) /\ L \in Seq(Nat) /\ now \in Nat
      /\ bannedUntil \in [Addresses -> Nat]
  BY DEF TypeInv, SlatesTyped, ClockTyped
<1>2. Slate(f, L) /\ \A i \in 1..Len(L) : L[i] <= now
  BY DEF SlatesInv
<1>3. \E first \in DOMAIN Append(f, now) : GotBanned(b, first)
  BY <1>1, StepEffect DEF LetBe, Forgiven, BanOver, Counted, GotBanned
<1>4. PICK first \in DOMAIN Append(f, now) : GotBanned(b, first)
  BY <1>3
<1>5. /\ now - Append(f, now)[first] <= Window
      /\ ~(Len(Append(f, now)) - first + 1 < MaxFailures)
  BY <1>4 DEF GotBanned, FirstKept
<1> HIDE DEF f, L
<1> DEFINE M == Append(L, now)
           i == (Len(L) + 1) - MaxFailures + 1
           j == Len(L) - Len(f) + first
<1>6. first \in 1..Len(f) + 1 /\ Len(Append(f, now)) = Len(f) + 1
  BY <1>1
<1>7. Len(f) <= Len(L) /\ Len(f) \in Nat /\ Len(L) \in Nat
  BY <1>1, <1>2 DEF Slate
<1>8. i \in 1..Len(L) + 1 /\ j \in 1..Len(L) + 1 /\ j <= i /\ Len(L) + 1 >= MaxFailures
  BY <1>5, <1>6, <1>7, Limits
<1>9. /\ Append(f, now)[first] = M[j]
      /\ M[i] \in Nat /\ M[j] \in Nat /\ M[j] <= M[i] /\ M[Len(L) + 1] = now
  <2> HIDE DEF i, j
  <2>1. M[i] \in Nat /\ M[j] \in Nat /\ M[j] <= M[i]
    BY <1>1, <1>2, <1>8, SlateWithOneMore
  <2>2. Append(f, now)[first] = M[Len(L) - Len(f) + first]
    BY <1>1, <1>2, <1>6, SlateWithOneMore
  <2>3. M[Len(L) + 1] = now
    BY <1>1
  <2> QED BY <2>1, <2>2, <2>3 DEF j
<1>10. now - M[i] <= Window
  <2>1. now - M[j] <= Window
    BY <1>5, <1>9
  <2>2. M[i] \in Nat /\ M[j] \in Nat /\ M[j] <= M[i]
    BY <1>9
  <2> HIDE DEF i, j, M
  <2> QED BY <1>1, <2>1, <2>2, Limits
<1>11. TooMany(M, Len(L) + 1)
  <2> DEFINE n == Len(L) + 1
  <2>1. M[n] = now /\ n >= MaxFailures /\ i = n - MaxFailures + 1
    BY <1>8, <1>9
  <2>2. M[n] - M[i] <= Window
    BY <2>1, <1>10
  <2> HIDE DEF n, i, M
  <2>3. TooMany(M, n)
    BY <2>1, <2>2 DEF TooMany
  <2> QED BY <2>3 DEF n
<1> QED BY <1>11 DEF L

\* S22: nobody is banned for less, a right code and the end of a ban having wiped the slate.
THEOREM BansAreEarned == Spec => BanIsEarned
<1> DEFINE Earned == \A a \in Addresses : bannedUntil'[a] > bannedUntil[a] =>
                       TooMany(Append(log[a], now), Len(log[a]) + 1)
<1>1. TypeInv /\ SlatesInv /\ [Next]_vars => [Earned]_vars
  BY BanStepIsEarned
<1> QED BY <1>1, SlatesInvAlways, PTL DEF Spec, BanIsEarned
=============================================================================
