----------------------------- MODULE AuthLimiter -----------------------------
(***************************************************************************)
(* Guessing a code is rate-limited per address (AuthLimiter in             *)
(* proxy/server.py, SPEC S22).  A connection is checked once, when its     *)
(* handler thread starts, and may then take seconds to send its code: the  *)
(* addresses' connections run side by side, so one that was let through    *)
(* is still at it when another gets their address banned.                  *)
(*                                                                         *)
(* Time is the limiter's monotonic clock, in ticks.  A definition marked   *)
(* "Bug" is a plausible wrong form of the definition that follows it.      *)
(***************************************************************************)
EXTENDS Naturals, Sequences

CONSTANTS
  Addresses,
  Attempts,     \* connections an address can have before their auth at a time
  AddressOf,    \* the address each of them comes from
  MaxFailures,  \* max_failures
  Window,       \* window
  Ban,          \* ban
  MaxTime       \* bound: how long the clock runs

ASSUME AddressAssumption == AddressOf \in [Attempts -> Addresses]
ASSUME LimitsAssumption ==
  MaxFailures \in Nat \ {0} /\ Window \in Nat /\ Ban \in Nat \ {0} /\ MaxTime \in Nat

VARIABLES
  now,          \* the clock
  failures,     \* _failures: the times, oldest first; <<>> for an address not in it
  bannedUntil,  \* _banned_until: 0 for an address not in it
  pc,           \* each attempt: "away", or "trying" once it is past the check
  since,        \* ghost: when that was
  log           \* ghost: every failure since the address had a clean slate

limits == <<failures, bannedUntil>>
vars == <<now, limits, pc, since, log>>

Banned(a) == bannedUntil[a] > now

-----------------------------------------------------------------------------
\* Bug: the address is looked up among those with failures, where a ban removes it.
ChecksTheFailures(t) ==
  /\ pc[t] = "away"
  /\ IF Len(failures[AddressOf[t]]) >= MaxFailures
     THEN UNCHANGED <<bannedUntil, pc, since>>
     ELSE /\ pc' = [pc EXCEPT ![t] = "trying"]
          /\ since' = [since EXCEPT ![t] = now]
          /\ UNCHANGED bannedUntil
  /\ UNCHANGED <<now, failures, log>>

\* banned_for(): a ban that is over is forgotten; during one, the attempt is refused.
Check(t) ==
  LET a == AddressOf[t] IN
  /\ pc[t] = "away"
  /\ IF Banned(a)
     THEN UNCHANGED <<bannedUntil, pc, since>>
     ELSE /\ bannedUntil' = [bannedUntil EXCEPT ![a] = 0]
          /\ pc' = [pc EXCEPT ![t] = "trying"]
          /\ since' = [since EXCEPT ![t] = now]
  /\ UNCHANGED <<now, failures, log>>

Finished(t) ==
  /\ pc[t] = "trying"
  /\ pc' = [pc EXCEPT ![t] = "away"]
  /\ since' = [since EXCEPT ![t] = 0]

\* Bug: a failure exactly as old as the window is dropped too.
DropsTheWindowsEdge(times, first) ==
  /\ now - times[first] < Window
  /\ \A i \in 1..first - 1 : now - times[i] >= Window

\* Bug: nothing is ever dropped.
KeepsEverything(times, first) == first = 1

\* Where the popleft() loop stops: at the first that is not older than the window.
FirstKept(times, first) ==
  /\ now - times[first] <= Window
  /\ \A i \in 1..first - 1 : now - times[i] > Window

\* Bug: failures are counted and never lead to a ban.
CountsButNeverBans(t) ==
  LET a == AddressOf[t]
      times == Append(failures[a], now)
  IN  /\ Finished(t)
      /\ \E first \in DOMAIN times :
           /\ FirstKept(times, first)
           /\ failures' = [failures EXCEPT ![a] = SubSeq(times, first, Len(times))]
      /\ log' = [log EXCEPT ![a] = Append(@, now)]
      /\ UNCHANGED <<now, bannedUntil>>

\* record_failure(): a malformed hello, or a code nobody has.
RecordFailure(t) ==
  LET a == AddressOf[t]
      times == Append(failures[a], now)
  IN  /\ Finished(t)
      /\ \E first \in DOMAIN times :
           /\ FirstKept(times, first)
           /\ IF Len(times) - first + 1 < MaxFailures
              THEN /\ failures' = [failures EXCEPT ![a] = SubSeq(times, first, Len(times))]
                   /\ log' = [log EXCEPT ![a] = Append(@, now)]
                   /\ UNCHANGED bannedUntil
              ELSE /\ failures' = [failures EXCEPT ![a] = <<>>]
                   /\ log' = [log EXCEPT ![a] = <<>>]
                   /\ bannedUntil' = [bannedUntil EXCEPT ![a] = now + Ban]
      /\ UNCHANGED now

\* Bug: the slate it clears is the ban as well.
ForgivesTheBan(t) ==
  LET a == AddressOf[t] IN
  /\ Finished(t)
  /\ failures' = [failures EXCEPT ![a] = <<>>]
  /\ bannedUntil' = [bannedUntil EXCEPT ![a] = 0]
  /\ log' = [log EXCEPT ![a] = <<>>]
  /\ UNCHANGED now

\* record_success().
RecordSuccess(t) ==
  LET a == AddressOf[t] IN
  /\ Finished(t)
  /\ failures' = [failures EXCEPT ![a] = <<>>]
  /\ log' = [log EXCEPT ![a] = <<>>]
  /\ UNCHANGED <<now, bannedUntil>>

\* The peer closes, or sends nothing for _AUTH_TIMEOUT: not counted.
GiveUp(t) ==
  /\ Finished(t)
  /\ UNCHANGED <<now, limits, log>>

Tick ==
  /\ now < MaxTime
  /\ now' = now + 1
  /\ UNCHANGED <<limits, pc, since, log>>

Init ==
  /\ now = 0
  /\ failures = [a \in Addresses |-> <<>>] /\ bannedUntil = [a \in Addresses |-> 0]
  /\ pc = [t \in Attempts |-> "away"] /\ since = [t \in Attempts |-> 0]
  /\ log = [a \in Addresses |-> <<>>]

Next ==
  \/ Tick
  \/ \E t \in Attempts : Check(t) \/ RecordFailure(t) \/ RecordSuccess(t) \/ GiveUp(t)

Spec == Init /\ [][Next]_vars
-----------------------------------------------------------------------------
(* Properties *)

TypeOK ==
  /\ now \in Nat
  /\ failures \in [Addresses -> Seq(Nat)]
  /\ \A a \in Addresses : Len(failures[a]) < MaxFailures
  /\ bannedUntil \in [Addresses -> Nat]
  /\ pc \in [Attempts -> {"away", "trying"}] /\ since \in [Attempts -> Nat]
  /\ log \in [Addresses -> Seq(Nat)]

\* The n-th of these failures and the MaxFailures - 1 before it fall within the window.
TooMany(times, n) ==
  n >= MaxFailures /\ times[n] - times[n - MaxFailures + 1] <= Window

\* S22, "MAX_AUTH_FAILURES within FAIL_WINDOW and that address is refused": no address gets
\* away with so many in a window, although the old ones are only dropped, from the
\* front, when a new one is counted.
NobodyIsOverlooked ==
  \A a \in Addresses : \A n \in DOMAIN log[a] : ~TooMany(log[a], n)

\* S22, "failures spaced beyond the window never add up; a success clears earlier
\* failures": an address is only banned on the last of MaxFailures within the window,
\* none of them before a right code or an earlier ban.
BanIsEarned ==
  [][\A a \in Addresses :
       bannedUntil'[a] > bannedUntil[a] =>
         TooMany(Append(log[a], now), Len(log[a]) + 1)]_vars

\* S22, "for the ban and no longer": once banned, an address stays so until its time is
\* up, whatever the attempts do that were under way, a right code included.
BanIsKept ==
  [][\A a \in Addresses : Banned(a) => bannedUntil'[a] >= bannedUntil[a]]_vars

\* S22, refused "straight after connecting": who is trying a code while its address is
\* banned was let through no later than the failure that brought the ban.
NoAttemptBeginsInABan ==
  \A t \in Attempts :
    pc[t] = "trying" /\ Banned(AddressOf[t]) => since[t] + Ban <= bannedUntil[AddressOf[t]]
=============================================================================
