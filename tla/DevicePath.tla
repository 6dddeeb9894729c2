------------------------------ MODULE DevicePath ------------------------------
(***************************************************************************)
(* From the device to the clients of the pty mirrors and back: the sources *)
(* composed with the mirrors by the session between them.  What a read()   *)
(* returns is broadcast on the thread that read it, as a subscriber of the *)
(* session's bus; what a mirror's client types goes to session.write() on  *)
(* the mirrors' serving thread, which waits for it.                        *)
(*                                                                         *)
(* use says what happens in a behaviour (a bound: each behaviour has a few *)
(* of the things that can happen, and the runs cover the ones that meet).  *)
(***************************************************************************)
EXTENDS PtyMirrors, Sources

CONSTANTS
  Uses,      \* [kind, serial, replays, group, merge, drains, types, speaks, does]
  MaxWrites  \* bound: writes the user interface begins

ASSUME UsesAssumption ==
  Uses \subseteq [kind : Kinds, serial : BOOLEAN, replays : BOOLEAN, group : {"absent", "running"},
                 merge : {"raw", "line"}, drains : SUBSET Mirrors, types : SUBSET Mirrors,
                 speaks : Nat, does : SUBSET ({"write", "break", "refuse", "stop", "unplug", "guest"}
                                              \union Verbs)]

VARIABLE use

vars == <<mirrorVars, sourceVars, use>>

Does(thing) == thing \in use.does

TypeOK == MirrorTypeOK /\ SourceTypeOK /\ use \in Uses

Init ==
  /\ use \in Uses
  /\ MirrorInit(use.group, use.merge, use.drains)
  /\ SourceInit(use.kind, use.serial, use.replays)

\* The session's thread opens: what is tried depends on the kind of source.
OpenStep ==
  \/ OpenUrl \/ OpenSsh \/ OpenTelnet \/ OpenUart \/ FollowUart \/ FollowInVain \/ Claim
  \/ OpenAgain \/ Dial \/ SayHello \/ OpenRaises \/ ReceiveMore \/ NoAnswerCame \/ TriedTooSoon
  \/ AnswerIsGarbage \/ Refused \/ Accepted \/ CollectLine \/ CollectNoMore

Reads == ReadUart \/ ReadUrl \/ ReadSsh \/ Received \/ Replied \/ ReadPending

\* _on_rx(): the mirrors get what was read before the next read().
Hear ==
  /\ Reads
  /\ IF group # "absent" /\ heard' # heard THEN Broadcast ELSE UNCHANGED mirrorVars
  /\ UNCHANGED use

\* The mirrors' thread hands a piece to session.write(), which raises at once when the device is
\* away, and otherwise keeps it until the source has taken it.
ForwardBegins == At("forward") /\ BeginWrite("pty") /\ UNCHANGED <<mirrorVars, use>>

ForwardFails ==
  /\ At("forward") /\ sending["pty"].at = "idle" /\ ~connected
  /\ Forwarded
  /\ UNCHANGED <<sourceVars, use>>

ForwardEnds ==
  /\ sending["pty"].at \in {"done", "failed"}
  /\ Forwarded
  /\ Sends("pty", Idle)
  /\ UNCHANGED <<wire, writes, began, raised, use>>

UiWrites ==
  /\ Does("write") /\ writes < MaxWrites
  /\ BeginWrite("ui") \/ BeginResize
  /\ UNCHANGED <<mirrorVars, use>>

Session ==
  /\ \/ OpenStep \/ ReadTelnet \/ Receive \/ Ingest \/ IngestLine \/ Ingested
     \/ ReadRaises \/ CloseSource \/ Retry \/ BeginReply
  /\ UNCHANGED <<mirrorVars, use>>

Writers ==
  /\ WriteReturns \/ \E t \in Threads : WriteStep(t)
  /\ UNCHANGED <<mirrorVars, use>>

\* The other end; what the cable and another program do is there when use says so.
Far ==
  /\ \/ FarAccepts
     \/ \E is \in {"no", "full"} : Does("refuse") /\ FarRefuses(is)
     \/ spoke < use.speaks /\ FarSpeaks
     \/ \E verb \in Verbs, opt \in Options : Does(verb) /\ FarAsks(verb, opt)
     \/ \E keep \in 0..MaxSpoken, cut \in BOOLEAN : Does("break") /\ FarBreaks(keep, cut)
     \/ \E p \in Paths : Does("unplug") /\ Unplug(p)
     \/ \E a \in Adapters, p \in Paths, s \in Places : Does("unplug") /\ PlugIn(a, p, s)
     \/ Does("guest") /\ GuestOpens
     \/ GuestReads
  /\ UNCHANGED <<mirrorVars, use>>

Clients ==
  /\ \/ MirrorStep
     \/ Does("stop") /\ StopMirrors
     \/ \E m \in use.types, ends \in BOOLEAN :
          /\ ends => merge = "line"
          /\ ClientTypes(m, ends)
  /\ UNCHANGED <<sourceVars, use>>

Next ==
  \/ Session \/ Hear \/ Writers \/ UiWrites
  \/ Far \/ Clients
  \/ ForwardBegins \/ ForwardFails \/ ForwardEnds

Spec == Init /\ [][Next]_vars
=============================================================================
