-------------------------------- MODULE Host ---------------------------------
(***************************************************************************)
(* A machine: the commands and the registry they share, and the recording  *)
(* of one of the sessions, which a run that starts later may prune.        *)
(*                                                                         *)
(* A use says what is run and what may go wrong: which process records,    *)
(* whether its folder is one of the store or one used before, whether what *)
(* is typed is recorded.                                                   *)
(***************************************************************************)
EXTENDS Recording, Registry

CONSTANT Uses

ASSUME UsesAssumption ==
  \A u \in Uses :
    /\ u.jobs \in [Procs -> [cmd : {"none", "start", "serve", "stop", "kill", "status", "attach"},
                             base : Bases, port : Ports]]
    /\ u.records \in Procs \union {0}
    /\ u.earlier \in Nat /\ u.ends \subseteq Nat

VARIABLE use

vars == <<recordingVars, registryVars, use>>

Init ==
  /\ use \in Uses
  /\ RecordingInit(use.earlier)
  /\ RegistryInit(use.jobs)

Quietly(p) == p # use.records /\ UNCHANGED recordingVars

\* The retention of a run comes before its own folder is made.
Retains(p) ==
  /\ at[p] = "retain"
  /\ IF use.store THEN Retain ELSE UNCHANGED recordingVars
  /\ at' = [at EXCEPT ![p] = "build"]
  /\ UNCHANGED <<job, view, name, port, term, asked, verdict, reg, link, slave, moving, attached, seen, harmed>>

Builds(p)    == Build(p) /\ (Quietly(p) \/ (p = use.records /\ OpenRecorder))
Unrecords(p) == Unrecord(p) /\ (Quietly(p) \/ (p = use.records /\ CloseRecorder))

\* The session's thread says what it hears while it runs; others type while anything is shared.
Speaks ==
  /\ use.records # 0 /\ Alive(use.records)
  /\ \/ /\ at[use.records] = "serve" /\ said < use.chunks
        /\ \E ends \in use.ends : HandleChunk(ends)
     \/ /\ use.typed /\ at[use.records] \in {"serve", "clean", "restore", "unmirror"}
        /\ HandleTyped
     \/ \E t \in Writers : HandleLine(t) \/ Rotate(t)
  /\ UNCHANGED registryVars

Passes == use.days /\ Day /\ UNCHANGED registryVars

Next ==
  /\ UNCHANGED use
  /\ \/ \E p \in Procs :
          \/ Retains(p) \/ Builds(p) \/ Unrecords(p)
          \/ /\ \/ RegistryStep(p)
                \/ use.fails /\ RegistryFails(p)
                \/ use.crashes /\ Crash(p)
                \/ use.moves /\ \E new \in Ports : MoveBegins(p, new)
             /\ UNCHANGED recordingVars
     \/ Speaks \/ Passes

Spec == Init /\ [][Next]_vars

-----------------------------------------------------------------------------
\* Everything keeps its type, and what the recorder counts is what its files hold.
TypeOK == RecordingTypeOK /\ RegistryTypeOK

\* A session that is served is listed where it listens, under the device it follows, and the
\* mirrors' link is its own, unless a command that had looked before it came took its file or
\* its link, or the registry could not be written; one that ends in order leaves nothing behind,
\* but for what it wrote of a move when it had already removed its file; and a client that
\* attaches to a session that has said it is up is not sent to a port nobody has bound
\* (DaemonInfo, cmd_start, _run_session, on_moved).
SessionsAreFound ==
  \A p \in Procs :
    /\ (IsSession(p) /\ at[p] = "serve") =>
         /\ Registered(p) => IsListed(p) \/ harmed \intersect {<<p, "name">>, <<p, "unwritten">>} # {}
         /\ IsLinked(p) \/ <<p, "link">> \in harmed
    /\ (IsSession(p) /\ at[p] = "ended") =>
         /\ LeavesNothing(p)
         /\ (p = use.records) => ~handles \/ overlap
    /\ (attached[p] = "misled") => <<Target(p), "unwritten">> \in harmed

\* A recording never takes the place of an earlier run's part; and as long as one thread at a
\* time writes it and retention leaves the folder alone, its parts follow one another with
\* nothing missing and nothing twice, each holds the lines of its own chunks, and none outgrows
\* the limit, nor their number (Recorder.rotate, _maybe_rotate, _prune_parts).
RecordingIsWhole ==
  ~deleted =>
    /\ EarlierRunsKept(use.earlier)
    /\ ~overlap => NothingMissing /\ SameSpan /\ SizesCapped
=============================================================================
