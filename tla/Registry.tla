------------------------------ MODULE Registry -------------------------------
(***************************************************************************)
(* The commands of one machine (cli.py) and the registry they share        *)
(* (core/daemon.py): one file per session that is served, which anybody    *)
(* may list, prune, replace and remove, with no lock.                      *)
(*                                                                         *)
(* A process runs one command.  "start" is a session in the background,    *)
(* "serve" a `connect --serve` in a terminal; "stop" and "kill" (stop      *)
(* --force), "status" and "attach" are the commands that look one up.      *)
(* A listing, a check of a process, and a file's writing or removal are    *)
(* one step each.  Pids are not used again, and a file can be removed.      *)
(***************************************************************************)
EXTENDS Naturals, FiniteSets, FiniteSetsExt

CONSTANTS
  Procs,   \* the processes, by pid
  Bases,   \* the names sessions ask for: the stem of a device
  Ports    \* the devices

ASSUME RegistryAssumption == Procs \subseteq Nat \ {0} /\ IsFiniteSet(Procs)

VARIABLES
  job,      \* each process's command line: what it runs, the name and the port
  at,       \* where it is
  view,     \* what it has read of the registry: files by name
  name,     \* the name it has taken
  port,     \* the device its session follows
  term,     \* what a SIGTERM does to it: the default, or it is recorded
  asked,    \* Termination.requested
  verdict,  \* what the parent of a start has been told
  reg,      \* the registry: an entry or none, by name
  link,     \* the mirrors' link, by stem: none, or the slave it points at and whose it was
  slave,    \* the slave each process has, 0 for none
  moving,   \* on_moved() has listed the registry and has not written it yet
  attached, \* what became of an attach
  seen,     \* ghost: the pids a process has seen registered when it last looked
  harmed    \* ghost: who lost what to another command, could not write, or wrote too late

registryVars ==
  <<job, at, view, name, port, term, asked, verdict, reg, link, slave, moving, attached, seen, harmed>>

Names   == Bases \X (1..Cardinality(Procs))
NoEntry == [pid |-> 0, port |-> "none", bound |-> FALSE]
NoLink  == [slave |-> 0, by |-> 0]

SessionStages ==
  {"retain", "build", "bind", "mirror", "link", "ready", "serve",
   "clean", "restore", "unmirror", "unlink", "unrecord", "remove"}
Stages == {"look", "prune", "check", "holder", "find", "name", "write", "signal", "wait", "connect",
           "ended", "killed"} \union SessionStages

IsSession(p) == job[p].cmd \in {"start", "serve"}
Alive(p)     == at[p] \notin {"ended", "killed"}
Live(pid)    == pid \in Procs /\ Alive(pid)
Base(p)      == <<job[p].base, 1>>
Registered(p) == name[p][2] > 0

\* The device a session is told to open is there or not: that is the session's business.
RegistryInit(jobs) ==
  /\ job = jobs
  /\ at = [p \in Procs |-> CASE jobs[p].cmd = "none"  -> "ended"
                             [] jobs[p].cmd = "serve" -> "retain"
                             [] OTHER -> "look"]
  /\ view = [p \in Procs |-> [n \in {} |-> NoEntry]]
  /\ name = [p \in Procs |-> <<jobs[p].base, IF jobs[p].cmd = "serve" THEN 0 ELSE 1>>]
  /\ port = [p \in Procs |-> jobs[p].port]
  /\ term = [p \in Procs |-> "default"] /\ asked = [p \in Procs |-> FALSE]
  /\ verdict = [p \in Procs |-> IF jobs[p].cmd = "start" THEN "waiting" ELSE "none"]
  /\ reg = [n \in Names |-> NoEntry]
  /\ link = [b \in Bases |-> NoLink] /\ slave = [p \in Procs |-> 0]
  /\ moving = [p \in Procs |-> FALSE] /\ attached = [p \in Procs |-> "no"]
  /\ seen = [p \in Procs |-> {}] /\ harmed = {}

-----------------------------------------------------------------------------
(* The registry *)

Files(q)   == [n \in {x \in Names : reg[x].pid \in q} |-> reg[n]]
Listed     == Files({p \in Procs : Alive(p)})
Everything == Files(Procs)
PidsOf(listing) == {listing[n].pid : n \in DOMAIN listing}

\* list_daemons(include_dead=True), by whoever is about to prune.
Look(p) ==
  /\ at[p] = "look"
  /\ view' = [view EXCEPT ![p] = Everything] /\ seen' = [seen EXCEPT ![p] = PidsOf(Everything)]
  /\ at' = [at EXCEPT ![p] = "prune"]
  /\ UNCHANGED <<job, name, port, term, asked, verdict, reg, link, slave, moving, attached, harmed>>

\* Those whose file p replaces or removes: it had not seen them, or has lost its own name to one.
Loses(p, names) ==
  {<<reg[n].pid, "name">> : n \in {x \in names :
     /\ Live(reg[x].pid) /\ reg[x].pid # p
     /\ reg[x].pid \notin seen[p] \/ <<p, "name">> \in harmed}}

\* DaemonInfo.remove(): by its name, whatever is there by now.
Removed(names) == [n \in Names |-> IF n \in names THEN NoEntry ELSE reg[n]]

IsDead(info) == ~Live(info.pid)

\* prune_dead(), and the command goes on.
Prune(p) ==
  LET dead == {n \in DOMAIN view[p] : IsDead(view[p][n])} IN
  /\ at[p] = "prune"
  /\ reg' = Removed(dead) /\ harmed' = harmed \union Loses(p, dead)
  /\ at' = [at EXCEPT ![p] = IF job[p].cmd = "start" THEN "check"
                             ELSE IF job[p].cmd = "serve" THEN "name" ELSE "find"]
  /\ UNCHANGED <<job, view, name, port, term, asked, verdict, link, slave, moving, attached, seen>>

Write(p, entry) ==
  /\ reg' = [reg EXCEPT ![name[p]] = entry]
  /\ harmed' = harmed \union Loses(p, {name[p]})

Entry(p, bound) == [pid |-> p, port |-> port[p], bound |-> bound]

\* daemonize(): the parent of a start waits for one word, and exits with it.
Told(p, word) == verdict' = [verdict EXCEPT ![p] = IF @ = "waiting" THEN word ELSE @]

-----------------------------------------------------------------------------
(* start, and connect --serve *)

\* cmd_start() is refused when the name has a session already,
Check(p) ==
  /\ at[p] = "check"
  /\ seen' = [seen EXCEPT ![p] = PidsOf(Listed)]
  /\ IF Base(p) \in DOMAIN Listed
       THEN at' = [at EXCEPT ![p] = "ended"] /\ verdict' = [verdict EXCEPT ![p] = "refused"]
       ELSE at' = [at EXCEPT ![p] = "holder"] /\ UNCHANGED verdict
  /\ UNCHANGED <<job, view, name, port, term, asked, reg, link, slave, moving, attached, harmed>>

\* or, in a listing of its own, when the device has: the names there are not looked at again.
CheckHolder(p) ==
  /\ at[p] = "holder"
  /\ IF \E n \in DOMAIN Listed : Listed[n].port = port[p]
       THEN at' = [at EXCEPT ![p] = "ended"] /\ verdict' = [verdict EXCEPT ![p] = "refused"]
       ELSE at' = [at EXCEPT ![p] = "write"] /\ UNCHANGED verdict
  /\ UNCHANGED <<job, view, name, port, term, asked, reg, link, slave, moving, attached, seen, harmed>>

\* The child registers first, and its listening port is not known yet.
WriteUnbound(p) ==
  /\ at[p] = "write" /\ job[p].cmd = "start"
  /\ Write(p, Entry(p, FALSE))
  /\ at' = [at EXCEPT ![p] = "retain"]
  /\ UNCHANGED <<job, view, name, port, term, asked, verdict, link, slave, moving, attached, seen>>

CannotWrite(p) ==
  /\ at[p] = "write" /\ job[p].cmd = "start"
  /\ at' = [at EXCEPT ![p] = "ended"] /\ verdict' = [verdict EXCEPT ![p] = "failed"]
  /\ UNCHANGED <<job, view, name, port, term, asked, reg, link, slave, moving, attached, seen, harmed>>

\* Bug: the name asked for, whoever has it.
AsksForIt(base) == 1

\* unique_name(): the first that no live session uses.
Suffix(base) == Min({k \in 1..Cardinality(Procs) : <<base, k>> \notin DOMAIN Listed})

\* register_served() of a session in a terminal, in two steps.
TakeName(p) ==
  /\ at[p] = "name"
  /\ name' = [name EXCEPT ![p] = <<job[p].base, Suffix(job[p].base)>>]
  /\ seen' = [seen EXCEPT ![p] = PidsOf(Listed)]
  /\ at' = [at EXCEPT ![p] = "write"]
  /\ UNCHANGED <<job, view, port, term, asked, verdict, reg, link, slave, moving, attached, harmed>>

\* Where a session that is set up goes: a SIGTERM that came meanwhile ends it here.
SetUp(p) == IF asked[p] THEN "clean" ELSE "serve"

WriteServed(p) ==
  /\ at[p] = "write" /\ job[p].cmd = "serve"
  /\ Write(p, Entry(p, TRUE))
  /\ at' = [at EXCEPT ![p] = SetUp(p)]
  /\ UNCHANGED <<job, view, name, port, term, asked, verdict, link, slave, moving, attached, seen>>

\* A registry that cannot be written is a note, and the session goes on.
NotRegistered(p) ==
  /\ at[p] = "write" /\ job[p].cmd = "serve"
  /\ name' = [name EXCEPT ![p] = <<job[p].base, 0>>]
  /\ at' = [at EXCEPT ![p] = SetUp(p)]
  /\ UNCHANGED <<job, view, port, term, asked, verdict, reg, link, slave, moving, attached, seen, harmed>>

\* ready(): the port that was bound, and then the word to the parent.
Ready(p) ==
  /\ at[p] = "ready"
  /\ Write(p, Entry(p, TRUE))
  /\ Told(p, "up")
  /\ at' = [at EXCEPT ![p] = SetUp(p)]
  /\ UNCHANGED <<job, view, name, port, term, asked, link, slave, moving, attached, seen>>

\* An OSError is let pass: the parent is told all the same.
ReadyUnwritten(p) ==
  /\ at[p] = "ready"
  /\ harmed' = harmed \union {<<p, "unwritten">>}
  /\ Told(p, "up")
  /\ at' = [at EXCEPT ![p] = SetUp(p)]
  /\ UNCHANGED <<job, view, name, port, term, asked, reg, link, slave, moving, attached, seen>>

\* _run_session(): SIGTERM is recorded from here on, and the recorder opened.
Build(p) ==
  /\ at[p] = "build"
  /\ term' = [term EXCEPT ![p] = "recorded"]
  /\ at' = [at EXCEPT ![p] = "bind"]
  /\ UNCHANGED <<job, view, name, port, asked, verdict, reg, link, slave, moving, attached, seen, harmed>>

\* The proxy listens.
Bind(p) ==
  /\ at[p] = "bind"
  /\ at' = [at EXCEPT ![p] = "mirror"]
  /\ UNCHANGED <<job, view, name, port, term, asked, verdict, reg, link, slave, moving, attached, seen, harmed>>

\* What is raised while it is set up goes to the parent, but for a RuntimeError, which ends the
\* child without a word; either way what is there is cleaned up.
SetupFails(p) ==
  /\ at[p] \in {"bind", "mirror"}
  /\ at' = [at EXCEPT ![p] = "clean"]
  /\ UNCHANGED <<job, view, name, port, term, asked, verdict, reg, link, slave, moving, attached, seen, harmed>>

Closed == {"unlink", "unrecord", "remove", "ended", "killed"}   \* where its mirrors' files are
Free   == Min((1..Cardinality(Procs)) \ {slave[p] : p \in {q \in Procs : at[q] \notin Closed}})

Stem(p) == job[p].base

\* _symlink_force(), first half: a link that is there is taken for a stale one.
ClearLink(p) ==
  LET there == link[Stem(p)] IN
  /\ at[p] = "mirror"
  /\ slave' = [slave EXCEPT ![p] = Free]
  /\ link' = [link EXCEPT ![Stem(p)] = NoLink]
  /\ harmed' = harmed \union (IF Live(there.by) THEN {<<there.by, "link">>} ELSE {})
  /\ at' = [at EXCEPT ![p] = "link"]
  /\ UNCHANGED <<job, view, name, port, term, asked, verdict, reg, moving, attached, seen>>

\* And the second: it fails on one that another has made meanwhile, and start() closes again.
MakeLink(p) ==
  /\ at[p] = "link"
  /\ IF link[Stem(p)] = NoLink
       THEN /\ link' = [link EXCEPT ![Stem(p)] = [slave |-> slave[p], by |-> p]]
            /\ at' = [at EXCEPT ![p] = IF job[p].cmd = "start" THEN "ready" ELSE "look"]
            /\ UNCHANGED slave
       ELSE /\ at' = [at EXCEPT ![p] = "clean"] /\ slave' = [slave EXCEPT ![p] = 0]
            /\ UNCHANGED link
  /\ UNCHANGED <<job, view, name, port, term, asked, verdict, reg, moving, attached, seen, harmed>>

\* run_headless() returns: it was asked to, or the session has ended by itself.  session.stop()
\* waits three seconds for its thread.
ServeEnds(p) ==
  /\ at[p] = "serve"
  /\ at' = [at EXCEPT ![p] = "clean"]
  /\ UNCHANGED <<job, view, name, port, term, asked, verdict, reg, link, slave, moving, attached, seen, harmed>>

\* The finally of _run_session(): a session in a terminal takes its file out first.
Clean(p) ==
  LET mine == IF job[p].cmd = "serve" /\ Registered(p) THEN {name[p]} ELSE {} IN
  /\ at[p] = "clean"
  /\ reg' = Removed(mine) /\ harmed' = harmed \union Loses(p, mine)
  /\ at' = [at EXCEPT ![p] = "restore"]
  /\ UNCHANGED <<job, view, name, port, term, asked, verdict, link, slave, moving, attached, seen>>

\* restore_term(), before the rest.
RestoreTerm(p) ==
  /\ at[p] = "restore"
  /\ term' = [term EXCEPT ![p] = "default"]
  /\ at' = [at EXCEPT ![p] = "unmirror"]
  /\ UNCHANGED <<job, view, name, port, asked, verdict, reg, link, slave, moving, attached, seen, harmed>>

\* PtyMirror.close(): the slave is closed, and its number may be used again;
Unmirror(p) ==
  /\ at[p] = "unmirror"
  /\ at' = [at EXCEPT ![p] = "unlink"]
  /\ UNCHANGED <<job, view, name, port, term, asked, verdict, reg, link, slave, moving, attached, seen, harmed>>

\* then a link that points at that number is removed.
Unlink(p) ==
  LET there == link[Stem(p)]
      ours  == slave[p] # 0 /\ there.slave = slave[p]
  IN /\ at[p] = "unlink"
     /\ link' = [link EXCEPT ![Stem(p)] = IF ours THEN NoLink ELSE @]
     /\ harmed' = harmed \union (IF ours /\ there.by # p /\ Live(there.by) THEN {<<there.by, "link">>} ELSE {})
     /\ slave' = [slave EXCEPT ![p] = 0]
     /\ at' = [at EXCEPT ![p] = "unrecord"]
     /\ UNCHANGED <<job, view, name, port, term, asked, verdict, reg, moving, attached, seen>>

\* The recorder is closed last.
Unrecord(p) ==
  /\ at[p] = "unrecord"
  /\ at' = [at EXCEPT ![p] = IF job[p].cmd = "start" THEN "remove" ELSE "ended"]
  /\ UNCHANGED <<job, view, name, port, term, asked, verdict, reg, link, slave, moving, attached, seen, harmed>>

\* The finally of cmd_start(), and the process exits: a parent that still waits learns of it.
Unregister(p) ==
  /\ at[p] = "remove"
  /\ reg' = Removed({name[p]}) /\ harmed' = harmed \union Loses(p, {name[p]})
  /\ Told(p, "failed")
  /\ at' = [at EXCEPT ![p] = "ended"]
  /\ UNCHANGED <<job, view, name, port, term, asked, link, slave, moving, attached, seen>>

\* _await_ready(): the parent gives up, and the child goes on.
StartTimesOut(p) ==
  /\ verdict[p] = "waiting" /\ at[p] \in SessionStages
  /\ Told(p, "timedout")
  /\ UNCHANGED <<job, at, view, name, port, term, asked, reg, link, slave, moving, attached, seen, harmed>>

\* on_moved(), on the session's thread: its own entries,
MoveBegins(p, new) ==
  /\ at[p] = "serve" /\ ~moving[p] /\ new # port[p]
  /\ port' = [port EXCEPT ![p] = new] /\ moving' = [moving EXCEPT ![p] = TRUE]
  /\ view' = [view EXCEPT ![p] = Files({p})]
  /\ UNCHANGED <<job, at, name, term, asked, verdict, reg, link, slave, attached, seen, harmed>>

\* written again with the port it is at now.
MoveWrites(p) ==
  LET names == DOMAIN view[p]
      late  == job[p].cmd = "serve" /\ at[p] \notin {"serve", "clean"} /\ names # {}
  IN /\ moving[p] /\ Alive(p)
     /\ reg' = [n \in Names |-> IF n \in names THEN [view[p][n] EXCEPT !.port = port[p]] ELSE reg[n]]
     /\ harmed' = harmed \union Loses(p, names) \union (IF late THEN {<<p, "late">>} ELSE {})
     /\ moving' = [moving EXCEPT ![p] = FALSE]
     /\ UNCHANGED <<job, at, view, name, port, term, asked, verdict, link, slave, attached, seen>>

\* or not, which is a notice.
MoveUnwritten(p) ==
  /\ moving[p] /\ Alive(p)
  /\ harmed' = harmed \union {<<p, "unwritten">>}
  /\ moving' = [moving EXCEPT ![p] = FALSE]
  /\ UNCHANGED <<job, at, view, name, port, term, asked, verdict, reg, link, slave, attached, seen>>

\* kill -9, or a crash: the file and the link stay.
Crash(p) ==
  /\ IsSession(p) /\ at[p] \in SessionStages
  /\ at' = [at EXCEPT ![p] = "killed"]
  /\ Told(p, "failed")
  /\ UNCHANGED <<job, view, name, port, term, asked, reg, link, slave, moving, attached, seen, harmed>>

-----------------------------------------------------------------------------
(* stop, status, attach *)

\* find_daemon() by name.
Find(p) ==
  LET found == {Base(p)} \intersect DOMAIN Listed
      told  == \E n \in found : LET q == reg[n].pid IN job[q].cmd = "serve" \/ verdict[q] = "up"
  IN /\ at[p] = "find" /\ job[p].cmd # "status"
     /\ view' = [view EXCEPT ![p] = [n \in found |-> reg[n]]]
     /\ seen' = [seen EXCEPT ![p] = PidsOf(Listed)]
     /\ attached' = [attached EXCEPT ![p] = IF told THEN "told" ELSE "no"]
     /\ at' = [at EXCEPT ![p] = IF found = {} THEN "ended"
                                ELSE IF job[p].cmd = "attach" THEN "connect" ELSE "signal"]
     /\ UNCHANGED <<job, name, port, term, asked, verdict, reg, link, slave, moving, harmed>>

\* cmd_status(), after its prune: all that is listed, or the one that is named.
Shows(p) ==
  /\ at[p] = "find" /\ job[p].cmd = "status"
  /\ view' = [view EXCEPT ![p] = Listed] /\ seen' = [seen EXCEPT ![p] = PidsOf(Listed)]
  /\ at' = [at EXCEPT ![p] = "ended"]
  /\ UNCHANGED <<job, name, port, term, asked, verdict, reg, link, slave, moving, attached, harmed>>

Found(p) == CHOOSE n \in DOMAIN view[p] : TRUE
Target(p) == view[p][Found(p)].pid

\* stop_daemon(): the process is gone already,
GoneAlready(p) ==
  /\ at[p] = "signal" /\ ~Live(Target(p))
  /\ reg' = Removed({Found(p)}) /\ harmed' = harmed \union Loses(p, {Found(p)})
  /\ at' = [at EXCEPT ![p] = "ended"]
  /\ UNCHANGED <<job, view, name, port, term, asked, verdict, link, slave, moving, attached, seen>>

\* or it is sent the signal: recorded, or the end of it at once.
Signal(p) ==
  LET q      == Target(p)
      deadly == job[p].cmd = "kill" \/ term[q] = "default"
  IN /\ at[p] = "signal" /\ Live(q)
     /\ at' = [at EXCEPT ![q] = IF deadly THEN "killed" ELSE @, ![p] = "wait"]
     /\ asked' = [asked EXCEPT ![q] = @ \/ ~deadly]
     /\ IF deadly THEN Told(q, "failed") ELSE UNCHANGED verdict
     /\ UNCHANGED <<job, view, name, port, term, reg, link, slave, moving, attached, seen, harmed>>

\* It has ended, and its file is removed to be sure;
Stopped(p) ==
  /\ at[p] = "wait" /\ ~Live(Target(p))
  /\ reg' = Removed({Found(p)}) /\ harmed' = harmed \union Loses(p, {Found(p)})
  /\ at' = [at EXCEPT ![p] = "ended"]
  /\ UNCHANGED <<job, view, name, port, term, asked, verdict, link, slave, moving, attached, seen>>

\* or it is still running after a while.
StillRunning(p) ==
  /\ at[p] = "wait" /\ Live(Target(p))
  /\ at' = [at EXCEPT ![p] = "ended"]
  /\ UNCHANGED <<job, view, name, port, term, asked, verdict, reg, link, slave, moving, attached, seen, harmed>>

Listening == {"mirror", "link", "ready", "look", "prune", "name", "write", "serve", "clean",
              "restore", "unmirror", "unlink"}

\* cmd_attach(): a client of the port in the file.
Connect(p) ==
  LET entry == view[p][Found(p)] IN
  /\ at[p] = "connect"
  /\ attached' = [attached EXCEPT ![p] =
       IF entry.bound THEN IF at[entry.pid] \in Listening THEN "reached" ELSE "gone"
                      ELSE IF @ = "told" THEN "misled" ELSE "early"]
  /\ at' = [at EXCEPT ![p] = "ended"]
  /\ UNCHANGED <<job, view, name, port, term, asked, verdict, reg, link, slave, moving, seen, harmed>>

\* Every step but the ones that open, close and prune a recording.
RegistryStep(p) ==
  \/ Look(p) \/ Prune(p) \/ Check(p) \/ CheckHolder(p) \/ WriteUnbound(p) \/ TakeName(p) \/ WriteServed(p)
  \/ Ready(p) \/ Bind(p) \/ ClearLink(p) \/ MakeLink(p) \/ ServeEnds(p) \/ Clean(p) \/ RestoreTerm(p)
  \/ Unmirror(p) \/ Unlink(p) \/ Unregister(p)
  \/ Find(p) \/ Shows(p) \/ GoneAlready(p) \/ Signal(p) \/ Stopped(p) \/ StillRunning(p) \/ Connect(p)
  \/ MoveWrites(p)

RegistryFails(p) ==
  \/ CannotWrite(p) \/ NotRegistered(p) \/ ReadyUnwritten(p) \/ MoveUnwritten(p)
  \/ SetupFails(p) \/ StartTimesOut(p)

-----------------------------------------------------------------------------
RegistryTypeOK ==
  /\ at \in [Procs -> Stages] /\ port \in [Procs -> Ports \union {"none"}]
  /\ \A p \in Procs : DOMAIN view[p] \subseteq Names /\ seen[p] \subseteq Procs
  /\ term \in [Procs -> {"default", "recorded"}] /\ asked \in [Procs -> BOOLEAN]
  /\ verdict \in [Procs -> {"none", "waiting", "up", "failed", "timedout", "refused"}]
  /\ \A n \in Names : reg[n] = NoEntry \/ (reg[n].pid \in Procs /\ reg[n].port \in Ports)
  /\ \A b \in Bases : link[b] = NoLink \/ link[b].by \in Procs
  /\ slave \in [Procs -> 0..Cardinality(Procs)] /\ moving \in [Procs -> BOOLEAN]
  /\ attached \in [Procs -> {"no", "told", "reached", "misled", "early", "gone"}]
  /\ harmed \subseteq Procs \X {"name", "link", "unwritten", "late"}

\* A listing shows p, where it listens, at the port it follows.
IsListed(p) == \E n \in Names : /\ reg[n].pid = p /\ reg[n].bound
                                /\ ~moving[p] => reg[n].port = port[p]

IsLinked(p) == link[Stem(p)].by = p

LeavesNothing(p) ==
  /\ <<p, "late">> \in harmed \/ \A n \in Names : reg[n].pid # p
  /\ \A b \in Bases : link[b].by # p
=============================================================================
