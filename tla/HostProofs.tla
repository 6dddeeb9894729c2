------------------------------ MODULE HostProofs -------------------------------
(***************************************************************************)
(* What holds of the registry and of a recording for any processes, names  *)
(* and devices, and any limits of the recorder and of the store.           *)
(*                                                                         *)
(* RegistryInv says of each process where it can be, what it has seen, the *)
(* file and the link that are its own and until when, and who is to blame  *)
(* when they are not.  A step is one of a few kinds: it goes on, looks,    *)
(* removes files, writes one, or touches the link; a lemma for each kind   *)
(* says first what it changes.  HostInv adds what the recorder holds, and  *)
(* that it is untouched before its session opens it and quiet after.       *)
(*                                                                         *)
(* EarlierKept and WholeInv are of what is written: that the numbers of a  *)
(* run are past those of earlier ones, and that the threads take turns.    *)
(* Complete says what a list of parts and a last one hold, and each write  *)
(* and each step of a rotation is a lemma about it.                        *)
(***************************************************************************)
EXTENDS Host, FiniteSetTheorems, WellFoundedInduction, TLAPS

N == Cardinality(Procs)

LEMMA Least ==
  \A S \in SUBSET Nat : S # {} => Min(S) \in S /\ \A k \in S : Min(S) <= k
<1> TAKE S \in SUBSET Nat
<1> HAVE S # {}
<1>1. PICK x \in S : \A y \in S : ~(<<y, x>> \in OpToRel(<, Nat))
  <2>1. IsWellFoundedOn(OpToRel(<, Nat), Nat)
    BY NatLessThanWellFounded
  <2> HIDE DEF IsWellFoundedOn
  <2> QED BY <2>1, WFMin
<1>2. \A y \in S : ~(y < x)
  BY <1>1 DEF OpToRel
<1>3. \A y \in S : x <= y
  BY <1>2
<1> QED BY <1>3 DEF Min

\* There are as many numbers as processes: of those but p none has at least one of them.
LEMMA RoomForOne ==
  ASSUME NEW p \in Procs, NEW f
  PROVE  \E k \in 1..N : \A q \in Procs \ {p} : f[q] # k
<1> DEFINE T == {f[q] : q \in Procs \ {p}}
           g == [q \in Procs \ {p} |-> f[q]]
<1>1. IsFiniteSet(Procs) /\ N \in Nat
  BY RegistryAssumption, FS_CardinalityType DEF N
<1>2. IsFiniteSet(Procs \ {p}) /\ Cardinality(Procs \ {p}) = N - 1
  BY <1>1, FS_RemoveElement DEF N
<1>3. IsFiniteSet(T) /\ Cardinality(T) <= N - 1
  <2>1. g \in Surjection(Procs \ {p}, T)
    BY DEF Surjection
  <2> HIDE DEF g, T
  <2> QED BY <1>2, <2>1, FS_Surjection
<1>4. Cardinality(1..N) = N
  BY <1>1, FS_Interval
<1>5. Cardinality(T) \in Nat
  BY <1>3, FS_CardinalityType
<1>6. ~(1..N \subseteq T)
  <2> HIDE DEF T
  <2> SUFFICES ASSUME 1..N \subseteq T PROVE FALSE
    OBVIOUS
  <2>1. Cardinality(1..N) <= Cardinality(T)
    BY <1>3, FS_Subset
  <2> QED BY <2>1, <1>1, <1>3, <1>4, <1>5
<1> QED BY <1>6

LEMMA SomeProcs ==
  ASSUME NEW p \in Procs
  PROVE  N \in Nat /\ 1 <= N
<1>1. \E k \in 1..N : TRUE
  BY RoomForOne
<1>2. N \in Nat
  BY RegistryAssumption, FS_CardinalityType DEF N
<1> QED BY <1>1, <1>2

\* What a process of the machine does to the registry, whatever is recorded meanwhile.
Retained(p) ==
  /\ at[p] = "retain"
  /\ at' = [at EXCEPT ![p] = "build"]
  /\ UNCHANGED <<job, view, name, port, term, asked, verdict, reg, link, slave, moving, attached, seen, harmed>>

Acts(p) ==
  \/ Retained(p) \/ Build(p) \/ Unrecord(p) \/ Crash(p) \/ RegistryStep(p) \/ RegistryFails(p)
  \/ \E new \in Ports : MoveBegins(p, new)

LEMMA Acting ==
  ASSUME Next
  PROVE  /\ UNCHANGED use
         /\ UNCHANGED registryVars \/ \E p \in Procs : Acts(p)
<1>1. ASSUME NEW p \in Procs, Retains(p) PROVE Retained(p)
  BY <1>1 DEF Retains, Retained
<1>2. ASSUME NEW p \in Procs, Builds(p) PROVE Build(p)
  BY <1>2 DEF Builds
<1>3. ASSUME NEW p \in Procs, Unrecords(p) PROVE Unrecord(p)
  BY <1>3 DEF Unrecords
<1>4. Speaks \/ Passes => UNCHANGED registryVars
  BY DEF Speaks, Passes
<1> QED BY <1>1, <1>2, <1>3, <1>4 DEF Next, Acts

-----------------------------------------------------------------------------
(* Types *)

Commands == {"none", "start", "serve", "stop", "kill", "status", "attach"}
Jobs     == [cmd : Commands, base : Bases, port : Ports]
Entries  == {NoEntry} \union [pid : Procs, port : Ports, bound : BOOLEAN]
Links    == {NoLink} \union [slave : 0..N, by : Procs]
Harms    == Procs \X {"name", "link", "unwritten", "late"}
Words    == {"none", "waiting", "up", "failed", "timedout", "refused"}
Fates    == {"no", "told", "reached", "misled", "early", "gone"}

Types ==
  /\ use \in Uses /\ job = use.jobs
  /\ job \in [Procs -> Jobs] /\ at \in [Procs -> Stages]
  /\ name \in [Procs -> Bases \X (0..N)] /\ port \in [Procs -> Ports]
  /\ term \in [Procs -> {"default", "recorded"}] /\ asked \in [Procs -> BOOLEAN]
  /\ verdict \in [Procs -> Words] /\ attached \in [Procs -> Fates]
  /\ reg \in [Names -> Entries] /\ link \in [Bases -> Links]
  /\ slave \in [Procs -> 0..N] /\ moving \in [Procs -> BOOLEAN]
  /\ seen \in [Procs -> SUBSET Procs] /\ harmed \subseteq Harms
  /\ DOMAIN view = Procs
  /\ \A p \in Procs : /\ DOMAIN view[p] \subseteq Names
                      /\ \A n \in DOMAIN view[p] : view[p][n] \in [pid : Procs, port : Ports, bound : BOOLEAN]

LEMMA TypesInit == Init => Types
<1> SUFFICES ASSUME Init PROVE Types
  OBVIOUS
<1>1. use \in Uses /\ RegistryInit(use.jobs)
  BY DEF Init
<1>2. use.jobs \in [Procs -> Jobs]
  BY <1>1, UsesAssumption DEF Jobs, Commands
<1>3. \A p \in Procs : 1 \in 0..N /\ 0 \in 0..N
  BY SomeProcs
<1>4. at \in [Procs -> Stages]
  BY <1>1 DEF RegistryInit, Stages, SessionStages
<1>5. name \in [Procs -> Bases \X (0..N)]
  BY <1>1, <1>2, <1>3 DEF RegistryInit, Jobs
<1>6. port \in [Procs -> Ports]
  BY <1>1, <1>2 DEF RegistryInit, Jobs
<1>7. reg \in [Names -> Entries] /\ link \in [Bases -> Links]
  BY <1>1 DEF RegistryInit, Entries, Links
<1>8. DOMAIN view = Procs /\ \A p \in Procs : DOMAIN view[p] = {}
  BY <1>1 DEF RegistryInit
<1>9. slave \in [Procs -> 0..N]
  BY <1>1, <1>3 DEF RegistryInit
<1> QED BY <1>1, <1>2, <1>4, <1>5, <1>6, <1>7, <1>8, <1>9 DEF RegistryInit, Types, Words, Fates, Harms

\* A name is the base a command asks for, and what number it has; every base has a first.
LEMMA NamesAre ==
  ASSUME Types, NEW p \in Procs
  PROVE  Base(p) \in Names /\ job[p].base \in Bases /\ job[p].port \in Ports
<1>1. 1 \in 1..N
  BY SomeProcs
<1> QED BY <1>1 DEF Types, Jobs, Base, Names, N

LEMMA FilesAre ==
  ASSUME Types
  PROVE  \A q \in SUBSET Procs :
           /\ DOMAIN Files(q) \subseteq Names
           /\ \A n \in DOMAIN Files(q) : /\ Files(q)[n] = reg[n] /\ reg[n].pid \in q
                                         /\ reg[n] \in [pid : Procs, port : Ports, bound : BOOLEAN]
           /\ \A n \in Names : reg[n].pid \in q => n \in DOMAIN Files(q)
           /\ PidsOf(Files(q)) = {reg[n].pid : n \in DOMAIN Files(q)}
           /\ PidsOf(Files(q)) \subseteq q
<1> TAKE q \in SUBSET Procs
<1>1. DOMAIN Files(q) = {n \in Names : reg[n].pid \in q}
  BY DEF Files
<1>2. \A n \in DOMAIN Files(q) : Files(q)[n] = reg[n]
  BY <1>1 DEF Files
<1>3. \A n \in Names : reg[n].pid \in q => reg[n] \in [pid : Procs, port : Ports, bound : BOOLEAN]
  BY RegistryAssumption DEF Types, Entries, NoEntry
<1> QED BY <1>1, <1>2, <1>3 DEF PidsOf

LEMMA Listings ==
  ASSUME Types
  PROVE  \A f \in {Listed, Everything} :
           /\ DOMAIN f \subseteq Names
           /\ \A n \in DOMAIN f : f[n] = reg[n] /\ reg[n] \in [pid : Procs, port : Ports, bound : BOOLEAN]
           /\ PidsOf(f) = {reg[n].pid : n \in DOMAIN f} /\ PidsOf(f) \subseteq Procs
           /\ \A n \in Names : Live(reg[n].pid) => n \in DOMAIN f
<1>1. {p \in Procs : Alive(p)} \in SUBSET Procs /\ Procs \in SUBSET Procs
  OBVIOUS
<1>2. \A n \in Names : Live(reg[n].pid) => reg[n].pid \in {p \in Procs : Alive(p)}
  BY DEF Live
<1> QED BY <1>1, <1>2, FilesAre DEF Listed, Everything

LEMMA RemovedAre ==
  ASSUME Types, NEW M
  PROVE  Removed(M) \in [Names -> Entries]
BY DEF Removed, Types, Entries

\* Where only at, the word of a start, or what a signal is taken for changes.
LEMMA TypesMove ==
  ASSUME Types, NEW p \in Procs, UNCHANGED use,
         \/ Retained(p) \/ Build(p) \/ Unrecord(p) \/ Crash(p) \/ Bind(p) \/ ServeEnds(p) \/ RestoreTerm(p)
         \/ Unmirror(p) \/ StillRunning(p) \/ Connect(p) \/ CheckHolder(p) \/ CannotWrite(p)
         \/ SetupFails(p) \/ StartTimesOut(p)
  PROVE  Types'
<1>1. CASE Retained(p) \/ Build(p) \/ Unrecord(p) \/ Bind(p) \/ ServeEnds(p) \/ RestoreTerm(p)
  BY <1>1, ZenonT(60) DEF Types, Retained, Build, Unrecord, Bind, ServeEnds, RestoreTerm, Stages, SessionStages
<1>2. CASE Unmirror(p) \/ StillRunning(p) \/ SetupFails(p)
  BY <1>2 DEF Types, Unmirror, StillRunning, SetupFails, Stages, SessionStages
<1>5. CASE CannotWrite(p)
  BY <1>5 DEF Types, CannotWrite, Stages, Words
<1>6. CASE CheckHolder(p)
  <2>1. \E e \in Stages : at' = [at EXCEPT ![p] = e]
    BY <1>6 DEF CheckHolder, Stages
  <2>2. verdict' \in [Procs -> Words]
    BY <1>6 DEF CheckHolder, Types, Words
  <2>3. /\ at' \in [Procs -> Stages]
        /\ UNCHANGED <<use, job, view, name, port, term, asked, reg, link, slave, moving, attached>>
        /\ UNCHANGED <<seen, harmed>>
    BY <1>6, <2>1 DEF CheckHolder, Types
  <2> QED BY <2>2, <2>3, ZenonT(60) DEF Types
<1>4. CASE Connect(p)
  <2>1. attached' \in [Procs -> Fates]
    BY <1>4 DEF Connect, Fates, Types
  <2> QED BY <1>4, <2>1 DEF Types, Connect, Stages
<1>3. CASE Crash(p) \/ StartTimesOut(p)
  BY <1>3, ZenonT(60) DEF Types, Crash, StartTimesOut, Told, Stages, SessionStages, Words
<1> QED BY <1>1, <1>2, <1>3, <1>4, <1>5, <1>6

\* Where p looks at the registry.
LEMMA TypesLook ==
  ASSUME Types, NEW p \in Procs, UNCHANGED use, Look(p) \/ Check(p) \/ Find(p) \/ Shows(p)
  PROVE  Types'
<1>1. CASE Look(p) \/ Shows(p)
  <2>1. PICK f \in {Listed, Everything} :
          view' = [view EXCEPT ![p] = f] /\ seen' = [seen EXCEPT ![p] = PidsOf(f)]
    BY <1>1 DEF Look, Shows
  <2>2. /\ DOMAIN f \subseteq Names /\ PidsOf(f) \subseteq Procs
        /\ \A n \in DOMAIN f : f[n] \in [pid : Procs, port : Ports, bound : BOOLEAN]
    BY Listings
  <2>3. \E e \in Stages : at' = [at EXCEPT ![p] = e]
    BY <1>1 DEF Look, Shows, Stages
  <2>4. UNCHANGED <<job, name, port, term, asked, verdict, reg, link, slave, moving, attached, harmed, use>>
    BY <1>1 DEF Look, Shows
  <2> QED BY <2>1, <2>2, <2>3, <2>4 DEF Types
<1>2. CASE Check(p)
  <2>1. PidsOf(Listed) \subseteq Procs
    BY Listings
  <2>2. /\ \E e \in Stages : at' = [at EXCEPT ![p] = e]
        /\ verdict' \in [Procs -> Words]
    BY <1>2 DEF Check, Stages, Types, Words
  <2>3. /\ seen' = [seen EXCEPT ![p] = PidsOf(Listed)]
        /\ UNCHANGED <<job, view, name, port, term, asked, reg, link, slave, moving, attached, harmed, use>>
    BY <1>2 DEF Check
  <2> QED BY <2>1, <2>2, <2>3 DEF Types
<1>3. CASE Find(p)
  <2>1. PICK found : found = {Base(p)} \intersect DOMAIN Listed
    OBVIOUS
  <2>2. /\ view' = [view EXCEPT ![p] = [n \in found |-> reg[n]]]
        /\ \E e \in Fates : attached' = [attached EXCEPT ![p] = e]
        /\ \E e \in Stages : at' = [at EXCEPT ![p] = e]
        /\ \E e \in SUBSET Procs : seen' = [seen EXCEPT ![p] = e]
    BY <1>3, <2>1, Listings DEF Find, Fates, Stages
  <2>3. found \subseteq Names /\ \A n \in found : reg[n] \in [pid : Procs, port : Ports, bound : BOOLEAN]
    BY <2>1, Listings
  <2>4. UNCHANGED <<job, name, port, term, asked, verdict, reg, link, slave, moving, harmed, use>>
    BY <1>3 DEF Find
  <2> QED BY <2>2, <2>3, <2>4 DEF Types
<1> QED BY <1>1, <1>2, <1>3

\* The first name of a base that no live session has is one: p, about to take it, has none itself.
LEMMA SuffixIs ==
  ASSUME Types, NEW p \in Procs, \A n \in Names : reg[n].pid # p,
         \A n, m \in Names : reg[n].pid = reg[m].pid /\ reg[n].pid \in Procs => n = m
  PROVE  /\ Suffix(job[p].base) \in 1..N
         /\ <<job[p].base, Suffix(job[p].base)>> \in Names
         /\ <<job[p].base, Suffix(job[p].base)>> \notin DOMAIN Listed
<1> DEFINE b == job[p].base
           f == [q \in Procs |-> IF \E n \in Names : reg[n].pid = q
                                   THEN (CHOOSE n \in Names : reg[n].pid = q)[2] ELSE 0]
           S == {k \in 1..N : <<b, k>> \notin DOMAIN Listed}
<1>1. PICK k \in 1..N : \A q \in Procs \ {p} : f[q] # k
  <2> HIDE DEF f
  <2> QED BY RoomForOne
<1>2. b \in Bases /\ \A i \in 1..N : <<b, i>> \in Names
  BY NamesAre DEF Names, N
<1>3. <<b, k>> \notin DOMAIN Listed
  <2> SUFFICES ASSUME <<b, k>> \in DOMAIN Listed PROVE FALSE
    OBVIOUS
  <2>1. PICK n \in Names : n = <<b, k>>
    BY <1>2
  <2>2. PICK q \in Procs : reg[n].pid = q
    BY <2>1, Listings
  <2>3. q # p
    BY <2>2
  <2>4. PICK m \in Names : m = (CHOOSE x \in Names : reg[x].pid = q) /\ reg[m].pid = q
    BY <2>2
  <2>5. m = n
    BY <2>2, <2>4
  <2>6. f[q] = m[2]
    BY <2>2, <2>4
  <2>7. f[q] = k
    BY <2>1, <2>5, <2>6
  <2> HIDE DEF f
  <2> QED BY <1>1, <2>3, <2>7
<1>4. S \in SUBSET Nat /\ k \in S /\ S # {}
  BY <1>1, <1>3
<1>5. Suffix(b) = Min(S)
  BY DEF Suffix, N
<1>6. Suffix(b) \in S
  <2> HIDE DEF S
  <2> QED BY <1>4, <1>5, Least
<1> QED BY <1>2, <1>6

\* And there is a slave for a process that has none.
LEMMA FreeIs ==
  ASSUME Types, NEW p \in Procs, slave[p] = 0
  PROVE  Free \in 1..N
<1> DEFINE T == {slave[q] : q \in {x \in Procs : at[x] \notin Closed}}
           S == (1..N) \ T
<1>1. PICK k \in 1..N : \A q \in Procs \ {p} : slave[q] # k
  BY RoomForOne
<1>2. k \in S
  BY <1>1
<1>3. S \in SUBSET Nat /\ S # {}
  BY <1>2
<1>4. Free = Min(S)
  BY DEF Free, N
<1>5. Free \in S
  <2> HIDE DEF S
  <2> QED BY <1>3, <1>4, Least
<1> QED BY <1>5

-----------------------------------------------------------------------------
(* What the registry says of whom *)

Starts(p) == job[p].cmd = "start"
Serves(p) == job[p].cmd = "serve"

Cleaning == {"clean", "restore", "unmirror", "unlink", "unrecord"}

\* Where each command can be.
PlaceOf(p) ==
  /\ job[p].cmd = "none" => at[p] = "ended"
  /\ Starts(p) => at[p] \notin {"find", "name", "signal", "wait", "connect"}
  /\ Serves(p) => at[p] \notin {"check", "holder", "find", "ready", "remove", "signal", "wait", "connect"}
  /\ ~IsSession(p) => at[p] \in {"look", "prune", "find", "signal", "wait", "connect", "ended"}
  /\ at[p] = "connect" => job[p].cmd = "attach"
  /\ moving[p] => IsSession(p) /\ at[p] \in {"serve", "remove", "ended", "killed"} \union Cleaning
PlaceInv == \A p \in Procs : PlaceOf(p)

\* A session that serves keeps its name from here on.
Named(p) ==
  /\ IsSession(p)
  /\ Serves(p) => at[p] \in {"serve", "ended", "killed"} \union Cleaning

\* Only a start is known by its first name from the beginning.
NameOf(p) ==
  /\ name[p][1] = job[p].base
  /\ ~Serves(p) => name[p] = Base(p)
  /\ Serves(p) /\ at[p] \in {"retain", "build", "bind", "mirror", "link", "look", "prune", "name"}
     => ~Registered(p)
  /\ Serves(p) /\ at[p] = "write" => Registered(p)
  /\ Starts(p) \/ (Serves(p) /\ Registered(p)) => name[p] \in Names
NameInv == \A p \in Procs : NameOf(p)

\* An entry is its process's, by its own name.
Truly(n, e) == Named(e.pid) /\ name[e.pid] = n

\* Where a process has an entry, unless it came late.
Entered(p) ==
  \/ Starts(p) /\ at[p] \in SessionStages \union {"killed"}
  \/ Serves(p) /\ (at[p] \in {"serve", "clean", "killed"} \/ <<p, "late">> \in harmed)

\* What is registered of a session that has said it is up is where it listens.
Tells(e) ==
  e.bound \/ <<e.pid, "unwritten">> \in harmed
          \/ (Starts(e.pid) /\ verdict[e.pid] # "up" /\ at[e.pid] # "serve")

EntryOf(n) == reg[n].pid \in Procs => Truly(n, reg[n]) /\ Entered(reg[n].pid) /\ Tells(reg[n])
ViewOf(p)  == \A n \in DOMAIN view[p] : Truly(n, view[p][n])
EntryInv   == (\A n \in Names : EntryOf(n)) /\ (\A p \in Procs : ViewOf(p))

UpOf(p) == verdict[p] = "up" =>
  IsSession(p) /\ at[p] \in {"serve", "remove", "ended", "killed"} \union Cleaning
UpInv == \A p \in Procs : UpOf(p)

\* A process has seen whoever has the name it does not take, and whose file it does not remove.
Chosen(p) ==
  \/ Starts(p) /\ at[p] \in {"holder", "write"} \union SessionStages
  \/ Serves(p) /\ Registered(p) /\ at[p] \in {"write", "serve"} \union Cleaning

SeenOf(p) ==
  /\ Serves(p) /\ at[p] \in {"retain", "build", "bind", "mirror", "link"} => seen[p] = {}
  /\ at[p] = "prune" => \A q \in seen[p] : \E n \in DOMAIN view[p] : view[p][n].pid = q
  /\ Chosen(p) => \A q \in seen[p] \ {p} : Named(q) /\ name[q] # name[p]
  /\ at[p] \in {"signal", "wait", "connect"} =>
       /\ DOMAIN view[p] = {Base(p)}
       /\ \A q \in seen[p] : Named(q) /\ (name[q] = Base(p) => q = view[p][Base(p)].pid)
SeenInv == \A p \in Procs : SeenOf(p)

\* Who holds its name, unless it lost it.
Holds(p) ==
  \/ Starts(p) /\ at[p] \in SessionStages
  \/ Serves(p) /\ Registered(p) /\ at[p] \in {"serve", "clean"}

Kept(p)  == <<p, "name">> \notin harmed
Filed(p) == <<p, "unwritten">> \notin harmed

KeptOf(p) == Holds(p) /\ Kept(p) => reg[name[p]].pid = p
KeptInv == \A p \in Procs : KeptOf(p)

MoveOf(p) ==
  /\ moving[p] =>
       \A n \in DOMAIN view[p] : view[p][n].pid = p /\ (view[p][n].bound \/ ~Filed(p))
  /\ moving[p] /\ Holds(p) /\ Kept(p) => name[p] \in DOMAIN view[p]
  /\ ~moving[p] /\ Holds(p) /\ Kept(p) /\ Filed(p) => reg[name[p]].port = port[p]
MoveInv == \A p \in Procs : MoveOf(p)

AttachOf(p) ==
  /\ at[p] = "connect" /\ attached[p] = "told" =>
       \A n \in DOMAIN view[p] : view[p][n].bound \/ <<view[p][n].pid, "unwritten">> \in harmed
  /\ attached[p] = "misled" =>
       /\ at[p] = "ended" /\ job[p].cmd = "attach" /\ DOMAIN view[p] # {}
       /\ \A n \in DOMAIN view[p] : <<view[p][n].pid, "unwritten">> \in harmed
AttachInv == \A p \in Procs : AttachOf(p)

\* Where a session's link is its own, and where it may be.
Linking(p) ==
  \/ Starts(p) /\ at[p] \in {"ready", "serve"}
  \/ Serves(p) /\ at[p] \in {"look", "prune", "name", "write", "serve"}
MayLink(p) == Linking(p) \/ at[p] \in {"clean", "restore", "unmirror", "unlink", "killed"}

LinkTo(b) == link[b].by \in Procs =>
  LET p == link[b].by IN
    /\ IsSession(p) /\ Stem(p) = b /\ MayLink(p)
    /\ link[b].slave = slave[p] /\ slave[p] # 0
LinkOf(p) ==
  /\ IsSession(p) /\ Linking(p) => link[Stem(p)].by = p \/ <<p, "link">> \in harmed
  /\ IsSession(p) /\ at[p] \in {"retain", "build", "bind", "mirror"} => slave[p] = 0
  /\ Starts(p) /\ at[p] \in {"look", "prune", "check", "holder", "write"} => slave[p] = 0
  /\ IsSession(p) /\ at[p] = "link" => slave[p] # 0
LinkInv == (\A b \in Bases : LinkTo(b)) /\ (\A p \in Procs : LinkOf(p))

RegistryInv ==
  /\ Types /\ PlaceInv /\ NameInv /\ EntryInv /\ UpInv /\ SeenInv /\ KeptInv /\ MoveInv /\ AttachInv /\ LinkInv

-----------------------------------------------------------------------------
(* The steps *)

Registers == <<use, job, view, name, port, reg, link, slave, moving, attached, seen, harmed>>

\* Where p goes by itself with nothing else changed, and what a parent is told is not that it is up.
GoesOn(p, to) ==
  \/ at[p] = "retain" /\ to = "build"
  \/ at[p] = "build" /\ to = "bind"
  \/ at[p] = "bind" /\ to = "mirror"
  \/ at[p] \in {"bind", "mirror", "serve"} /\ to = "clean"
  \/ at[p] = "restore" /\ to = "unmirror"
  \/ at[p] = "unmirror" /\ to = "unlink"
  \/ at[p] = "unrecord" /\ Starts(p) /\ to = "remove"
  \/ at[p] = "unrecord" /\ ~Starts(p) /\ to = "ended"
  \/ at[p] = "wait" /\ to = "ended"
  \/ at[p] = "holder" /\ Starts(p) /\ to = "write"
  \/ at[p] \in {"holder", "write"} /\ Starts(p) /\ to = "ended"
  \/ at[p] \in SessionStages /\ IsSession(p) /\ to = "killed"

NothingSaid == \A q \in Procs : verdict'[q] = "up" => verdict[q] = "up"

Going(p) == UNCHANGED Registers /\ NothingSaid /\ \E to : GoesOn(p, to) /\ at' = [at EXCEPT ![p] = to]

\* A signal that is not recorded kills whoever it finds.
Killing(p) ==
  /\ UNCHANGED Registers /\ NothingSaid /\ at[p] = "signal"
  /\ \E q \in Procs : /\ q # p /\ IsSession(q) /\ Named(q) /\ Alive(q)
                       /\ at' = [at EXCEPT ![q] = "killed", ![p] = "wait"]

Staying(p) ==
  /\ UNCHANGED Registers /\ NothingSaid
  /\ UNCHANGED at \/ (at[p] = "signal" /\ at' = [at EXCEPT ![p] = "wait"])

LEMMA Goings ==
  ASSUME RegistryInv, NEW p \in Procs, UNCHANGED use,
         \/ Retained(p) \/ Build(p) \/ Unrecord(p) \/ Crash(p) \/ Bind(p) \/ ServeEnds(p) \/ RestoreTerm(p)
         \/ Unmirror(p) \/ StillRunning(p) \/ CheckHolder(p) \/ CannotWrite(p) \/ SetupFails(p)
  PROVE  Going(p)
<1>1. CASE Retained(p) \/ Build(p) \/ Unrecord(p) \/ Bind(p) \/ ServeEnds(p) \/ RestoreTerm(p)
  BY <1>1 DEF Going, GoesOn, NothingSaid, Registers, Starts, Retained, Build, Unrecord, Bind, ServeEnds,
     RestoreTerm
<1>2. CASE Unmirror(p) \/ StillRunning(p) \/ SetupFails(p)
  BY <1>2 DEF Going, GoesOn, NothingSaid, Registers, Starts, Unmirror, StillRunning, SetupFails
<1>3. CASE CannotWrite(p)
  BY <1>3 DEF Going, GoesOn, NothingSaid, Registers, Starts, CannotWrite, RegistryInv, Types
<1>5. CASE CheckHolder(p)
  <2>1. PlaceOf(p)
    BY DEF RegistryInv, PlaceInv
  <2>2. Starts(p)
    BY <1>5, <2>1 DEF CheckHolder, PlaceOf, IsSession, Starts, Serves
  <2>3. PICK to \in {"write", "ended"} : at' = [at EXCEPT ![p] = to]
    BY <1>5 DEF CheckHolder
  <2>4. GoesOn(p, to)
    BY <1>5, <2>2, <2>3 DEF CheckHolder, GoesOn
  <2>5. UNCHANGED Registers /\ NothingSaid
    BY <1>5 DEF CheckHolder, Registers, NothingSaid, RegistryInv, Types
  <2> QED BY <2>3, <2>4, <2>5 DEF Going
<1>4. CASE Crash(p)
  BY <1>4 DEF Going, GoesOn, NothingSaid, Registers, Starts, Crash, Told, RegistryInv, Types
<1> QED BY <1>1, <1>2, <1>3, <1>4, <1>5

LEMMA Targets ==
  ASSUME RegistryInv, NEW p \in Procs, at[p] \in {"signal", "wait", "connect"}
  PROVE  /\ Found(p) = Base(p) /\ DOMAIN view[p] = {Base(p)} /\ Base(p) \in Names
         /\ view[p][Base(p)] \in [pid : Procs, port : Ports, bound : BOOLEAN]
         /\ Target(p) = view[p][Base(p)].pid /\ Target(p) \in Procs
         /\ Named(Target(p)) /\ name[Target(p)] = Base(p) /\ Target(p) # p /\ ~IsSession(p)
<1>1. DOMAIN view[p] = {Base(p)}
  BY DEF RegistryInv, SeenInv, SeenOf
<1>2. Found(p) = Base(p)
  BY <1>1 DEF Found
<1>3. Base(p) \in Names /\ view[p][Base(p)] \in [pid : Procs, port : Ports, bound : BOOLEAN]
  BY <1>1 DEF RegistryInv, Types
<1>4. Truly(Base(p), view[p][Base(p)])
  BY <1>1 DEF RegistryInv, EntryInv, EntryOf, ViewOf
<1>5. ~IsSession(p)
  BY DEF RegistryInv, PlaceInv, PlaceOf, IsSession, Starts, Serves
<1> QED BY <1>1, <1>2, <1>3, <1>4, <1>5 DEF Target, Truly, Named

LEMMA Signalling ==
  ASSUME RegistryInv, NEW p \in Procs, UNCHANGED use, Signal(p) \/ StartTimesOut(p)
  PROVE  Killing(p) \/ Staying(p)
<1>1. CASE StartTimesOut(p)
  BY <1>1 DEF StartTimesOut, Told, Staying, NothingSaid, Registers, RegistryInv, Types
<1>2. CASE Signal(p)
  <2>1. PICK q \in Procs : q = Target(p) /\ q # p /\ Named(q) /\ Alive(q) /\ at[p] = "signal"
    BY <1>2, Targets DEF Signal, Live
  <2>2. UNCHANGED Registers /\ NothingSaid
    BY <1>2, <2>1 DEF Signal, Told, NothingSaid, Registers, RegistryInv, Types
  <2>3. CASE job[p].cmd = "kill" \/ term[q] = "default"
    <3>1. at' = [at EXCEPT ![q] = "killed", ![p] = "wait"]
      BY <1>2, <2>1, <2>3 DEF Signal
    <3> QED BY <2>1, <2>2, <3>1 DEF Killing, Named
  <2>4. CASE ~(job[p].cmd = "kill" \/ term[q] = "default")
    <3>1. at' = [at EXCEPT ![p] = "wait"]
      BY <1>2, <2>1, <2>4 DEF Signal, RegistryInv, Types
    <3> QED BY <2>1, <2>2, <3>1 DEF Staying
  <2> QED BY <2>3, <2>4
<1> QED BY <1>1, <1>2

LEMMA BusyTypes ==
  ASSUME RegistryInv, NEW p \in Procs, Going(p) \/ Killing(p) \/ Staying(p)
  PROVE  /\ at' \in [Procs -> Stages] /\ UNCHANGED Registers
         /\ \A q \in Procs : \/ at'[q] = at[q]
                             \/ at'[q] = "wait" /\ at[q] = "signal"
                             \/ at'[q] = "killed" /\ IsSession(q) /\ Alive(q)
                                /\ (at[q] \in SessionStages \/ Named(q))
                             \/ q = p /\ Going(p) /\ GoesOn(p, at'[p])
<1>1. at \in [Procs -> Stages]
  BY DEF RegistryInv, Types
<1>2. CASE Going(p)
  BY <1>1, <1>2 DEF Going, GoesOn, Stages, SessionStages
<1>3. CASE Killing(p)
  BY <1>1, <1>3 DEF Killing, Stages
<1>4. CASE Staying(p)
  BY <1>1, <1>4 DEF Staying, Stages
<1> QED BY <1>2, <1>3, <1>4

LEMMA BusyNamed ==
  ASSUME RegistryInv, NEW p \in Procs, Going(p) \/ Killing(p) \/ Staying(p)
  PROVE  /\ NothingSaid
         /\ \A q \in Procs : /\ (Starts(q) <=> Starts(q)') /\ (Serves(q) <=> Serves(q)')
                             /\ (IsSession(q) <=> IsSession(q)')
                             /\ (Registered(q) <=> Registered(q)') /\ Stem(q)' = Stem(q)
                             /\ Named(q) => Named(q)'
                             /\ (Holds(q)' => Holds(q)) /\ (Chosen(q)' => Chosen(q))
                             /\ (Entered(q) => Entered(q)') /\ (MayLink(q) => MayLink(q)')
                             /\ (Linking(q)' => Linking(q))
<1>1. NothingSaid
  BY DEF Going, Killing, Staying
<1> SUFFICES ASSUME NEW q \in Procs
             PROVE  /\ (Starts(q) <=> Starts(q)') /\ (Serves(q) <=> Serves(q)')
                    /\ (IsSession(q) <=> IsSession(q)')
                    /\ (Registered(q) <=> Registered(q)') /\ Stem(q)' = Stem(q)
                    /\ Named(q) => Named(q)'
                    /\ (Holds(q)' => Holds(q)) /\ (Chosen(q)' => Chosen(q))
                    /\ (Entered(q) => Entered(q)') /\ (MayLink(q) => MayLink(q)')
                    /\ (Linking(q)' => Linking(q))
  BY <1>1
<1>2. UNCHANGED <<job, name, harmed>>
  BY BusyTypes DEF Registers
<1>3. (Starts(q) <=> Starts(q)') /\ (Serves(q) <=> Serves(q)') /\ (IsSession(q) <=> IsSession(q)')
      /\ (Registered(q) <=> Registered(q)') /\ Stem(q)' = Stem(q)
  BY <1>2 DEF Starts, Serves, IsSession, Registered, Stem
<1>4. \/ at'[q] = at[q]
      \/ at'[q] = "wait" /\ at[q] = "signal"
      \/ at'[q] = "killed" /\ IsSession(q) /\ Alive(q) /\ (at[q] \in SessionStages \/ Named(q))
      \/ GoesOn(q, at'[q])
  BY BusyTypes
<1>8. ~(Starts(q) /\ Serves(q)) /\ (IsSession(q) <=> Starts(q) \/ Serves(q))
  BY DEF Starts, Serves, IsSession
<1>6. Named(q) => Named(q)'
  <2>1. at[q] \in {"serve", "ended", "killed"} \union Cleaning =>
          at'[q] \in {"serve", "ended", "killed", "remove"} \union Cleaning /\ (at'[q] = "remove" => Starts(q))
    BY <1>4 DEF GoesOn, Cleaning
  <2> QED BY <1>3, <1>8, <2>1 DEF Named
<1>7. PlaceInv /\ NameInv
  BY DEF RegistryInv
<1>9. (Holds(q)' => Holds(q)) /\ (Linking(q)' => Linking(q))
  BY <1>3, <1>4, <1>7, <1>8
     DEF Holds, Linking, GoesOn, Cleaning, SessionStages, PlaceInv, PlaceOf, NameInv, NameOf
<1>10. Chosen(q)' => Chosen(q)
  BY <1>3, <1>4, <1>7, <1>8 DEF Chosen, GoesOn, Cleaning, SessionStages, PlaceInv, PlaceOf, NameInv, NameOf
<1>11. Entered(q) => Entered(q)'
  <2> SUFFICES ASSUME Entered(q) PROVE Entered(q)'
    OBVIOUS
  <2>1. CASE Starts(q)
    <3>1. at[q] \in SessionStages \union {"killed"}
      BY <1>8, <2>1 DEF Entered
    <3>2. at'[q] \in SessionStages \union {"killed"}
      BY <1>4, <2>1, <3>1 DEF GoesOn, SessionStages
    <3> QED BY <1>3, <2>1, <3>2 DEF Entered
  <2>2. CASE Serves(q) /\ <<q, "late">> \in harmed
    BY <1>2, <1>3, <2>2 DEF Entered
  <2>3. CASE Serves(q) /\ <<q, "late">> \notin harmed
    <3>1. at[q] \in {"serve", "clean", "killed"}
      BY <1>8, <2>3 DEF Entered
    <3>2. at'[q] \in {"serve", "clean", "killed"}
      BY <1>4, <1>8, <2>3, <3>1 DEF GoesOn
    <3> QED BY <1>3, <2>3, <3>2 DEF Entered
  <2> QED BY <2>1, <2>2, <2>3 DEF Entered
<1>12. MayLink(q) => MayLink(q)'
  <2> SUFFICES ASSUME MayLink(q) PROVE MayLink(q)'
    OBVIOUS
  <2>1. CASE Linking(q)
    <3>1. \/ Starts(q) /\ at[q] \in {"ready", "serve"}
          \/ Serves(q) /\ at[q] \in {"look", "prune", "name", "write", "serve"}
      BY <2>1 DEF Linking
    <3>2. at'[q] = at[q] \/ at'[q] \in {"clean", "killed"}
      BY <1>4, <1>8, <3>1 DEF GoesOn
    <3> QED BY <1>3, <3>1, <3>2 DEF MayLink, Linking
  <2>2. CASE at[q] \in {"clean", "restore", "unmirror", "unlink", "killed"}
    <3>1. at'[q] \in {"clean", "restore", "unmirror", "unlink", "killed"}
      BY <1>4, <2>2 DEF GoesOn
    <3> QED BY <3>1 DEF MayLink
  <2> QED BY <2>1, <2>2 DEF MayLink
<1> QED BY <1>3, <1>6, <1>9, <1>10, <1>11, <1>12

\* What only goes on disturbs nothing.
LEMMA BusyKeeps ==
  ASSUME RegistryInv, NEW p \in Procs, Going(p) \/ Killing(p) \/ Staying(p)
  PROVE  /\ PlaceInv' /\ NameInv' /\ EntryInv' /\ UpInv' /\ SeenInv'
         /\ KeptInv' /\ MoveInv' /\ AttachInv' /\ LinkInv'
<1>1. /\ UNCHANGED <<use, job, view, name, port, reg, link, slave, moving, attached, seen, harmed>>
      /\ \A q \in Procs : \/ at'[q] = at[q]
                          \/ at'[q] = "wait" /\ at[q] = "signal"
                          \/ at'[q] = "killed" /\ IsSession(q) /\ Alive(q)
                          \/ GoesOn(q, at'[q])
  BY BusyTypes DEF Registers
<1>2. /\ NothingSaid
      /\ \A q \in Procs : /\ (Starts(q) <=> Starts(q)') /\ (Serves(q) <=> Serves(q)')
                          /\ (IsSession(q) <=> IsSession(q)')
                          /\ (Registered(q) <=> Registered(q)') /\ Stem(q)' = Stem(q)
                          /\ Named(q) => Named(q)'
                          /\ (Holds(q)' => Holds(q)) /\ (Chosen(q)' => Chosen(q))
                          /\ (Entered(q) => Entered(q)') /\ (MayLink(q) => MayLink(q)')
                          /\ (Linking(q)' => Linking(q))
  BY BusyNamed
<1>3. \A q \in Procs : ~(Starts(q) /\ Serves(q)) /\ (IsSession(q) <=> Starts(q) \/ Serves(q))
  BY DEF Starts, Serves, IsSession
<1>4. PlaceInv'
  <2> SUFFICES ASSUME NEW q \in Procs
               PROVE  /\ job[q].cmd = "none" => at'[q] = "ended"
                      /\ Starts(q) => at'[q] \notin {"find", "name", "signal", "wait", "connect"}
                      /\ Serves(q)
                         => at'[q] \notin {"check", "holder", "find", "ready", "remove", "signal", "wait", "connect"}
                      /\ ~IsSession(q)
                         => at'[q] \in {"look", "prune", "find", "signal", "wait", "connect", "ended"}
                      /\ at'[q] = "connect" => job[q].cmd = "attach"
                      /\ moving[q]
                         => IsSession(q) /\ at'[q] \in {"serve", "remove", "ended", "killed"} \union Cleaning
    BY <1>1, <1>2 DEF PlaceInv, PlaceOf
  <2>1. /\ job[q].cmd = "none" => at[q] = "ended"
        /\ Starts(q) => at[q] \notin {"find", "name", "signal", "wait", "connect"}
        /\ Serves(q) => at[q] \notin {"check", "holder", "find", "ready", "remove", "signal", "wait", "connect"}
        /\ ~IsSession(q) => at[q] \in {"look", "prune", "find", "signal", "wait", "connect", "ended"}
        /\ at[q] = "connect" => job[q].cmd = "attach"
        /\ moving[q] => IsSession(q) /\ at[q] \in {"serve", "remove", "ended", "killed"} \union Cleaning
    BY DEF RegistryInv, PlaceInv, PlaceOf
  <2>2. ~IsSession(q) => at[q] \notin SessionStages
    BY <2>1 DEF SessionStages
  <2>3. job[q].cmd = "none" => ~IsSession(q)
    BY DEF IsSession
  <2>4. CASE at'[q] = at[q]
    BY <2>1, <2>4
  <2>5. CASE at'[q] = "wait" /\ at[q] = "signal"
    BY <1>3, <2>1, <2>3, <2>5 DEF Cleaning
  <2>6. CASE at'[q] = "killed" /\ IsSession(q)
    BY <1>3, <2>1, <2>3, <2>6 DEF Cleaning
  <2>7. CASE GoesOn(q, at'[q])
    BY <1>3, <2>1, <2>2, <2>3, <2>7, SMTT(30) DEF GoesOn, Cleaning
  <2> QED BY <1>1, <2>4, <2>5, <2>6, <2>7
<1>5. NameInv'
  <2>1. \A q \in Procs : Serves(q) /\ at'[q] = "write" => at[q] = "write"
    BY <1>1, <1>3 DEF GoesOn
  <2>2. \A q \in Procs :
          Serves(q) /\ at'[q] \in {"retain", "build", "bind", "mirror", "link", "look", "prune", "name"} =>
                           at[q] \in {"retain", "build", "bind", "mirror", "link", "look", "prune", "name"}
    BY <1>1 DEF GoesOn
  <2>3. \A q \in Procs : Base(q)' = Base(q)
    BY <1>1 DEF Base
  <2>4. Names' = Names
    BY DEF Names
  <2> QED BY <1>1, <1>2, <2>1, <2>2, <2>3, <2>4 DEF RegistryInv, NameInv, NameOf
<1>6. EntryInv'
  <2>1. \A n \in Names : reg[n].pid \in Procs /\ Tells(reg[n]) => Tells(reg[n])'
    <3> SUFFICES ASSUME NEW n \in Names, reg[n].pid \in Procs, Tells(reg[n]) PROVE Tells(reg[n])'
      OBVIOUS
    <3>1. at[reg[n].pid] # "serve" => at'[reg[n].pid] # "serve"
      BY <1>1 DEF GoesOn
    <3> QED BY <1>1, <1>2, <3>1 DEF Tells, NothingSaid
  <2>2. ASSUME NEW n \in Names, reg[n].pid \in Procs
        PROVE  Truly(n, reg[n])' /\ Entered(reg[n].pid)' /\ Tells(reg[n])'
    <3>1. Truly(n, reg[n]) /\ Entered(reg[n].pid) /\ Tells(reg[n])
      BY <2>2 DEF RegistryInv, EntryInv, EntryOf, ViewOf
    <3>2. PICK q \in Procs : q = reg[n].pid /\ q = reg'[n].pid
      BY <1>1, <2>2
    <3> QED BY <1>1, <1>2, <2>1, <2>2, <3>1, <3>2 DEF Truly
  <2>3. ASSUME NEW q \in Procs, NEW n \in DOMAIN view[q] PROVE Truly(n, view[q][n])'
    <3>1. Truly(n, view[q][n]) /\ view[q][n].pid \in Procs
      BY DEF RegistryInv, EntryInv, EntryOf, ViewOf, Types
    <3> QED BY <1>1, <1>2, <3>1 DEF Truly
  <2>4. Names' = Names
    BY DEF Names
  <2> QED BY <1>1, <2>2, <2>3, <2>4 DEF EntryInv, EntryOf, ViewOf
<1>7. UpInv'
  <2> SUFFICES ASSUME NEW q \in Procs, verdict'[q] = "up"
               PROVE  IsSession(q) /\ at'[q] \in {"serve", "remove", "ended", "killed"} \union Cleaning
    BY <1>2 DEF UpInv, UpOf
  <2>1. IsSession(q) /\ at[q] \in {"serve", "remove", "ended", "killed"} \union Cleaning
    BY <1>2 DEF NothingSaid, RegistryInv, UpInv, UpOf
  <2> QED BY <1>1, <2>1 DEF GoesOn, Cleaning
<1>8. SeenInv'
  <2>1. \A q \in Procs : Serves(q) /\ at'[q] \in {"retain", "build", "bind", "mirror", "link"} =>
                           at[q] \in {"retain", "build", "bind", "mirror", "link"}
    BY <1>1 DEF GoesOn
  <2>2. \A q \in Procs : at'[q] = "prune" => at[q] = "prune"
    BY <1>1 DEF GoesOn
  <2>3. \A q \in Procs : at'[q] \in {"signal", "wait", "connect"} => at[q] \in {"signal", "wait", "connect"}
    BY <1>1 DEF GoesOn
  <2>4. \A q \in Procs : Base(q)' = Base(q)
    BY <1>1 DEF Base
  <2>5. \A q \in Procs : seen[q] \subseteq Procs
    BY DEF RegistryInv, Types
  <2> QED BY <1>1, <1>2, <2>1, <2>2, <2>3, <2>4, <2>5 DEF RegistryInv, SeenInv, SeenOf
<1>9. KeptInv'
  BY <1>1, <1>2 DEF RegistryInv, KeptInv, KeptOf, Kept
<1>10. MoveInv'
  BY <1>1, <1>2 DEF RegistryInv, MoveInv, MoveOf, Kept, Filed
<1>11. AttachInv'
  <2>1. \A q \in Procs : at'[q] = "connect" => at[q] = "connect"
    BY <1>1 DEF GoesOn
  <2>2. \A q \in Procs : at[q] = "ended" => at'[q] = "ended"
    BY <1>1 DEF GoesOn, Alive, SessionStages
  <2> QED BY <1>1, <2>1, <2>2 DEF RegistryInv, AttachInv, AttachOf
<1>12. LinkInv'
  <2>1. \A q \in Procs : at'[q] = "link" => at[q] = "link"
    BY <1>1 DEF GoesOn
  <2>2. \A q \in Procs :
          at'[q] \in {"retain", "build", "bind", "mirror"} => at[q] \in {"retain", "build", "bind", "mirror"}
    BY <1>1 DEF GoesOn
  <2>4. \A q \in Procs :
          at'[q] \in {"look", "prune", "check", "holder", "write"}
            => at[q] \in {"look", "prune", "check", "holder", "write"}
    BY <1>1 DEF GoesOn
  <2>3. \A q \in Procs : Stem(q) \in Bases
    BY NamesAre DEF Stem, RegistryInv
  <2> QED BY <1>1, <1>2, <2>1, <2>2, <2>3, <2>4 DEF RegistryInv, LinkInv, LinkTo, LinkOf
<1> QED BY <1>4, <1>5, <1>6, <1>7, <1>8, <1>9, <1>10, <1>11, <1>12

\* A step of p that leaves the others where they are.
Aside(p) ==
  /\ UNCHANGED <<use, job>> /\ harmed \subseteq harmed'
  /\ \A q \in Procs \ {p} :
       /\ at'[q] = at[q] /\ name'[q] = name[q] /\ port'[q] = port[q] /\ view'[q] = view[q]
       /\ moving'[q] = moving[q]
       /\ seen'[q] = seen[q] /\ attached'[q] = attached[q] /\ verdict'[q] = verdict[q] /\ slave'[q] = slave[q]
  /\ Named(p) => Named(p)' /\ name'[p] = name[p]

LEMMA OthersAre ==
  ASSUME RegistryInv, NEW p \in Procs, Aside(p)
  PROVE  /\ \A q \in Procs :
              /\ (Starts(q) <=> Starts(q)') /\ (Serves(q) <=> Serves(q)') /\ (IsSession(q) <=> IsSession(q)')
              /\ Stem(q)' = Stem(q) /\ Base(q)' = Base(q) /\ (Kept(q)' => Kept(q)) /\ (Filed(q)' => Filed(q))
              /\ (Named(q) => Named(q)' /\ name'[q] = name[q])
         /\ \A q \in Procs \ {p} :
              /\ (Registered(q) <=> Registered(q)') /\ (Holds(q) <=> Holds(q)') /\ (Chosen(q) <=> Chosen(q)')
              /\ (Entered(q) => Entered(q)') /\ (Linking(q) <=> Linking(q)') /\ (MayLink(q) <=> MayLink(q)')
         /\ Names' = Names
<1>1. \A q \in Procs : /\ (Starts(q) <=> Starts(q)') /\ (Serves(q) <=> Serves(q)')
                       /\ (IsSession(q) <=> IsSession(q)')
                       /\ Stem(q)' = Stem(q) /\ Base(q)' = Base(q) /\ (Kept(q)' => Kept(q))
                       /\ (Filed(q)' => Filed(q))
  BY DEF Aside, Starts, Serves, IsSession, Stem, Base, Kept, Filed
<1> SUFFICES ASSUME NEW q \in Procs \ {p}
             PROVE  /\ Named(q) => Named(q)' /\ name'[q] = name[q]
                    /\ (Registered(q) <=> Registered(q)') /\ (Holds(q) <=> Holds(q)')
                    /\ (Chosen(q) <=> Chosen(q)')
                    /\ (Entered(q) => Entered(q)') /\ (Linking(q) <=> Linking(q)')
                    /\ (MayLink(q) <=> MayLink(q)')
  BY <1>1 DEF Aside, Names
<1>2. at'[q] = at[q] /\ name'[q] = name[q] /\ harmed \subseteq harmed'
  BY DEF Aside
<1>3. (Starts(q) <=> Starts(q)') /\ (Serves(q) <=> Serves(q)') /\ (IsSession(q) <=> IsSession(q)')
  BY <1>1
<1>4. Registered(q) <=> Registered(q)'
  BY <1>2 DEF Registered
<1>5. (Named(q) => Named(q)') /\ (Holds(q) <=> Holds(q)') /\ (Chosen(q) <=> Chosen(q)')
  BY <1>2, <1>3, <1>4 DEF Named, Holds, Chosen
<1>6. (Entered(q) => Entered(q)') /\ (Linking(q) <=> Linking(q)') /\ (MayLink(q) <=> MayLink(q)')
  BY <1>2, <1>3 DEF Entered, Linking, MayLink
<1> QED BY <1>2, <1>4, <1>5, <1>6

LEMMA OthersKeep ==
  ASSUME RegistryInv, NEW p \in Procs, Aside(p), NEW q \in Procs \ {p}
  PROVE  /\ PlaceOf(q)' /\ NameOf(q)' /\ ViewOf(q)' /\ UpOf(q)' /\ SeenOf(q)' /\ AttachOf(q)'
         /\ (Holds(q) /\ Kept(q)' => reg'[name[q]] = reg[name[q]]) => KeptOf(q)' /\ MoveOf(q)'
         /\ (Linking(q) => link'[Stem(q)].by = link[Stem(q)].by \/ <<q, "link">> \in harmed') => LinkOf(q)'
<1>1. /\ UNCHANGED job /\ harmed \subseteq harmed'
      /\ at'[q] = at[q] /\ name'[q] = name[q] /\ port'[q] = port[q] /\ view'[q] = view[q]
      /\ moving'[q] = moving[q]
      /\ seen'[q] = seen[q] /\ attached'[q] = attached[q] /\ verdict'[q] = verdict[q] /\ slave'[q] = slave[q]
  BY DEF Aside
<1>2. /\ (Starts(q) <=> Starts(q)') /\ (Serves(q) <=> Serves(q)') /\ (IsSession(q) <=> IsSession(q)')
      /\ Stem(q)' = Stem(q) /\ Base(q)' = Base(q) /\ (Kept(q)' => Kept(q)) /\ (Filed(q)' => Filed(q))
      /\ (Registered(q) <=> Registered(q)') /\ (Holds(q) <=> Holds(q)') /\ (Chosen(q) <=> Chosen(q)')
      /\ (Linking(q) <=> Linking(q)') /\ Names' = Names
  BY OthersAre
<1>3. \A x \in Procs : Named(x) => Named(x)' /\ name'[x] = name[x]
  BY OthersAre
<1>4. \A n \in DOMAIN view[q] : view[q][n].pid \in Procs
  BY DEF RegistryInv, Types
<1>5. seen[q] \subseteq Procs
  BY DEF RegistryInv, Types
<1>6. PlaceOf(q)' /\ NameOf(q)' /\ UpOf(q)'
  BY <1>1, <1>2 DEF RegistryInv, PlaceInv, PlaceOf, NameInv, NameOf, UpInv, UpOf
<1>7. ViewOf(q)'
  BY <1>1, <1>3, <1>4 DEF RegistryInv, EntryInv, ViewOf, Truly
<1>8. SeenOf(q)'
  BY <1>1, <1>2, <1>3, <1>5 DEF RegistryInv, SeenInv, SeenOf
<1>9. AttachOf(q)'
  BY <1>1 DEF RegistryInv, AttachInv, AttachOf
<1>10. (Holds(q) /\ Kept(q)' => reg'[name[q]] = reg[name[q]]) => KeptOf(q)' /\ MoveOf(q)'
  <2> SUFFICES ASSUME Holds(q) /\ Kept(q)' => reg'[name[q]] = reg[name[q]] PROVE KeptOf(q)' /\ MoveOf(q)'
    OBVIOUS
  <2>1. KeptOf(q)'
    BY <1>1, <1>2 DEF RegistryInv, KeptInv, KeptOf
  <2>2. MoveOf(q)'
    BY <1>1, <1>2 DEF RegistryInv, MoveInv, MoveOf
  <2> QED BY <2>1, <2>2
<1>11. (Linking(q) => link'[Stem(q)].by = link[Stem(q)].by \/ <<q, "link">> \in harmed') => LinkOf(q)'
  BY <1>1, <1>2 DEF RegistryInv, LinkInv, LinkOf
<1> QED BY <1>6, <1>7, <1>8, <1>9, <1>10, <1>11

\* An entry of another, and a link of another, stand as they are.
LEMMA OthersStand ==
  ASSUME RegistryInv, NEW p \in Procs, Aside(p)
  PROVE  /\ \A n \in Names : reg'[n] = reg[n] /\ reg[n].pid # p => EntryOf(n)'
         /\ \A b \in Bases : link'[b] = link[b] /\ link[b].by # p => LinkTo(b)'
<1>1. \A q \in Procs \ {p} : /\ at'[q] = at[q] /\ verdict'[q] = verdict[q] /\ slave'[q] = slave[q]
                             /\ (Entered(q) => Entered(q)') /\ (MayLink(q) <=> MayLink(q)')
  BY OthersAre DEF Aside
<1>2. \A q \in Procs : /\ (Starts(q) <=> Starts(q)') /\ (IsSession(q) <=> IsSession(q)') /\ Stem(q)' = Stem(q)
                       /\ (Named(q) => Named(q)' /\ name'[q] = name[q])
  BY OthersAre
<1>3. harmed \subseteq harmed'
  BY DEF Aside
<1>4. ASSUME NEW n \in Names, reg'[n] = reg[n], reg[n].pid # p, reg[n].pid \in Procs
      PROVE  Truly(n, reg[n])' /\ Entered(reg[n].pid)' /\ Tells(reg[n])'
  <2>1. PICK q \in Procs \ {p} : q = reg[n].pid /\ q = reg'[n].pid
    BY <1>4
  <2>2. Truly(n, reg[n]) /\ Entered(q) /\ Tells(reg[n])
    BY <2>1 DEF RegistryInv, EntryInv, EntryOf
  <2>3. Truly(n, reg[n])'
    BY <1>2, <2>1, <2>2 DEF Truly
  <2>4. Entered(reg[n].pid)'
    BY <1>1, <2>1, <2>2
  <2>5. Tells(reg[n])'
    BY <1>1, <1>2, <1>3, <1>4, <2>1, <2>2 DEF Tells
  <2> QED BY <2>3, <2>4, <2>5
<1>5. ASSUME NEW b \in Bases, link'[b] = link[b], link[b].by # p, link[b].by \in Procs
      PROVE  /\ IsSession(link[b].by)' /\ (Stem(link[b].by) = b)' /\ MayLink(link[b].by)'
             /\ (link[b].slave = slave[link[b].by])' /\ (slave[link[b].by] # 0)'
  <2>1. PICK q \in Procs \ {p} : q = link[b].by /\ q = link'[b].by
    BY <1>5
  <2>2. IsSession(q) /\ Stem(q) = b /\ MayLink(q) /\ link[b].slave = slave[q] /\ slave[q] # 0
    BY <2>1 DEF RegistryInv, LinkInv, LinkTo
  <2> QED BY <1>1, <1>2, <1>5, <2>1, <2>2
<1> QED BY <1>4, <1>5 DEF EntryOf, LinkTo

\* Each process has an entry under one name only.
LEMMA OneName ==
  ASSUME RegistryInv
  PROVE  \A n, m \in Names : reg[n].pid = reg[m].pid /\ reg[n].pid \in Procs => n = m
BY DEF RegistryInv, EntryInv, EntryOf, Truly

LEMMA ToldIs ==
  ASSUME Types, NEW p \in Procs, NEW w \in Words, Told(p, w) \/ UNCHANGED verdict
  PROVE  verdict' \in [Procs -> Words]
BY DEF Types, Told

LEMMA GoesTo ==
  ASSUME Types, NEW p \in Procs, NEW s \in Stages, at' = [at EXCEPT ![p] = s]
  PROVE  at' \in [Procs -> Stages]
BY DEF Types

\* Where files are written and removed.
LEMMA TypesFiles ==
  ASSUME RegistryInv, NEW p \in Procs, UNCHANGED use,
         \/ Prune(p) \/ Clean(p) \/ Unregister(p) \/ GoneAlready(p) \/ Stopped(p)
         \/ WriteUnbound(p) \/ WriteServed(p) \/ Ready(p) \/ MoveWrites(p)
  PROVE  Types'
<1>0. Types
  BY DEF RegistryInv
<1>1. CASE Prune(p) \/ Clean(p) \/ Unregister(p) \/ GoneAlready(p) \/ Stopped(p)
  <2>1. \E M : reg' = Removed(M) /\ harmed' = harmed \union Loses(p, M)
    BY <1>1 DEF Prune, Clean, Unregister, GoneAlready, Stopped
  <2>2. \A M : Loses(p, M) \subseteq Harms
    BY <1>0 DEF Loses, Live, Harms
  <2>3. reg' \in [Names -> Entries] /\ harmed' \subseteq Harms
    BY <1>0, <2>1, <2>2, RemovedAre DEF Types
  <2>4. at' \in [Procs -> Stages]
    <3>1. \E e \in Stages : at' = [at EXCEPT ![p] = e]
      BY <1>1 DEF Prune, Clean, Unregister, GoneAlready, Stopped, Stages, SessionStages
    <3> QED BY <1>0, <3>1, GoesTo
  <2>5. verdict' \in [Procs -> Words]
    <3>1. \E w \in Words : Told(p, w) \/ UNCHANGED verdict
      BY <1>1 DEF Prune, Clean, Unregister, GoneAlready, Stopped, Words
    <3> QED BY <1>0, <3>1, ToldIs
  <2>6. UNCHANGED <<job, view, name, port, term, asked, link, slave, moving, attached, seen>>
    BY <1>1 DEF Prune, Clean, Unregister, GoneAlready, Stopped
  <2> QED BY <1>0, <2>3, <2>4, <2>5, <2>6 DEF Types
<1>2. CASE WriteUnbound(p) \/ WriteServed(p) \/ Ready(p)
  <2>1. PICK e \in [pid : Procs, port : Ports, bound : BOOLEAN] : Write(p, e)
    <3>1. \A b \in BOOLEAN : Entry(p, b) \in [pid : Procs, port : Ports, bound : BOOLEAN]
      BY <1>0 DEF Types, Entry
    <3> QED BY <1>2, <3>1 DEF WriteUnbound, WriteServed, Ready
  <2>2. reg' \in [Names -> Entries]
    BY <1>0, <2>1 DEF Write, Types, Entries
  <2>3. harmed' \subseteq Harms
    BY <1>0, <2>1 DEF Write, Types, Loses, Live, Harms
  <2>4. at' \in [Procs -> Stages]
    <3>1. \E s \in Stages : at' = [at EXCEPT ![p] = s]
      BY <1>2 DEF WriteUnbound, WriteServed, Ready, SetUp, Stages, SessionStages
    <3> QED BY <1>0, <3>1, GoesTo
  <2>5. verdict' \in [Procs -> Words]
    <3>1. \E w \in Words : Told(p, w) \/ UNCHANGED verdict
      BY <1>2 DEF WriteUnbound, WriteServed, Ready, Words
    <3> QED BY <1>0, <3>1, ToldIs
  <2>6. UNCHANGED <<job, view, name, port, term, asked, link, slave, moving, attached, seen>>
    BY <1>2 DEF WriteUnbound, WriteServed, Ready
  <2> QED BY <1>0, <2>2, <2>3, <2>4, <2>5, <2>6 DEF Types
<1>3. CASE MoveWrites(p)
  <2>1. \A n \in DOMAIN view[p] : [view[p][n] EXCEPT !.port = port[p]] \in Entries
    <3> SUFFICES ASSUME NEW n \in DOMAIN view[p] PROVE [view[p][n] EXCEPT !.port = port[p]] \in Entries
      OBVIOUS
    <3>1. view[p][n] \in [pid : Procs, port : Ports, bound : BOOLEAN] /\ port[p] \in Ports
      BY <1>0 DEF Types
    <3>2. PICK e \in [pid : Procs, port : Ports, bound : BOOLEAN] : e = view[p][n]
      BY <3>1
    <3>3. [e EXCEPT !.port = port[p]] \in [pid : Procs, port : Ports, bound : BOOLEAN]
      BY <3>1
    <3> QED BY <3>2, <3>3 DEF Entries
  <2>2. reg' \in [Names -> Entries]
    BY <1>0, <1>3, <2>1 DEF MoveWrites, Types
  <2>3. harmed' \subseteq Harms
    BY <1>0, <1>3 DEF MoveWrites, Types, Loses, Live, Harms
  <2> QED BY <1>0, <1>3, <2>2, <2>3 DEF Types, MoveWrites
<1> QED BY <1>1, <1>2, <1>3

\* And the rest.
LEMMA TypesRest ==
  ASSUME RegistryInv, NEW p \in Procs, UNCHANGED use,
         \/ TakeName(p) \/ NotRegistered(p) \/ ReadyUnwritten(p) \/ ClearLink(p) \/ MakeLink(p) \/ Unlink(p)
         \/ (\E new \in Ports : MoveBegins(p, new)) \/ MoveUnwritten(p) \/ Signal(p)
  PROVE  Types'
<1>0. Types
  BY DEF RegistryInv
<1>1. CASE TakeName(p)
  <2>1. \A n \in Names : reg[n].pid # p
    BY <1>1 DEF TakeName, RegistryInv, EntryInv, EntryOf, Truly, Named, PlaceInv, PlaceOf, Starts, Serves,
       IsSession,
                Cleaning
  <2>2. Suffix(job[p].base) \in 0..N /\ job[p].base \in Bases
    <3>1. \A n, m \in Names : reg[n].pid = reg[m].pid /\ reg[n].pid \in Procs => n = m
      BY OneName
    <3>2. Suffix(job[p].base) \in 1..N
      BY <1>0, <2>1, <3>1, SuffixIs
    <3> QED BY <1>0, <3>2, NamesAre, SomeProcs
  <2>3. name' \in [Procs -> Bases \X (0..N)]
    BY <1>0, <1>1, <2>2 DEF TakeName, Types
  <2>4. PidsOf(Listed) \subseteq Procs
    BY <1>0, Listings
  <2> QED BY <1>0, <1>1, <2>3, <2>4 DEF TakeName, Types, Stages
<1>2. CASE NotRegistered(p)
  <2>1. job[p].base \in Bases /\ 0 \in 0..N
    BY <1>0, NamesAre, SomeProcs
  <2>2. name' \in [Procs -> Bases \X (0..N)]
    BY <1>0, <1>2, <2>1 DEF NotRegistered, Types
  <2>3. \E s \in Stages : at' = [at EXCEPT ![p] = s]
    BY <1>2 DEF NotRegistered, SetUp, Stages, SessionStages
  <2> QED BY <1>0, <1>2, <2>2, <2>3 DEF NotRegistered, Types
<1>3. CASE ReadyUnwritten(p)
  <2>1. at' \in [Procs -> Stages]
    <3>1. \E s \in Stages : at' = [at EXCEPT ![p] = s]
      BY <1>3 DEF ReadyUnwritten, SetUp, Stages, SessionStages
    <3> QED BY <1>0, <3>1, GoesTo
  <2>2. verdict' \in [Procs -> Words]
    BY <1>0, <1>3, ToldIs DEF ReadyUnwritten, Words
  <2>3. harmed' \subseteq Harms
    BY <1>0, <1>3 DEF ReadyUnwritten, Types, Harms
  <2> QED BY <1>0, <1>3, <2>1, <2>2, <2>3 DEF ReadyUnwritten, Types
<1>4. CASE ClearLink(p)
  <2>1. Free \in 0..N
    <3>1. IsSession(p)
      BY <1>4 DEF ClearLink, RegistryInv, PlaceInv, PlaceOf
    <3>2. slave[p] = 0
      BY <1>4, <3>1 DEF ClearLink, RegistryInv, LinkInv, LinkOf
    <3> QED BY <1>0, <3>2, FreeIs
  <2>2. slave' \in [Procs -> 0..N] /\ link' \in [Bases -> Links]
    BY <1>0, <1>4, <2>1 DEF ClearLink, Types, Links
  <2>3. harmed' \subseteq Harms
    BY <1>0, <1>4 DEF ClearLink, Types, Live, Harms
  <2> QED BY <1>0, <1>4, <2>2, <2>3 DEF ClearLink, Types, Stages, SessionStages
<1>5. CASE MakeLink(p)
  <2>1. slave' \in [Procs -> 0..N]
    BY <1>0, <1>5, SomeProcs, SMTT(30) DEF MakeLink, Types
  <2>2. [slave |-> slave[p], by |-> p] \in Links
    BY <1>0 DEF Types, Links
  <2>3. link' \in [Bases -> Links]
    BY <1>0, <1>5, <2>2 DEF MakeLink, Types
  <2>4. \E s \in Stages : at' = [at EXCEPT ![p] = s]
    BY <1>5 DEF MakeLink, Stages, SessionStages
  <2> QED BY <1>0, <1>5, <2>1, <2>3, <2>4 DEF MakeLink, Types
<1>6. CASE Unlink(p)
  <2>1. slave' \in [Procs -> 0..N]
    BY <1>0, <1>6, SomeProcs DEF Unlink, Types
  <2>2. link' \in [Bases -> Links]
    BY <1>0, <1>6 DEF Unlink, Types, Links
  <2>3. harmed' \subseteq Harms
    BY <1>0, <1>6 DEF Unlink, Types, Live, Harms
  <2> QED BY <1>0, <1>6, <2>1, <2>2, <2>3 DEF Unlink, Types, Stages, SessionStages
<1>7. CASE \E new \in Ports : MoveBegins(p, new)
  <2>1. PICK f : /\ f = Files({p}) /\ view' = [view EXCEPT ![p] = f]
    BY <1>7 DEF MoveBegins
  <2>2. DOMAIN f \subseteq Names /\ \A n \in DOMAIN f : f[n] \in [pid : Procs, port : Ports, bound : BOOLEAN]
    BY <1>0, <2>1, FilesAre
  <2>3. port' \in [Procs -> Ports] /\ moving' \in [Procs -> BOOLEAN]
    BY <1>0, <1>7 DEF MoveBegins, Types
  <2>4. UNCHANGED <<job, at, name, term, asked, verdict, reg, link, slave, attached, seen, harmed>>
    BY <1>7 DEF MoveBegins
  <2> QED BY <1>0, <2>1, <2>2, <2>3, <2>4 DEF Types
<1>8. CASE MoveUnwritten(p)
  BY <1>0, <1>8 DEF MoveUnwritten, Types, Harms
<1>9. CASE Signal(p)
  <2>1. Target(p) \in Procs
    BY <1>9, Targets DEF Signal
  <2>2. at' \in [Procs -> Stages] /\ asked' \in [Procs -> BOOLEAN]
    BY <1>0, <1>9, <2>1 DEF Signal, Types, Stages
  <2>3. verdict' \in [Procs -> Words]
    <3>1. Told(Target(p), "failed") \/ UNCHANGED verdict
      BY <1>9 DEF Signal
    <3> QED BY <1>0, <2>1, <3>1, ToldIs DEF Words
  <2> QED BY <1>0, <1>9, <2>2, <2>3 DEF Signal, Types
<1> QED BY <1>1, <1>2, <1>3, <1>4, <1>5, <1>6, <1>7, <1>8, <1>9

\* What is kept of p itself.
Own(p) ==
  /\ PlaceOf(p) /\ NameOf(p) /\ ViewOf(p) /\ UpOf(p) /\ SeenOf(p) /\ KeptOf(p) /\ MoveOf(p) /\ AttachOf(p)
  /\ LinkOf(p)

\* Of those it has seen, p takes nobody's file, unless it has lost its own.
Spares(p, M) ==
  Kept(p) => \A q \in seen[p] \ {p} : Live(q) /\ name[q] \in Names /\ reg[name[q]].pid = q => name[q] \notin M

Kinds == PlaceInv /\ NameInv /\ EntryInv /\ UpInv /\ SeenInv /\ KeptInv /\ MoveInv /\ AttachInv /\ LinkInv

LEMMA OwnIs ==
  ASSUME RegistryInv, NEW p \in Procs
  PROVE  Own(p)
BY DEF RegistryInv, Own, PlaceInv, NameInv, EntryInv, UpInv, SeenInv, KeptInv, MoveInv, AttachInv, LinkInv

LEMMA HoldsItsFile ==
  ASSUME RegistryInv, NEW q \in Procs, Holds(q), Kept(q)
  PROVE  Live(q) /\ name[q] \in Names /\ reg[name[q]].pid = q
<1>1. reg[name[q]].pid = q
  BY DEF RegistryInv, KeptInv, KeptOf
<1>2. name[q] \in Names
  BY DEF RegistryInv, NameInv, NameOf, Holds
<1>3. Live(q)
  BY DEF Live, Alive, Holds, SessionStages
<1> QED BY <1>1, <1>2, <1>3

LEMMA Altering ==
  ASSUME RegistryInv, NEW p \in Procs, Aside(p), NEW M \in SUBSET Names,
         \A n \in Names \ M : reg'[n] = reg[n],
         Loses(p, M) \subseteq harmed', Spares(p, M),
         \A n \in Names : n \in M \/ reg[n].pid = p => EntryOf(n)',
         \A b \in Bases : link'[b] # link[b] \/ link[b].by = p => LinkTo(b)',
         \A q \in Procs \ {p} : Linking(q) => link'[Stem(q)].by = link[Stem(q)].by \/ <<q, "link">> \in harmed',
         Own(p)'
  PROVE  Kinds'
<1>1. ASSUME NEW q \in Procs \ {p}, Holds(q), Kept(q)' PROVE reg'[name[q]] = reg[name[q]]
  <2>1. Kept(q) /\ <<q, "name">> \notin harmed'
    BY <1>1, OthersAre DEF Kept
  <2>2. Live(q) /\ name[q] \in Names /\ reg[name[q]].pid = q
    BY <1>1, <2>1, HoldsItsFile
  <2>3. name[q] \notin M
    <3> SUFFICES ASSUME name[q] \in M PROVE FALSE
      OBVIOUS
    <3>1. <<q, "name">> \notin Loses(p, M)
      BY <2>1
    <3>2. q \in seen[p] /\ Kept(p)
      BY <2>2, <3>1 DEF Loses, Kept
    <3> QED BY <2>2, <3>2 DEF Spares
  <2> QED BY <2>2, <2>3
<1>2. \A q \in Procs \ {p} : /\ PlaceOf(q)' /\ NameOf(q)' /\ ViewOf(q)' /\ UpOf(q)' /\ SeenOf(q)'
                             /\ AttachOf(q)'
                             /\ KeptOf(q)' /\ MoveOf(q)' /\ LinkOf(q)'
  BY <1>1, OthersKeep
<1>3. \A n \in Names : EntryOf(n)'
  BY OthersStand
<1>4. \A b \in Bases : LinkTo(b)'
  BY OthersStand
<1>5. Names' = Names
  BY DEF Names
<1>6. \A q \in Procs : /\ PlaceOf(q)' /\ NameOf(q)' /\ ViewOf(q)' /\ UpOf(q)' /\ SeenOf(q)' /\ AttachOf(q)'
                       /\ KeptOf(q)' /\ MoveOf(q)' /\ LinkOf(q)'
  BY <1>2 DEF Own
<1> QED BY <1>3, <1>4, <1>5, <1>6
           DEF Kinds, PlaceInv, NameInv, EntryInv, UpInv, SeenInv, KeptInv, MoveInv, AttachInv,
                                      LinkInv

\* The steps that only remove files.
Removes(p, M) ==
  /\ M \subseteq Names
  /\ reg' = Removed(M) /\ harmed' = harmed \union Loses(p, M)
  /\ NothingSaid
  /\ UNCHANGED <<use, job, view, name, port, link, slave, moving, attached, seen>>

LEMMA RemovesIs ==
  ASSUME RegistryInv, NEW p \in Procs, NEW M, Removes(p, M), NEW s, at' = [at EXCEPT ![p] = s],
         \A q \in Procs \ {p} : verdict'[q] = verdict[q],
         at[p] \in {"ended", "killed", "serve"} \union Cleaning
             => s \in {"serve", "ended", "killed", "remove"} \union Cleaning,
         Serves(p) => s # "remove"
  PROVE  /\ Aside(p) /\ at'[p] = s
         /\ \A n \in Names \ M : reg'[n] = reg[n]
         /\ \A n \in M : reg'[n] = NoEntry
         /\ \A q \in Procs, w \in {"link", "unwritten", "late"} : <<q, w>> \in harmed' <=> <<q, w>> \in harmed
         /\ Loses(p, M) \subseteq harmed' /\ harmed \subseteq harmed'
         /\ \A q \in Procs : <<q, "name">> \in Loses(p, M) => q # p
<1>1. DOMAIN at = Procs
  BY DEF RegistryInv, Types
<1>2. \A q \in Procs \ {p} : at'[q] = at[q]
  BY <1>1
<1>3. at'[p] = s
  BY <1>1
<1>4. Named(p) => Named(p)'
  <2>1. (IsSession(p) <=> IsSession(p)') /\ (Serves(p) <=> Serves(p)')
    BY DEF Removes, IsSession, Serves
  <2> QED BY <1>3, <2>1 DEF Named, Cleaning
<1>5. Aside(p)
  BY <1>2, <1>4 DEF Aside, Removes
<1>6. \A x \in Loses(p, M) : \E n \in Names : x = <<reg[n].pid, "name">> /\ reg[n].pid # p
  BY DEF Loses, Removes
<1> QED BY <1>3, <1>5, <1>6 DEF Removes, Removed

LEMMA Removing ==
  ASSUME RegistryInv, NEW p \in Procs, NEW M, Removes(p, M), NEW s, at' = [at EXCEPT ![p] = s],
         \A q \in Procs \ {p} : verdict'[q] = verdict[q],
         at[p] \in {"ended", "killed", "serve"} \union Cleaning
             => s \in {"serve", "ended", "killed", "remove"} \union Cleaning,
         Serves(p) => s # "remove", s # "serve", s # "connect",
         Spares(p, M), Own(p)',
         \A n \in Names \ M : reg[n].pid = p => Entered(p)',
         MayLink(p) => MayLink(p)'
  PROVE  Kinds'
<1>1. /\ Aside(p) /\ at'[p] = s
      /\ \A n \in Names \ M : reg'[n] = reg[n]
      /\ \A n \in M : reg'[n] = NoEntry
      /\ \A q \in Procs, w \in {"link", "unwritten", "late"} : <<q, w>> \in harmed' <=> <<q, w>> \in harmed
      /\ Loses(p, M) \subseteq harmed'
  BY RemovesIs
<1>2. /\ Starts(p) <=> Starts(p)'
      /\ Named(p) => Named(p)' /\ name'[p] = name[p]
      /\ Stem(p)' = Stem(p) /\ (IsSession(p) <=> IsSession(p)')
  BY <1>1, OthersAre
<1>3. ASSUME NEW n \in Names, n \in M \/ reg[n].pid = p PROVE EntryOf(n)'
  <2>1. CASE n \in M
    BY <1>1, <2>1, RegistryAssumption DEF EntryOf, NoEntry
  <2>2. CASE n \notin M /\ reg[n].pid = p
    <3>1. Truly(n, reg[n]) /\ Tells(reg[n]) /\ reg'[n] = reg[n]
      BY <1>1, <2>2 DEF RegistryInv, EntryInv, EntryOf
    <3>2. Truly(n, reg[n])' /\ Entered(reg[n].pid)'
      BY <1>2, <2>2, <3>1 DEF Truly
    <3>3. Tells(reg[n])'
      BY <1>1, <1>2, <2>2, <3>1 DEF Tells, Removes, NothingSaid
    <3> QED BY <3>2, <3>3 DEF EntryOf
  <2> QED BY <1>3, <2>1, <2>2
<1>4. ASSUME NEW b \in Bases, link'[b] # link[b] \/ link[b].by = p PROVE LinkTo(b)'
  <2>1. link' = link /\ slave' = slave
    BY DEF Removes
  <2>2. IsSession(p) /\ Stem(p) = b /\ MayLink(p) /\ link[b].slave = slave[p] /\ slave[p] # 0
    BY <1>4, <2>1 DEF RegistryInv, LinkInv, LinkTo
  <2> QED BY <1>2, <1>4, <2>1, <2>2 DEF LinkTo
<1> HIDE DEF Kinds
<1> QED BY <1>1, <1>3, <1>4, Altering DEF Removes

LEMMA PruneKeeps ==
  ASSUME RegistryInv, NEW p \in Procs, UNCHANGED use, Prune(p)
  PROVE  Kinds'
<1> DEFINE M == {n \in DOMAIN view[p] : IsDead(view[p][n])}
           s == IF job[p].cmd = "start" THEN "check" ELSE IF job[p].cmd = "serve" THEN "name" ELSE "find"
<1>1. M \subseteq Names
  BY DEF RegistryInv, Types
<1>2. Removes(p, M)
  BY <1>1 DEF Prune, Removes, NothingSaid
<1>3. at' = [at EXCEPT ![p] = s] /\ at[p] = "prune"
  BY DEF Prune
<1>4. Spares(p, M)
  <2> SUFFICES ASSUME NEW q \in seen[p] \ {p}, Live(q) PROVE name[q] \notin M
    BY DEF Spares
  <2>1. PICK n \in DOMAIN view[p] : view[p][n].pid = q
    BY <1>3 DEF RegistryInv, SeenInv, SeenOf
  <2>2. name[q] = n
    BY <2>1 DEF RegistryInv, EntryInv, ViewOf, Truly
  <2> QED BY <2>1, <2>2 DEF IsDead
<1>5. Own(p)
  BY OwnIs
<1>6. UNCHANGED verdict /\ (Serves(p) => s # "remove")
  BY DEF Prune
<1> HIDE DEF M
<1>7. /\ Aside(p) /\ at'[p] = s
      /\ \A q \in Procs, w \in {"link", "unwritten", "late"} : <<q, w>> \in harmed' <=> <<q, w>> \in harmed
      /\ Loses(p, M) \subseteq harmed' /\ harmed \subseteq harmed'
  BY <1>2, <1>3, <1>6, RemovesIs, ZenonT(60) DEF Cleaning, Prune
<1>8. UNCHANGED <<use, job, view, name, port, link, slave, moving, verdict, attached, seen>>
  BY DEF Prune
<1>9. /\ (Starts(p) <=> Starts(p)') /\ (Serves(p) <=> Serves(p)') /\ (IsSession(p) <=> IsSession(p)')
      /\ Stem(p)' = Stem(p) /\ Base(p)' = Base(p) /\ (Registered(p) <=> Registered(p)') /\ Names' = Names
      /\ \A q \in Procs : Named(q) => Named(q)' /\ name'[q] = name[q]
  BY <1>7, <1>8, OthersAre DEF Registered
<1>10. Own(p)'
  <2>1. PlaceOf(p)' /\ NameOf(p)' /\ UpOf(p)' /\ AttachOf(p)'
    BY <1>3, <1>5, <1>7, <1>8, <1>9
       DEF Own, PlaceOf, NameOf, UpOf, AttachOf, Starts, Serves, IsSession, Cleaning
  <2>2. ViewOf(p)'
    BY <1>5, <1>8, <1>9 DEF Own, ViewOf, Truly, RegistryInv, Types
  <2>3. ~Holds(p)' /\ ~Chosen(p)' /\ ~moving[p]
    BY <1>3, <1>5, <1>7, <1>9 DEF Holds, Chosen, Own, NameOf, PlaceOf, Starts, Serves, SessionStages, Cleaning
  <2>4. SeenOf(p)' /\ KeptOf(p)' /\ MoveOf(p)'
    BY <1>7, <1>8, <2>3 DEF SeenOf, KeptOf, MoveOf
  <2>5. LinkOf(p)'
    BY <1>3, <1>5, <1>7, <1>8, <1>9 DEF Own, LinkOf, Linking, Starts, Serves
  <2> QED BY <2>1, <2>2, <2>4, <2>5 DEF Own
<1>11. \A n \in Names : reg[n].pid # p
  BY <1>3 DEF RegistryInv, EntryInv, EntryOf, Entered, Truly, Named, SessionStages, Cleaning, Starts, Serves
<1>12. MayLink(p) => MayLink(p)'
  BY <1>3, <1>7, <1>9 DEF MayLink, Linking, Starts, Serves
<1> HIDE DEF Kinds, Own
<1> QED BY <1>2, <1>3, <1>4, <1>6, <1>8, <1>10, <1>11, <1>12, Removing DEF Cleaning

LEMMA StopKeeps ==
  ASSUME RegistryInv, NEW p \in Procs, UNCHANGED use, GoneAlready(p) \/ Stopped(p)
  PROVE  Kinds'
<1> DEFINE M == {Base(p)}
<1>1. /\ at[p] \in {"signal", "wait"} /\ at' = [at EXCEPT ![p] = "ended"]
      /\ ~Live(Target(p)) /\ reg' = Removed({Found(p)}) /\ harmed' = harmed \union Loses(p, {Found(p)})
      /\ UNCHANGED <<job, view, name, port, term, asked, verdict, link, slave, moving, attached, seen>>
  BY DEF GoneAlready, Stopped
<1>2. /\ Found(p) = Base(p) /\ Base(p) \in Names /\ Target(p) = view[p][Base(p)].pid /\ ~IsSession(p)
  BY <1>1, Targets
<1>3. Removes(p, M)
  BY <1>1, <1>2 DEF Removes, NothingSaid
<1>4. Spares(p, M)
  BY <1>1, <1>2 DEF Spares, RegistryInv, SeenInv, SeenOf
<1>5. Own(p)
  BY OwnIs
<1>6. ~Serves(p) /\ ~Starts(p)
  BY <1>2 DEF IsSession, Serves, Starts
<1> HIDE DEF M
<1>7. /\ Aside(p) /\ at'[p] = "ended"
      /\ \A q \in Procs, w \in {"link", "unwritten", "late"} : <<q, w>> \in harmed' <=> <<q, w>> \in harmed
      /\ Loses(p, M) \subseteq harmed' /\ harmed \subseteq harmed'
  BY <1>1, <1>3, <1>6, RemovesIs DEF Cleaning
<1>9. /\ ~Starts(p)' /\ ~Serves(p)' /\ ~IsSession(p)'
      /\ Stem(p)' = Stem(p) /\ Base(p)' = Base(p) /\ (Registered(p) <=> Registered(p)') /\ Names' = Names
      /\ \A q \in Procs : Named(q) => Named(q)' /\ name'[q] = name[q]
  BY <1>1, <1>2, <1>6, <1>7, OthersAre DEF Registered
<1>10. Own(p)'
  <2>1. PlaceOf(p)' /\ NameOf(p)' /\ UpOf(p)'
    BY <1>1, <1>2, <1>5, <1>6, <1>7, <1>9 DEF Own, PlaceOf, NameOf, UpOf, IsSession, Cleaning
  <2>2. ViewOf(p)'
    BY <1>1, <1>5, <1>9 DEF Own, ViewOf, Truly, RegistryInv, Types
  <2>3. ~Holds(p)' /\ ~Chosen(p)' /\ ~moving[p]
    BY <1>2, <1>5, <1>9 DEF Holds, Chosen, Own, PlaceOf
  <2>4. SeenOf(p)' /\ KeptOf(p)' /\ MoveOf(p)'
    BY <1>1, <1>7, <1>9, <2>3 DEF SeenOf, KeptOf, MoveOf
  <2>5. LinkOf(p)'
    BY <1>9 DEF LinkOf
  <2>6. AttachOf(p)'
    BY <1>1, <1>5, <1>7 DEF Own, AttachOf
  <2> QED BY <2>1, <2>2, <2>4, <2>5, <2>6 DEF Own
<1>11. \A n \in Names : reg[n].pid # p
  BY <1>2 DEF RegistryInv, EntryInv, EntryOf, Truly, Named
<1>12. ~MayLink(p)
  BY <1>1, <1>6 DEF MayLink, Linking
<1> HIDE DEF Kinds, Own
<1> QED BY <1>1, <1>3, <1>4, <1>6, <1>10, <1>11, <1>12, Removing DEF Cleaning

LEMMA LeaveKeeps ==
  ASSUME RegistryInv, NEW p \in Procs, UNCHANGED use, Clean(p) \/ Unregister(p)
  PROVE  Kinds'
<1> DEFINE M == IF Clean(p) /\ ~(job[p].cmd = "serve" /\ Registered(p)) THEN {} ELSE {name[p]}
           s == IF Clean(p) THEN "restore" ELSE "ended"
<1>1. /\ at[p] = IF Clean(p) THEN "clean" ELSE "remove"
      /\ at' = [at EXCEPT ![p] = s] /\ reg' = Removed(M) /\ harmed' = harmed \union Loses(p, M)
      /\ UNCHANGED <<job, view, name, port, link, slave, moving, attached, seen>>
      /\ Told(p, "failed") \/ UNCHANGED verdict
  <2>1. CASE Clean(p)
    BY <2>1 DEF Clean
  <2>2. CASE ~Clean(p)
    BY <2>2 DEF Unregister
  <2> QED BY <2>1, <2>2
<1>5. Own(p)
  BY OwnIs
<1>2. /\ IsSession(p) /\ (at[p] = "remove" => Starts(p)) /\ (Starts(p) \/ Serves(p))
      /\ ~(Starts(p) /\ Serves(p))
  BY <1>1, <1>5 DEF Own, PlaceOf, IsSession, Starts, Serves
<1>3. /\ Starts(p) \/ (Serves(p) /\ Registered(p)) => name[p] \in Names
      /\ M = IF (Starts(p) /\ at[p] = "clean") \/ (Serves(p) /\ ~Registered(p)) THEN {} ELSE {name[p]}
  BY <1>1, <1>2, <1>5 DEF Own, NameOf, Starts, Serves, Unregister, Clean
<1> HIDE DEF M, s
<1>4. M \subseteq Names
  BY <1>2, <1>3
<1>6. Removes(p, M)
  BY <1>1, <1>4 DEF Removes, NothingSaid, Told, RegistryInv, Types
<1>13. s = IF at[p] = "clean" THEN "restore" ELSE "ended"
  BY <1>1 DEF s
<1>7. Spares(p, M)
  <2>1. M # {} => Chosen(p)
    BY <1>1, <1>2, <1>3 DEF Chosen, SessionStages, Cleaning
  <2> QED BY <1>3, <2>1 DEF Spares, RegistryInv, SeenInv, SeenOf
<1>14. \A q \in Procs \ {p} : verdict'[q] = verdict[q]
  BY <1>1 DEF Told, RegistryInv, Types
<1>15. verdict'[p] = "up" => verdict[p] = "up"
  BY <1>6 DEF Removes, NothingSaid
<1>8. /\ Aside(p) /\ at'[p] = s
      /\ \A q \in Procs, w \in {"link", "unwritten", "late"} : <<q, w>> \in harmed' <=> <<q, w>> \in harmed
      /\ Loses(p, M) \subseteq harmed' /\ harmed \subseteq harmed'
      /\ \A q \in Procs : <<q, "name">> \in Loses(p, M) => q # p
      /\ \A n \in Names \ M : reg'[n] = reg[n]
  <2>1. at' = [at EXCEPT ![p] = s] /\ (Serves(p) => s # "remove")
        /\ s \in {"serve", "ended", "killed", "remove"} \union Cleaning
    BY <1>1, <1>13 DEF Cleaning
  <2> QED BY <1>6, <1>14, <2>1, RemovesIs
<1>9. /\ (Starts(p) <=> Starts(p)') /\ (Serves(p) <=> Serves(p)') /\ (IsSession(p) <=> IsSession(p)')
      /\ Stem(p)' = Stem(p) /\ Base(p)' = Base(p) /\ (Registered(p) <=> Registered(p)') /\ Names' = Names
      /\ \A q \in Procs : Named(q) => Named(q)' /\ name'[q] = name[q]
  BY <1>1, <1>8, OthersAre DEF Registered
<1>16. (Kept(p) <=> Kept(p)') /\ (Filed(p) <=> Filed(p)')
  BY <1>1, <1>8 DEF Kept, Filed
<1>10. Own(p)'
  <2>1. PlaceOf(p)' /\ NameOf(p)' /\ UpOf(p)' /\ AttachOf(p)'
    <3>1. PlaceOf(p)'
      BY <1>1, <1>2, <1>5, <1>8, <1>9, <1>13 DEF Own, PlaceOf, Cleaning, IsSession
    <3>2. NameOf(p)' /\ UpOf(p)'
      BY <1>1, <1>2, <1>5, <1>8, <1>9, <1>13, <1>15 DEF Own, NameOf, UpOf, Cleaning
    <3>3. attached[p] # "misled"
      BY <1>1, <1>5 DEF Own, AttachOf
    <3>4. AttachOf(p)'
      BY <1>1, <1>8, <1>13, <3>3 DEF AttachOf
    <3> QED BY <3>1, <3>2, <3>4
  <2>2. ViewOf(p)'
    BY <1>1, <1>5, <1>9 DEF Own, ViewOf, Truly, RegistryInv, Types
  <2>3. Holds(p)' => Holds(p) /\ at[p] = "clean" /\ Starts(p)
    BY <1>1, <1>2, <1>8, <1>9, <1>13 DEF Holds, SessionStages
  <2>4. Chosen(p)' => Chosen(p)
    BY <1>1, <1>2, <1>8, <1>9, <1>13 DEF Chosen, SessionStages, Cleaning
  <2>5. SeenOf(p)'
    BY <1>1, <1>5, <1>8, <1>9, <1>13, <2>4 DEF Own, SeenOf, RegistryInv, Types
  <2>6. KeptOf(p)' /\ MoveOf(p)'
    <3>1. Holds(p)' => reg' [name[p]] = reg[name[p]]
      <4>1. Holds(p)' => M = {} /\ name[p] \in Names
        BY <1>2, <1>3, <2>3
      <4> QED BY <1>8, <4>1
    <3> QED BY <1>1, <1>5, <1>16, <2>3, <3>1 DEF Own, KeptOf, MoveOf
  <2>7. LinkOf(p)'
    BY <1>1, <1>8, <1>9, <1>13 DEF LinkOf, Linking
  <2> QED BY <2>1, <2>2, <2>5, <2>6, <2>7 DEF Own
<1>11. \A n \in Names \ M : reg[n].pid = p => Entered(p)'
  <2> SUFFICES ASSUME NEW n \in Names \ M, reg[n].pid = p PROVE Entered(p)'
    OBVIOUS
  <2>1. name[p] = n /\ Entered(p)
    BY DEF RegistryInv, EntryInv, EntryOf, Truly
  <2>2. Registered(p)
    BY <2>1 DEF Registered, Names
  <2>3. Starts(p) /\ at[p] = "clean"
    BY <1>2, <1>3, <2>1, <2>2
  <2> QED BY <1>8, <1>9, <1>13, <2>3 DEF Entered, SessionStages
<1>12. MayLink(p) => MayLink(p)'
  BY <1>1, <1>2, <1>8, <1>9, <1>13 DEF MayLink, Linking
<1> HIDE DEF Kinds, Own
<1> QED BY <1>1, <1>2, <1>6, <1>7, <1>10, <1>11, <1>12, <1>13, <1>14, Removing DEF Cleaning

\* What p does beside going where it goes.
LEMMA AsideIs ==
  ASSUME RegistryInv, NEW p \in Procs, NEW s, at' = [at EXCEPT ![p] = s], UNCHANGED <<use, job>>,
         harmed \subseteq harmed',
         \A q \in Procs \ {p} :
            /\ name'[q] = name[q] /\ port'[q] = port[q] /\ view'[q] = view[q] /\ moving'[q] = moving[q]
            /\ seen'[q] = seen[q] /\ attached'[q] = attached[q] /\ verdict'[q] = verdict[q]
            /\ slave'[q] = slave[q],
         Named(p) => name'[p] = name[p],
         Named(p) /\ Serves(p) => s \in {"serve", "ended", "killed"} \union Cleaning
  PROVE  /\ Aside(p) /\ at'[p] = s /\ Names' = Names
         /\ (Starts(p) <=> Starts(p)') /\ (Serves(p) <=> Serves(p)') /\ (IsSession(p) <=> IsSession(p)')
         /\ Stem(p)' = Stem(p) /\ Base(p)' = Base(p)
         /\ \A q \in Procs : Named(q) => Named(q)' /\ name'[q] = name[q]
<1>1. DOMAIN at = Procs
  BY DEF RegistryInv, Types
<1>2. at'[p] = s /\ \A q \in Procs \ {p} : at'[q] = at[q]
  BY <1>1
<1>3. (IsSession(p) <=> IsSession(p)') /\ (Serves(p) <=> Serves(p)')
  BY DEF IsSession, Serves
<1>4. Named(p) => Named(p)'
  BY <1>2, <1>3 DEF Named
<1>5. Aside(p)
  BY <1>2, <1>4 DEF Aside
<1> QED BY <1>2, <1>5, OthersAre

\* No file is written, and no link is changed.
LEMMA Leaving ==
  ASSUME RegistryInv, NEW p \in Procs, Aside(p), reg' = reg, link' = link,
         Own(p)', slave'[p] = slave[p] \/ \A b \in Bases : link[b].by # p,
         \A n \in Names : reg[n].pid = p => EntryOf(n)',
         MayLink(p) => MayLink(p)'
  PROVE  Kinds'
<1>1. Loses(p, {}) = {} /\ Spares(p, {})
  BY DEF Loses, Spares
<1>2. /\ Stem(p)' = Stem(p) /\ (IsSession(p) <=> IsSession(p)')
  BY OthersAre
<1>3. ASSUME NEW b \in Bases, link'[b] # link[b] \/ link[b].by = p PROVE LinkTo(b)'
  <2>1. IsSession(p) /\ Stem(p) = b /\ MayLink(p) /\ link[b].slave = slave[p] /\ slave[p] # 0
    BY <1>3 DEF RegistryInv, LinkInv, LinkTo
  <2> QED BY <1>2, <1>3, <2>1 DEF LinkTo
<1> HIDE DEF Kinds, Own, Aside
<1> QED BY <1>1, <1>3, Altering

Sets(p) ==
  \/ at[p] = "write" /\ (Starts(p) \/ Serves(p))
  \/ at[p] = "ready" /\ Starts(p)

\* A session writes its own file.
LEMMA Writing ==
  ASSUME RegistryInv, NEW p \in Procs, Sets(p), NEW bound \in BOOLEAN, NEW s,
         UNCHANGED <<use, job, view, name, port, link, slave, moving, attached, seen>>,
         reg' = [reg EXCEPT ![name[p]] = Entry(p, bound)], harmed' = harmed \union Loses(p, {name[p]}),
         at' = [at EXCEPT ![p] = s], s \in {"serve", "clean"} \/ (s = "retain" /\ Starts(p) /\ at[p] = "write"),
         bound \/ (verdict'[p] # "up" /\ s = "retain"),
         \A q \in Procs \ {p} : verdict'[q] = verdict[q], s = "retain" => verdict' = verdict,
         s = "retain" \/ at[p] = "ready" \/ Serves(p)
  PROVE  Kinds'
<1>1. Own(p)
  BY OwnIs
<1>2. /\ Chosen(p) /\ name[p] \in Names /\ ~moving[p] /\ IsSession(p) /\ attached[p] # "misled"
      /\ ~(Starts(p) /\ Serves(p))
  BY <1>1 DEF Sets, Chosen, SessionStages, Cleaning, Own, NameOf, PlaceOf, AttachOf, Starts, Serves, IsSession
<1>3. /\ Aside(p) /\ at'[p] = s /\ Names' = Names
      /\ (Starts(p) <=> Starts(p)') /\ (Serves(p) <=> Serves(p)') /\ (IsSession(p) <=> IsSession(p)')
      /\ Stem(p)' = Stem(p) /\ Base(p)' = Base(p)
      /\ \A q \in Procs : Named(q) => Named(q)' /\ name'[q] = name[q]
  <2>1. Named(p) /\ Serves(p) => s \in {"serve", "ended", "killed"} \union Cleaning
    BY <1>2 DEF Cleaning
  <2>2. harmed \subseteq harmed'
    OBVIOUS
  <2> QED BY <2>1, <2>2, AsideIs
<1>4. DOMAIN reg = Names
  BY DEF RegistryInv, Types
<1>5. /\ reg'[name[p]] = Entry(p, bound) /\ \A n \in Names \ {name[p]} : reg'[n] = reg[n]
  BY <1>2, <1>4
<1>6. Spares(p, {name[p]})
  BY <1>2 DEF Spares, RegistryInv, SeenInv, SeenOf
<1>7. Registered(p) <=> Registered(p)'
  BY DEF Registered
<1>8. Named(p)'
  BY <1>2, <1>3 DEF Named, Cleaning
<1>9. EntryOf(name[p])'
  <2>1. Truly(name[p], Entry(p, bound))'
    BY <1>8 DEF Truly, Entry
  <2>2. Entered(p)'
    BY <1>2, <1>3 DEF Entered, SessionStages, Starts, Serves, IsSession
  <2>3. Tells(Entry(p, bound))'
    BY <1>2, <1>3 DEF Tells, Entry
  <2> QED BY <1>5, <2>1, <2>2, <2>3 DEF EntryOf, Entry, Truly, Tells
<1>10. \A n \in Names : reg[n].pid = p => n = name[p]
  BY DEF RegistryInv, EntryInv, EntryOf, Truly
<1>11. ASSUME NEW b \in Bases, link'[b] # link[b] \/ link[b].by = p PROVE LinkTo(b)'
  <2>1. Stem(p) = b /\ MayLink(p) /\ link[b].slave = slave[p] /\ slave[p] # 0
    BY <1>11 DEF RegistryInv, LinkInv, LinkTo
  <2>2. MayLink(p)'
    BY <1>2, <1>3, <2>1 DEF MayLink, Linking, Sets, Starts, Serves
  <2> QED BY <1>2, <1>3, <1>11, <2>1, <2>2 DEF LinkTo
<1>12. Own(p)'
  <2>1. PlaceOf(p)' /\ NameOf(p)' /\ AttachOf(p)'
    BY <1>1, <1>2, <1>3, <1>7 DEF Own, PlaceOf, NameOf, AttachOf, Starts, Serves, IsSession, Cleaning
  <2>2. ViewOf(p)'
    BY <1>1, <1>3 DEF Own, ViewOf, Truly, RegistryInv, Types
  <2>3. UpOf(p)'
    BY <1>1, <1>2, <1>3 DEF Own, UpOf, Sets, Cleaning
  <2>4. SeenOf(p)'
    <3>1. \A q \in seen[p] \ {p} : Named(q)' /\ name'[q] # name'[p]
      BY <1>1, <1>2, <1>3 DEF Own, SeenOf, RegistryInv, Types
    <3> QED BY <1>2, <1>3, <3>1 DEF SeenOf
  <2>5. KeptOf(p)' /\ MoveOf(p)'
    BY <1>2, <1>5 DEF KeptOf, MoveOf, Entry
  <2>6. LinkOf(p)'
    <3>1. slave[p] = 0 \/ s # "retain"
      BY <1>1 DEF Own, LinkOf
    <3>2. Linking(p)' => Linking(p)
      BY <1>2, <1>3 DEF Linking, Sets, Starts, Serves
    <3> QED BY <1>1, <1>3, <3>1, <3>2 DEF Own, LinkOf
  <2> QED BY <2>1, <2>2, <2>3, <2>4, <2>5, <2>6 DEF Own
<1> HIDE DEF Kinds, Own, Aside
<1>13. {name[p]} \in SUBSET Names
  BY <1>2
<1>14. Loses(p, {name[p]}) \subseteq harmed'
  OBVIOUS
<1> QED BY <1>3, <1>5, <1>6, <1>9, <1>10, <1>11, <1>12, <1>13, <1>14, Altering

LEMMA WriteKeeps ==
  ASSUME RegistryInv, NEW p \in Procs, UNCHANGED use, WriteUnbound(p) \/ WriteServed(p) \/ Ready(p)
  PROVE  Kinds'
<1>1. Own(p)
  BY OwnIs
<1>2. CASE WriteUnbound(p)
  <2>1. verdict[p] # "up"
    BY <1>1, <1>2 DEF Own, UpOf, WriteUnbound, Cleaning
  <2>2. Sets(p) /\ Starts(p)
    BY <1>2 DEF Sets, WriteUnbound, Starts
  <2>3. /\ reg' = [reg EXCEPT ![name[p]] = Entry(p, FALSE)] /\ harmed' = harmed \union Loses(p, {name[p]})
        /\ at' = [at EXCEPT ![p] = "retain"] /\ at[p] = "write"
        /\ UNCHANGED <<use, job, view, name, port, verdict, link, slave, moving, attached, seen>>
    BY <1>2 DEF WriteUnbound, Write
  <2> HIDE DEF Kinds
  <2> QED BY <2>1, <2>2, <2>3, Writing
<1>3. CASE WriteServed(p) \/ Ready(p)
  <2>1. Sets(p) /\ (at[p] = "ready" \/ Serves(p))
    BY <1>1, <1>3 DEF Sets, WriteServed, Ready, Starts, Serves, Own, PlaceOf, IsSession
  <2>2. /\ reg' = [reg EXCEPT ![name[p]] = Entry(p, TRUE)] /\ harmed' = harmed \union Loses(p, {name[p]})
        /\ at' = [at EXCEPT ![p] = SetUp(p)]
        /\ UNCHANGED <<use, job, view, name, port, link, slave, moving, attached, seen>>
    BY <1>3 DEF WriteServed, Ready, Write
  <2>3. \A q \in Procs \ {p} : verdict'[q] = verdict[q]
    BY <1>3 DEF WriteServed, Ready, Told, RegistryInv, Types
  <2>4. SetUp(p) \in {"serve", "clean"}
    BY DEF SetUp
  <2>5. SetUp(p) # "retain"
    BY <2>4
  <2> HIDE DEF Kinds
  <2> QED BY <2>1, <2>2, <2>3, <2>4, <2>5, Writing
<1> QED BY <1>2, <1>3

LEMMA NotWrittenKeeps ==
  ASSUME RegistryInv, NEW p \in Procs, UNCHANGED use, ReadyUnwritten(p) \/ NotRegistered(p)
  PROVE  Kinds'
<1>1. Own(p)
  BY OwnIs
<1>2. CASE ReadyUnwritten(p)
  <2>1. /\ at[p] = "ready" /\ at' = [at EXCEPT ![p] = SetUp(p)] /\ SetUp(p) \in {"serve", "clean"}
        /\ harmed' = harmed \union {<<p, "unwritten">>}
        /\ \A q \in Procs \ {p} : verdict'[q] = verdict[q]
        /\ UNCHANGED <<use, job, view, name, port, reg, link, slave, moving, attached, seen>>
    BY <1>2 DEF ReadyUnwritten, Told, SetUp, RegistryInv, Types
  <2>2. Starts(p) /\ ~Serves(p) /\ IsSession(p) /\ ~moving[p] /\ attached[p] # "misled"
    BY <1>1, <2>1 DEF Own, PlaceOf, AttachOf, Starts, Serves, IsSession, Cleaning
  <2>3. /\ Aside(p) /\ at'[p] \in {"serve", "clean"} /\ Names' = Names
        /\ Starts(p)' /\ ~Serves(p)' /\ IsSession(p)'
        /\ Stem(p)' = Stem(p) /\ Base(p)' = Base(p)
        /\ \A q \in Procs : Named(q) => Named(q)' /\ name'[q] = name[q]
    BY <2>1, <2>2, AsideIs
  <2>4. Holds(p) /\ (Kept(p)' => Kept(p)) /\ ~Filed(p)' /\ Chosen(p) /\ Linking(p)
    BY <2>1, <2>2 DEF Holds, Chosen, Kept, Filed, Linking, SessionStages
  <2>5. Own(p)'
    <3>1. PlaceOf(p)' /\ NameOf(p)' /\ UpOf(p)' /\ AttachOf(p)'
      BY <1>1, <2>1, <2>2, <2>3 DEF Own, PlaceOf, NameOf, UpOf, AttachOf, Cleaning
    <3>2. ViewOf(p)'
      BY <1>1, <2>1, <2>3 DEF Own, ViewOf, Truly, RegistryInv, Types
    <3>3. SeenOf(p)'
      <4>1. \A q \in seen[p] \ {p} : Named(q)' /\ name'[q] # name'[p]
        BY <1>1, <2>1, <2>3, <2>4 DEF Own, SeenOf, RegistryInv, Types
      <4> QED BY <2>1, <2>3, <4>1 DEF SeenOf
    <3>4. KeptOf(p)' /\ MoveOf(p)'
      BY <1>1, <2>1, <2>2, <2>4 DEF Own, KeptOf, MoveOf
    <3>5. LinkOf(p)'
      BY <1>1, <2>1, <2>2, <2>3, <2>4 DEF Own, LinkOf
    <3> QED BY <3>1, <3>2, <3>3, <3>4, <3>5 DEF Own
  <2>6. ASSUME NEW n \in Names, reg[n].pid = p PROVE EntryOf(n)'
    <3>1. Truly(n, reg[n])
      BY <2>6 DEF RegistryInv, EntryInv, EntryOf
    <3>2. Entered(p)' /\ Truly(n, reg[n])'
      BY <2>1, <2>3, <2>6, <3>1 DEF Entered, Truly, SessionStages
    <3> QED BY <2>1, <2>6, <3>2 DEF EntryOf, Tells
  <2>7. MayLink(p)'
    BY <2>3 DEF MayLink, Linking
  <2> HIDE DEF Kinds, Own, Aside
  <2> QED BY <2>1, <2>3, <2>5, <2>6, <2>7, Leaving
<1>3. CASE NotRegistered(p)
  <2>1. /\ at[p] = "write" /\ Serves(p) /\ at' = [at EXCEPT ![p] = SetUp(p)] /\ SetUp(p) \in {"serve", "clean"}
        /\ name' = [name EXCEPT ![p] = <<job[p].base, 0>>]
        /\ UNCHANGED <<use, job, view, port, verdict, reg, link, slave, moving, attached, seen, harmed>>
    BY <1>3 DEF NotRegistered, SetUp, Serves
  <2>2. ~Starts(p) /\ IsSession(p) /\ ~moving[p] /\ attached[p] # "misled" /\ verdict[p] # "up"
    BY <1>1, <2>1 DEF Own, PlaceOf, AttachOf, UpOf, Starts, Serves, IsSession, Cleaning
  <2>3. ~Named(p)
    BY <2>1 DEF Named, Cleaning
  <2>4. /\ name'[p] = <<job[p].base, 0>> /\ \A q \in Procs \ {p} : name'[q] = name[q]
    BY <2>1 DEF RegistryInv, Types
  <2>5. /\ Aside(p) /\ at'[p] \in {"serve", "clean"} /\ Names' = Names
        /\ ~Starts(p)' /\ Serves(p)' /\ IsSession(p)'
        /\ Stem(p)' = Stem(p) /\ Base(p)' = Base(p)
        /\ \A q \in Procs : Named(q) => Named(q)' /\ name'[q] = name[q]
    <3>1. Aside(p) /\ at'[p] \in {"serve", "clean"}
      BY <2>1, <2>3, <2>4, AsideIs
    <3>2. (Starts(p) <=> Starts(p)') /\ (Serves(p) <=> Serves(p)')
      BY <2>1 DEF Starts, Serves
    <3>3. (IsSession(p) <=> IsSession(p)') /\ Stem(p)' = Stem(p) /\ Base(p)' = Base(p) /\ Names' = Names
      BY <2>1 DEF IsSession, Stem, Base, Names
    <3>4. \A q \in Procs : Named(q) => Named(q)' /\ name'[q] = name[q]
      BY <3>1, OthersAre
    <3> QED BY <2>1, <2>2, <3>1, <3>2, <3>3, <3>4
  <2>6. ~Registered(p)'
    BY <2>4 DEF Registered
  <2>7. ~Holds(p)' /\ ~Chosen(p)'
    BY <2>5, <2>6 DEF Holds, Chosen
  <2>8. Own(p)'
    <3>1. PlaceOf(p)' /\ NameOf(p)' /\ UpOf(p)' /\ AttachOf(p)'
      BY <1>1, <2>1, <2>2, <2>4, <2>5, <2>6 DEF Own, PlaceOf, NameOf, UpOf, AttachOf, Cleaning, Serves
    <3>2. ViewOf(p)'
      BY <1>1, <2>1, <2>5 DEF Own, ViewOf, Truly, RegistryInv, Types
    <3>3. SeenOf(p)' /\ KeptOf(p)' /\ MoveOf(p)'
      BY <2>1, <2>2, <2>5, <2>7 DEF SeenOf, KeptOf, MoveOf
    <3>4. Linking(p)
      BY <2>1 DEF Linking
    <3>5. LinkOf(p)'
      BY <1>1, <2>1, <2>2, <2>5, <3>4 DEF Own, LinkOf
    <3> QED BY <3>1, <3>2, <3>3, <3>5 DEF Own
  <2>9. \A n \in Names : reg[n].pid # p
    BY <2>3 DEF RegistryInv, EntryInv, EntryOf, Truly
  <2>10. MayLink(p)'
    BY <2>5 DEF MayLink, Linking
  <2> HIDE DEF Kinds, Own, Aside
  <2> QED BY <2>1, <2>5, <2>8, <2>9, <2>10, Leaving
<1> QED BY <1>2, <1>3

\* A move that is being listed, or that could not be written.
LEMMA MoveIsKept ==
  ASSUME RegistryInv, NEW p \in Procs, UNCHANGED use, MoveUnwritten(p) \/ \E new \in Ports : MoveBegins(p, new)
  PROVE  Kinds'
<1>1. Own(p) /\ DOMAIN at = Procs
  BY OwnIs DEF RegistryInv, Types
<1>2. /\ UNCHANGED <<use, job, at, name, verdict, reg, link, slave, attached, seen>>
      /\ \/ harmed' = harmed /\ moving' = [moving EXCEPT ![p] = TRUE] /\ view' = [view EXCEPT ![p] = Files({p})]
            /\ at[p] = "serve" /\ \E new \in Ports : port' = [port EXCEPT ![p] = new]
         \/ harmed' = harmed \union {<<p, "unwritten">>} /\ moving' = [moving EXCEPT ![p] = FALSE] /\ moving[p]
            /\ UNCHANGED <<view, port>>
  BY DEF MoveUnwritten, MoveBegins
<1>3. /\ IsSession(p) /\ attached[p] # "misled"
      /\ at[p] \in {"serve", "remove", "ended", "killed"} \union Cleaning
  BY <1>1, <1>2 DEF Own, PlaceOf, AttachOf, IsSession
<1>4. /\ \A q \in Procs \ {p} : port'[q] = port[q] /\ view'[q] = view[q] /\ moving'[q] = moving[q]
      /\ harmed \subseteq harmed'
  BY <1>2 DEF RegistryInv, Types
<1>5. Aside(p)
  BY <1>2, <1>4 DEF Aside, Named, IsSession, Serves
<1>6. /\ (Starts(p) <=> Starts(p)') /\ (Serves(p) <=> Serves(p)') /\ (IsSession(p) <=> IsSession(p)')
      /\ (Registered(p) <=> Registered(p)') /\ (Holds(p) <=> Holds(p)') /\ (Chosen(p) <=> Chosen(p)')
      /\ (Linking(p) <=> Linking(p)') /\ (MayLink(p) <=> MayLink(p)') /\ (Entered(p) => Entered(p)')
      /\ (Kept(p) <=> Kept(p)') /\ (Filed(p)' => Filed(p)) /\ Names' = Names
      /\ \A q \in Procs : Named(q) => Named(q)' /\ name'[q] = name[q]
  <2>1. (Starts(p) <=> Starts(p)') /\ (Serves(p) <=> Serves(p)') /\ (IsSession(p) <=> IsSession(p)')
        /\ (Registered(p) <=> Registered(p)') /\ Names' = Names
    BY <1>2 DEF Starts, Serves, IsSession, Registered, Names
  <2>2. (Holds(p) <=> Holds(p)') /\ (Chosen(p) <=> Chosen(p)') /\ (Linking(p) <=> Linking(p)')
    BY <1>2, <2>1 DEF Holds, Chosen, Linking
  <2>3. (MayLink(p) <=> MayLink(p)') /\ (Entered(p) => Entered(p)')
    BY <1>2, <1>4, <2>1, <2>2 DEF MayLink, Entered
  <2>4. (Kept(p) <=> Kept(p)') /\ (Filed(p)' => Filed(p))
    BY <1>2 DEF Kept, Filed
  <2>5. \A q \in Procs : Named(q) => Named(q)' /\ name'[q] = name[q]
    BY <1>5, OthersAre
  <2> QED BY <2>1, <2>2, <2>3, <2>4, <2>5
<1>7. ASSUME NEW n \in Names, reg[n].pid = p PROVE Truly(n, reg[n]) /\ Tells(reg[n]) /\ EntryOf(n)'
  <2>1. Truly(n, reg[n]) /\ Entered(p) /\ Tells(reg[n])
    BY <1>7 DEF RegistryInv, EntryInv, EntryOf
  <2>2. Truly(n, reg[n])' /\ Entered(p)'
    BY <1>2, <1>6, <1>7, <2>1 DEF Truly
  <2>3. Tells(reg[n])'
    BY <1>2, <1>4, <1>6, <1>7, <2>1 DEF Tells
  <2> QED BY <1>2, <1>7, <2>1, <2>2, <2>3 DEF EntryOf
<1>8. Own(p)'
  <2>1. PlaceOf(p)' /\ NameOf(p)' /\ UpOf(p)' /\ AttachOf(p)' /\ LinkOf(p)' /\ KeptOf(p)'
    <3>1. PlaceOf(p)'
      BY <1>1, <1>2, <1>3, <1>6 DEF Own, PlaceOf
    <3>2. NameOf(p)' /\ UpOf(p)'
      BY <1>1, <1>2, <1>6 DEF Own, NameOf, UpOf, Base
    <3>3. AttachOf(p)'
      BY <1>2, <1>3, Zenon DEF AttachOf, Cleaning
    <3>4. LinkOf(p)' /\ KeptOf(p)'
      BY <1>1, <1>2, <1>4, <1>6 DEF Own, LinkOf, KeptOf, Stem
    <3> QED BY <3>1, <3>2, <3>3, <3>4
  <2>2. CASE harmed' = harmed /\ moving' = [moving EXCEPT ![p] = TRUE]
             /\ view' = [view EXCEPT ![p] = Files({p})]
             /\ at[p] = "serve"
    <3>1. PICK f : f = Files({p}) /\ view'[p] = f
      BY <2>2 DEF RegistryInv, Types
    <3>2. /\ DOMAIN f \subseteq Names /\ \A n \in DOMAIN f : f[n] = reg[n] /\ reg[n].pid = p
          /\ \A n \in Names : reg[n].pid = p => n \in DOMAIN f
      BY <3>1, FilesAre DEF RegistryInv
    <3>3. \A n \in DOMAIN f : Truly(n, f[n]) /\ Tells(f[n])
      BY <1>7, <3>2
    <3>4. ViewOf(p)'
      <4>1. \A n \in DOMAIN f : Named(p)' /\ name'[p] = n
        BY <1>6, <3>2, <3>3 DEF Truly
      <4>2. \A n \in DOMAIN view'[p] : view'[p][n].pid = p /\ Named(p)' /\ name'[p] = n
        BY <3>1, <3>2, <4>1
      <4> QED BY <4>2 DEF ViewOf, Truly
    <3>5. SeenOf(p)'
      BY <1>1, <1>2, <1>6, <2>2 DEF Own, SeenOf, RegistryInv, Types
    <3>6. moving'[p] = TRUE
      BY <2>2 DEF RegistryInv, Types
    <3>7. \A n \in DOMAIN f : f[n].pid = p /\ (f[n].bound \/ ~Filed(p)')
      BY <2>2, <3>2, <3>3 DEF Tells, Filed
    <3>8. Holds(p)' /\ Kept(p)' => name'[p] \in DOMAIN f
      <4> SUFFICES ASSUME Holds(p), Kept(p) PROVE name[p] \in DOMAIN f
        BY <1>2, <1>6
      <4>1. name[p] \in Names /\ reg[name[p]].pid = p
        BY HoldsItsFile
      <4> QED BY <3>2, <4>1
    <3>9. MoveOf(p)'
      BY <3>1, <3>6, <3>7, <3>8 DEF MoveOf
    <3> QED BY <2>1, <3>4, <3>5, <3>9 DEF Own
  <2>3. CASE harmed' = harmed \union {<<p, "unwritten">>} /\ moving' = [moving EXCEPT ![p] = FALSE]
             /\ UNCHANGED <<view, port>>
    <3>1. ViewOf(p)'
      BY <1>1, <1>6, <2>3 DEF Own, ViewOf, Truly, RegistryInv, Types
    <3>2. SeenOf(p)'
      BY <1>1, <1>2, <1>6, <2>3 DEF Own, SeenOf, RegistryInv, Types, Base
    <3>3. MoveOf(p)'
      BY <2>3 DEF MoveOf, Filed, RegistryInv, Types
    <3> QED BY <2>1, <3>1, <3>2, <3>3 DEF Own
  <2> QED BY <1>2, <2>2, <2>3
<1> HIDE DEF Kinds, Own, Aside
<1> QED BY <1>2, <1>5, <1>6, <1>7, <1>8, Leaving

\* And written: over its own file, or late.
LEMMA MoveWritesKeeps ==
  ASSUME RegistryInv, NEW p \in Procs, UNCHANGED use, MoveWrites(p)
  PROVE  Kinds'
<1>1. Own(p) /\ DOMAIN at = Procs
  BY OwnIs DEF RegistryInv, Types
<1>2. PICK M : M = DOMAIN view[p]
  OBVIOUS
<1>3. /\ UNCHANGED <<use, job, at, name, verdict, view, port, link, slave, attached, seen>>
      /\ moving[p] /\ Alive(p) /\ moving' = [moving EXCEPT ![p] = FALSE]
      /\ reg' = [n \in Names |-> IF n \in M THEN [view[p][n] EXCEPT !.port = port[p]] ELSE reg[n]]
      /\ harmed' = harmed \union Loses(p, M) \union
           (IF job[p].cmd = "serve" /\ at[p] \notin {"serve", "clean"} /\ M # {} THEN {<<p, "late">>} ELSE {})
  BY <1>2 DEF MoveWrites
<1>4. IsSession(p) /\ attached[p] # "misled" /\ at[p] \in {"serve", "remove"} \union Cleaning
      /\ (Serves(p) => at[p] # "remove") /\ (Starts(p) \/ Serves(p))
  BY <1>1, <1>3 DEF Own, PlaceOf, AttachOf, IsSession, Alive, Starts, Serves
<1>5. Aside(p)
  <2>1. \A q \in Procs \ {p} : moving'[q] = moving[q]
    BY <1>3 DEF RegistryInv, Types
  <2>2. harmed \subseteq harmed'
    BY <1>3
  <2> QED BY <1>3, <2>1, <2>2 DEF Aside, Named, IsSession, Serves
<1>6. /\ (Starts(p) <=> Starts(p)') /\ (Serves(p) <=> Serves(p)') /\ (IsSession(p) <=> IsSession(p)')
      /\ (Registered(p) <=> Registered(p)') /\ (Holds(p) <=> Holds(p)') /\ (Chosen(p) <=> Chosen(p)')
      /\ (Linking(p) <=> Linking(p)') /\ (MayLink(p) <=> MayLink(p)') /\ (Entered(p) => Entered(p)')
      /\ (Kept(p)' => Kept(p)) /\ (Filed(p)' => Filed(p)) /\ Names' = Names
      /\ \A q \in Procs : Named(q) => Named(q)' /\ name'[q] = name[q]
  <2>1. (Starts(p) <=> Starts(p)') /\ (Serves(p) <=> Serves(p)') /\ (IsSession(p) <=> IsSession(p)')
        /\ (Registered(p) <=> Registered(p)') /\ Names' = Names
    BY <1>3 DEF Starts, Serves, IsSession, Registered, Names
  <2>2. (Holds(p) <=> Holds(p)') /\ (Chosen(p) <=> Chosen(p)') /\ (Linking(p) <=> Linking(p)')
    BY <1>3, <2>1 DEF Holds, Chosen, Linking
  <2>3. (MayLink(p) <=> MayLink(p)') /\ (Entered(p) => Entered(p)')
    BY <1>3, <2>1, <2>2 DEF MayLink, Entered
  <2>4. \A q \in Procs : Named(q) => Named(q)' /\ name'[q] = name[q]
    BY <1>5, OthersAre
  <2> QED BY <1>5, <2>1, <2>2, <2>3, <2>4, OthersAre
<1>7. \A n \in M : /\ n \in Names /\ view[p][n] \in [pid : Procs, port : Ports, bound : BOOLEAN]
                   /\ view[p][n].pid = p /\ (view[p][n].bound \/ ~Filed(p)) /\ Named(p) /\ name[p] = n
  BY <1>1, <1>2, <1>3 DEF Own, MoveOf, ViewOf, Truly, RegistryInv, Types
<1>8. /\ \A n \in M : reg'[n] = [view[p][n] EXCEPT !.port = port[p]]
      /\ \A n \in Names \ M : reg'[n] = reg[n]
  BY <1>3, <1>7
<1>9. \A n \in M : reg'[n].pid = p /\ reg'[n].port = port[p] /\ reg'[n].bound = view[p][n].bound
  <2> SUFFICES ASSUME NEW n \in M
               PROVE  reg'[n].pid = p /\ reg'[n].port = port[p] /\ reg'[n].bound = view[p][n].bound
    OBVIOUS
  <2>1. PICK e \in [pid : Procs, port : Ports, bound : BOOLEAN] : e = view[p][n]
    BY <1>7
  <2>2. reg'[n] = [e EXCEPT !.port = port[p]]
    BY <1>8, <2>1
  <2> QED BY <1>7, <2>1, <2>2
<1>10. Spares(p, M)
  <2> SUFFICES ASSUME NEW q \in seen[p] \ {p}, name[q] \in M PROVE FALSE
    BY DEF Spares
  <2>1. name[p] = name[q] /\ name[p] \in Names
    BY <1>7
  <2>2. Registered(p)
    BY <2>1 DEF Registered, Names
  <2>3. Chosen(p)
    BY <1>4, <2>2 DEF Chosen, SessionStages, Cleaning
  <2> QED BY <1>1, <2>1, <2>3 DEF Own, SeenOf
<1>11. ASSUME NEW n \in Names, n \in M \/ reg[n].pid = p PROVE EntryOf(n)'
  <2>1. CASE n \in M
    <3>1. Named(p)' /\ name'[p] = n
      BY <1>6, <1>7, <2>1
    <3>2. Entered(p)'
      <4>1. CASE Starts(p)
        BY <1>3, <1>4, <1>6, <4>1 DEF Entered, SessionStages, Cleaning
      <4>2. CASE Serves(p)
        BY <1>3, <1>6, <2>1, <4>2 DEF Entered, Serves
      <4> QED BY <1>4, <4>1, <4>2
    <3>3. reg'[n].bound \/ ~Filed(p)'
      BY <1>6, <1>7, <1>9, <2>1
    <3>4. Tells(reg[n])'
      BY <1>9, <2>1, <3>3 DEF Tells, Filed
    <3>5. Truly(n, reg[n])' /\ Entered(reg[n].pid)'
      BY <1>9, <2>1, <3>1, <3>2 DEF Truly
    <3> QED BY <3>4, <3>5 DEF EntryOf
  <2>2. CASE n \notin M /\ reg[n].pid = p
    <3>1. Truly(n, reg[n]) /\ Entered(p) /\ Tells(reg[n]) /\ reg'[n] = reg[n]
      BY <1>8, <2>2 DEF RegistryInv, EntryInv, EntryOf
    <3>2. Truly(n, reg[n])' /\ Entered(p)'
      BY <1>6, <2>2, <3>1 DEF Truly
    <3>3. Tells(reg[n])'
      BY <1>3, <1>6, <2>2, <3>1 DEF Tells
    <3> QED BY <2>2, <3>1, <3>2, <3>3 DEF EntryOf
  <2> QED BY <1>11, <2>1, <2>2
<1>12. Own(p)'
  <2>1. PlaceOf(p)' /\ NameOf(p)' /\ UpOf(p)' /\ AttachOf(p)' /\ LinkOf(p)'
    <3>1. PlaceOf(p)' /\ NameOf(p)' /\ UpOf(p)'
      <4>1. moving'[p] = FALSE
        BY <1>3 DEF RegistryInv, Types
      <4> QED BY <1>1, <1>3, <1>6, <4>1 DEF Own, PlaceOf, NameOf, UpOf, Base
    <3>2. AttachOf(p)'
      BY <1>3, <1>4 DEF AttachOf, Cleaning
    <3>3. LinkOf(p)'
      BY <1>1, <1>3, <1>6 DEF Own, LinkOf, Stem
    <3> QED BY <3>1, <3>2, <3>3
  <2>2. ViewOf(p)' /\ SeenOf(p)'
    BY <1>1, <1>3, <1>6 DEF Own, ViewOf, Truly, SeenOf, RegistryInv, Types, Base
  <2>3. ASSUME Holds(p)', Kept(p)' PROVE reg'[name[p]].pid = p /\ reg'[name[p]].port = port[p]
    <3>1. name[p] \in M
      BY <1>1, <1>2, <1>3, <1>6, <2>3 DEF Own, MoveOf
    <3> QED BY <1>9, <3>1
  <2>4. KeptOf(p)' /\ MoveOf(p)'
    <3>1. moving'[p] = FALSE
      BY <1>3 DEF RegistryInv, Types
    <3> QED BY <1>3, <2>3, <3>1 DEF KeptOf, MoveOf
  <2> QED BY <2>1, <2>2, <2>4 DEF Own
<1>13. ASSUME NEW b \in Bases, link'[b] # link[b] \/ link[b].by = p PROVE LinkTo(b)'
  <2>1. Stem(p) = b /\ MayLink(p) /\ link[b].slave = slave[p] /\ slave[p] # 0
    BY <1>3, <1>13 DEF RegistryInv, LinkInv, LinkTo
  <2> QED BY <1>3, <1>4, <1>6, <1>13, <2>1 DEF LinkTo, Stem
<1>14. M \in SUBSET Names /\ Loses(p, M) \subseteq harmed'
  BY <1>3, <1>7
<1> HIDE DEF Kinds, Own, Aside
<1> QED BY <1>3, <1>5, <1>8, <1>10, <1>11, <1>12, <1>13, <1>14, Altering

\* Whoever is in a listing has the name it is listed by.
LEMMA ListedAre ==
  ASSUME RegistryInv
  PROVE  \A f \in {Listed, Everything} :
           /\ \A n \in DOMAIN f :
                Truly(n, f[n]) /\ Tells(reg[n]) /\ f[n] = reg[n] /\ n \in Names /\ f[n].pid \in Procs
           /\ \A q \in PidsOf(f) : q \in Procs /\ Named(q) /\ name[q] \in DOMAIN f /\ f[name[q]].pid = q
<1> SUFFICES ASSUME NEW f \in {Listed, Everything}
             PROVE  /\ \A n \in DOMAIN f : /\ Truly(n, f[n]) /\ Tells(reg[n]) /\ f[n] = reg[n] /\ n \in Names
                                           /\ f[n].pid \in Procs
                    /\ \A q \in PidsOf(f) :
                         q \in Procs /\ Named(q) /\ name[q] \in DOMAIN f /\ f[name[q]].pid = q
  OBVIOUS
<1>1. /\ DOMAIN f \subseteq Names
      /\ \A n \in DOMAIN f : f[n] = reg[n] /\ reg[n] \in [pid : Procs, port : Ports, bound : BOOLEAN]
      /\ PidsOf(f) = {reg[n].pid : n \in DOMAIN f} /\ PidsOf(f) \subseteq Procs
  BY Listings DEF RegistryInv
<1>2. \A n \in DOMAIN f : Truly(n, f[n]) /\ Tells(reg[n]) /\ f[n] = reg[n] /\ n \in Names /\ f[n].pid \in Procs
  BY <1>1 DEF RegistryInv, EntryInv, EntryOf
<1>3. ASSUME NEW q \in PidsOf(f) PROVE q \in Procs /\ Named(q) /\ name[q] \in DOMAIN f /\ f[name[q]].pid = q
  <2>1. PICK n \in DOMAIN f : reg[n].pid = q
    BY <1>1
  <2> QED BY <1>1, <1>2, <2>1 DEF Truly
<1> QED BY <1>2, <1>3

\* A process that looks at the registry.
LEMMA Looking ==
  ASSUME RegistryInv, NEW p \in Procs, NEW s, at' = [at EXCEPT ![p] = s], ~moving[p], attached[p] # "misled",
         ~Named(p) \/ Starts(p),
         UNCHANGED <<use, job, port, reg, link, slave, moving, harmed>>,
         \A q \in Procs \ {p} : /\ name'[q] = name[q] /\ view'[q] = view[q] /\ seen'[q] = seen[q]
                                /\ attached'[q] = attached[q] /\ verdict'[q] = verdict[q],
         Starts(p) => name'[p] = name[p], verdict'[p] # "up"
  PROVE  /\ Aside(p) /\ at'[p] = s /\ Names' = Names
         /\ (Starts(p) <=> Starts(p)') /\ (Serves(p) <=> Serves(p)') /\ (IsSession(p) <=> IsSession(p)')
         /\ Stem(p)' = Stem(p) /\ Base(p)' = Base(p)
         /\ \A q \in Procs : Named(q) => Named(q)' /\ name'[q] = name[q]
         /\ UpOf(p)'
<1>1. /\ Aside(p) /\ at'[p] = s /\ Names' = Names
      /\ (Starts(p) <=> Starts(p)') /\ (Serves(p) <=> Serves(p)') /\ (IsSession(p) <=> IsSession(p)')
      /\ Stem(p)' = Stem(p) /\ Base(p)' = Base(p)
      /\ \A q \in Procs : Named(q) => Named(q)' /\ name'[q] = name[q]
  <2>1. Starts(p) => ~Serves(p)
    BY DEF Starts, Serves
  <2> QED BY <2>1, AsideIs
<1>2. UpOf(p)'
  BY DEF UpOf
<1> QED BY <1>1, <1>2

LEMMA LookKeeps ==
  ASSUME RegistryInv, NEW p \in Procs, UNCHANGED use, Look(p)
  PROVE  Kinds'
<1>1. Own(p)
  BY OwnIs
<1>2. PICK f \in {Everything} : f = Everything
  OBVIOUS
<1>3. /\ at[p] = "look" /\ at' = [at EXCEPT ![p] = "prune"] /\ view'[p] = f /\ seen'[p] = PidsOf(f)
      /\ \A q \in Procs \ {p} : view'[q] = view[q] /\ seen'[q] = seen[q]
      /\ UNCHANGED <<use, job, name, port, verdict, reg, link, slave, moving, attached, harmed>>
  BY <1>2 DEF Look, RegistryInv, Types
<1>4. ~moving[p] /\ attached[p] # "misled" /\ (~Named(p) \/ Starts(p)) /\ verdict[p] # "up"
  BY <1>1, <1>3 DEF Own, PlaceOf, AttachOf, UpOf, Named, IsSession, Starts, Serves, Cleaning
<1>5. /\ Aside(p) /\ at'[p] = "prune" /\ Names' = Names
      /\ (Starts(p) <=> Starts(p)') /\ (Serves(p) <=> Serves(p)') /\ (IsSession(p) <=> IsSession(p)')
      /\ Stem(p)' = Stem(p) /\ Base(p)' = Base(p)
      /\ \A q \in Procs : Named(q) => Named(q)' /\ name'[q] = name[q]
      /\ UpOf(p)'
  BY <1>3, <1>4, Looking
<1>6. Registered(p) <=> Registered(p)'
  BY <1>3 DEF Registered
<1>7. /\ \A n \in DOMAIN f : Truly(n, f[n]) /\ f[n].pid \in Procs
      /\ \A q \in PidsOf(f) : q \in Procs /\ name[q] \in DOMAIN f /\ f[name[q]].pid = q
  BY <1>2, ListedAre
<1>8. Own(p)'
  <2>1. PlaceOf(p)' /\ NameOf(p)' /\ AttachOf(p)'
    BY <1>1, <1>3, <1>4, <1>5, <1>6 DEF Own, PlaceOf, NameOf, AttachOf, Starts, Serves, IsSession
  <2>2. ViewOf(p)'
    BY <1>3, <1>5, <1>7 DEF ViewOf, Truly
  <2>3. ~Holds(p)' /\ ~Chosen(p)'
    BY <1>1, <1>3, <1>5, <1>6 DEF Own, NameOf, Holds, Chosen, SessionStages, Cleaning
  <2>4. SeenOf(p)' /\ KeptOf(p)' /\ MoveOf(p)'
    BY <1>3, <1>4, <1>5, <1>7, <2>3 DEF SeenOf, KeptOf, MoveOf
  <2>5. LinkOf(p)'
    BY <1>1, <1>3, <1>5 DEF Own, LinkOf, Linking, Starts, Serves
  <2> QED BY <1>5, <2>1, <2>2, <2>4, <2>5 DEF Own
<1>9. \A n \in Names : reg[n].pid # p
  BY <1>3 DEF RegistryInv, EntryInv, EntryOf, Entered, Truly, Named, SessionStages, Cleaning, Starts, Serves
<1>10. MayLink(p) => MayLink(p)'
  BY <1>3, <1>5 DEF MayLink, Linking, Starts, Serves
<1> HIDE DEF Kinds, Own, Aside
<1> QED BY <1>3, <1>5, <1>8, <1>9, <1>10, Leaving

LEMMA CheckKeeps ==
  ASSUME RegistryInv, NEW p \in Procs, UNCHANGED use, Check(p)
  PROVE  Kinds'
<1>1. Own(p)
  BY OwnIs
<1>2. PICK f \in {Listed} : f = Listed
  OBVIOUS
<1>3. PICK s : /\ at[p] = "check" /\ at' = [at EXCEPT ![p] = s] /\ seen'[p] = PidsOf(f)
               /\ s = "ended" \/ (s = "holder" /\ Base(p) \notin DOMAIN f)
               /\ \A q \in Procs \ {p} : verdict'[q] = verdict[q] /\ seen'[q] = seen[q]
               /\ verdict'[p] = verdict[p] \/ verdict'[p] = "refused"
               /\ UNCHANGED <<use, job, view, name, port, reg, link, slave, moving, attached, harmed>>
  BY <1>2 DEF Check, RegistryInv, Types
<1>4. /\ ~moving[p] /\ attached[p] # "misled" /\ Starts(p) /\ ~Serves(p) /\ verdict[p] # "up" /\ IsSession(p)
      /\ name[p] = Base(p)
  BY <1>1, <1>3 DEF Own, PlaceOf, NameOf, AttachOf, UpOf, IsSession, Starts, Serves, Cleaning
<1>5. /\ Aside(p) /\ at'[p] = s /\ Names' = Names
      /\ Starts(p)' /\ ~Serves(p)' /\ IsSession(p)'
      /\ Stem(p)' = Stem(p) /\ Base(p)' = Base(p)
      /\ \A q \in Procs : Named(q) => Named(q)' /\ name'[q] = name[q]
      /\ UpOf(p)'
  <2>1. verdict'[p] # "up"
    BY <1>3, <1>4
  <2> QED BY <1>3, <1>4, <2>1, Looking
<1>7. \A q \in PidsOf(f) : q \in Procs /\ Named(q) /\ name[q] \in DOMAIN f
  BY <1>2, ListedAre
<1>8. Own(p)'
  <2>1. PlaceOf(p)' /\ NameOf(p)' /\ AttachOf(p)'
    BY <1>1, <1>3, <1>4, <1>5 DEF Own, PlaceOf, NameOf, AttachOf, Starts, Serves, IsSession
  <2>2. ViewOf(p)'
    BY <1>1, <1>3, <1>5 DEF Own, ViewOf, Truly, RegistryInv, Types
  <2>3. ~Holds(p)' /\ (Chosen(p)' => s = "holder")
    BY <1>3, <1>5 DEF Holds, Chosen, SessionStages, Cleaning
  <2>4. SeenOf(p)'
    BY <1>3, <1>4, <1>5, <1>7, <2>3 DEF SeenOf
  <2>5. KeptOf(p)' /\ MoveOf(p)'
    BY <1>3, <1>4, <1>5, <2>3 DEF KeptOf, MoveOf
  <2>6. LinkOf(p)'
    BY <1>1, <1>3, <1>4, <1>5 DEF Own, LinkOf, Linking
  <2> QED BY <1>5, <2>1, <2>2, <2>4, <2>5, <2>6 DEF Own
<1>9. \A n \in Names : reg[n].pid # p
  BY <1>3, <1>4 DEF RegistryInv, EntryInv, EntryOf, Entered, Truly, SessionStages
<1>10. ~MayLink(p)
  BY <1>3, <1>4 DEF MayLink, Linking
<1> HIDE DEF Kinds, Own, Aside
<1> QED BY <1>3, <1>5, <1>8, <1>9, <1>10, Leaving

LEMMA TakeNameKeeps ==
  ASSUME RegistryInv, NEW p \in Procs, UNCHANGED use, TakeName(p)
  PROVE  Kinds'
<1>1. Own(p)
  BY OwnIs
<1>2. PICK f \in {Listed} : f = Listed
  OBVIOUS
<1>3. PICK m : /\ at[p] = "name" /\ at' = [at EXCEPT ![p] = "write"] /\ seen'[p] = PidsOf(f)
               /\ name'[p] = m /\ m = <<job[p].base, Suffix(job[p].base)>>
               /\ \A q \in Procs \ {p} : name'[q] = name[q] /\ seen'[q] = seen[q]
               /\ UNCHANGED <<use, job, view, port, verdict, reg, link, slave, moving, attached, harmed>>
  BY <1>2 DEF TakeName, RegistryInv, Types
<1>4. /\ ~moving[p] /\ attached[p] # "misled" /\ Serves(p) /\ ~Starts(p) /\ verdict[p] # "up" /\ IsSession(p)
      /\ ~Named(p)
  BY <1>1, <1>3 DEF Own, PlaceOf, NameOf, AttachOf, UpOf, IsSession, Starts, Serves, Cleaning, Named
<1>5. /\ Aside(p) /\ at'[p] = "write" /\ Names' = Names
      /\ ~Starts(p)' /\ Serves(p)' /\ IsSession(p)'
      /\ Stem(p)' = Stem(p) /\ Base(p)' = Base(p)
      /\ \A q \in Procs : Named(q) => Named(q)' /\ name'[q] = name[q]
      /\ UpOf(p)'
  BY <1>3, <1>4, Looking
<1>6. \A n \in Names : reg[n].pid # p
  BY <1>4 DEF RegistryInv, EntryInv, EntryOf, Truly
<1>7. Suffix(job[p].base) \in 1..N /\ m \in Names /\ m \notin DOMAIN f
  <2>1. \A n, k \in Names : reg[n].pid = reg[k].pid /\ reg[n].pid \in Procs => n = k
    BY OneName
  <2> QED BY <1>2, <1>3, <1>6, <2>1, SuffixIs DEF RegistryInv
<1>8. \A q \in PidsOf(f) : q \in Procs /\ Named(q) /\ name[q] \in DOMAIN f
  BY <1>2, ListedAre
<1>9. Own(p)'
  <2>1. PlaceOf(p)' /\ AttachOf(p)'
    BY <1>1, <1>3, <1>4, <1>5 DEF Own, PlaceOf, AttachOf, Starts, Serves, IsSession
  <2>2. Registered(p)' /\ name'[p][1] = job'[p].base
    BY <1>3, <1>7 DEF Registered
  <2>3. NameOf(p)'
    BY <1>3, <1>5, <1>7, <2>2 DEF NameOf
  <2>4. ViewOf(p)'
    BY <1>1, <1>3, <1>5 DEF Own, ViewOf, Truly, RegistryInv, Types
  <2>5. SeenOf(p)'
    <3>1. \A q \in seen'[p] : Named(q)' /\ name'[q] # m
      BY <1>3, <1>5, <1>7, <1>8
    <3> QED BY <1>3, <1>5, <3>1 DEF SeenOf
  <2>6. KeptOf(p)' /\ MoveOf(p)'
    BY <1>3, <1>4, <1>5 DEF KeptOf, MoveOf, Holds
  <2>7. LinkOf(p)'
    BY <1>1, <1>3, <1>4, <1>5 DEF Own, LinkOf, Linking
  <2> QED BY <1>5, <2>1, <2>3, <2>4, <2>5, <2>6, <2>7 DEF Own
<1>10. MayLink(p)'
  BY <1>5 DEF MayLink, Linking
<1> HIDE DEF Kinds, Own, Aside
<1> QED BY <1>3, <1>5, <1>6, <1>9, <1>10, Leaving

\* A command that is no session and changes nothing but itself.
LEMMA Asking ==
  ASSUME RegistryInv, NEW p \in Procs, NEW s, at' = [at EXCEPT ![p] = s], ~IsSession(p),
         UNCHANGED <<use, job, name, port, verdict, reg, link, slave, moving, harmed>>,
         \A q \in Procs \ {p} : view'[q] = view[q] /\ seen'[q] = seen[q] /\ attached'[q] = attached[q],
         s \in {"signal", "connect", "ended"}, s = "connect" => job[p].cmd = "attach",
         job[p].cmd = "none" => s = "ended",
         ViewOf(p)', SeenOf(p)', AttachOf(p)'
  PROVE  Kinds'
<1>1. Own(p)
  BY OwnIs
<1>2. ~Named(p) /\ ~Starts(p) /\ ~Serves(p)
  BY DEF Named, Starts, Serves, IsSession
<1>3. /\ Aside(p) /\ at'[p] = s /\ Names' = Names
      /\ ~Starts(p)' /\ ~Serves(p)' /\ ~IsSession(p)'
      /\ Stem(p)' = Stem(p) /\ Base(p)' = Base(p)
  BY <1>2, AsideIs
<1>4. Own(p)'
  <2>1. ~moving[p] /\ verdict[p] # "up"
    BY <1>1 DEF Own, PlaceOf, UpOf
  <2>2. PlaceOf(p)' /\ NameOf(p)' /\ UpOf(p)'
    BY <1>1, <1>2, <1>3, <2>1 DEF Own, PlaceOf, NameOf, UpOf
  <2>3. KeptOf(p)' /\ MoveOf(p)' /\ LinkOf(p)'
    BY <1>3, <2>1 DEF KeptOf, MoveOf, LinkOf, Holds
  <2> QED BY <2>2, <2>3 DEF Own
<1>5. \A n \in Names : reg[n].pid # p
  BY <1>2 DEF RegistryInv, EntryInv, EntryOf, Truly
<1>6. \A b \in Bases : link[b].by # p
  BY DEF RegistryInv, LinkInv, LinkTo
<1>7. ASSUME MayLink(p) PROVE MayLink(p)'
  <2>1. at[p] = "killed" \/ at[p] \in {"clean", "restore", "unmirror", "unlink"}
    BY <1>2, <1>7 DEF MayLink, Linking
  <2> QED BY <1>1, <2>1 DEF Own, PlaceOf
<1> HIDE DEF Kinds, Own, Aside
<1> QED BY <1>3, <1>4, <1>5, <1>7, Leaving

\* Beside p, who is named stays so.
LEMMA NamedStay ==
  ASSUME UNCHANGED <<job, name>>, NEW p \in Procs, ~IsSession(p), RegistryInv, NEW s, at' = [at EXCEPT ![p] = s]
  PROVE  /\ at'[p] = s /\ Base(p)' = Base(p) /\ ~Starts(p)' /\ ~Serves(p)'
         /\ \A q \in Procs : (Named(q) => Named(q)') /\ name'[q] = name[q]
<1>1. DOMAIN at = Procs
  BY DEF RegistryInv, Types
<1> QED BY <1>1 DEF Named, IsSession, Serves, Starts, Base

LEMMA FindKeeps ==
  ASSUME RegistryInv, NEW p \in Procs, UNCHANGED use, Find(p)
  PROVE  Kinds'
<1>1. Own(p)
  BY OwnIs
<1>2. PICK f \in {Listed} : f = Listed
  OBVIOUS
<1> DEFINE told == \E n \in {Base(p)} \intersect DOMAIN f :
                     LET q == reg[n].pid IN job[q].cmd = "serve" \/ verdict[q] = "up"
<1>3. PICK found, s :
        /\ at[p] = "find" /\ at' = [at EXCEPT ![p] = s] /\ seen'[p] = PidsOf(f)
        /\ found = {Base(p)} \intersect DOMAIN f
        /\ view'[p] = [n \in found |-> reg[n]]
        /\ attached'[p] = (IF told THEN "told" ELSE "no")
        /\ s = IF found = {} THEN "ended" ELSE IF job[p].cmd = "attach" THEN "connect" ELSE "signal"
        /\ \A q \in Procs \ {p} : view'[q] = view[q] /\ seen'[q] = seen[q] /\ attached'[q] = attached[q]
        /\ UNCHANGED <<use, job, name, port, verdict, reg, link, slave, moving, harmed>>
  BY <1>2 DEF Find, RegistryInv, Types
<1>4. ~IsSession(p) /\ job[p].cmd # "none"
  BY <1>1, <1>3 DEF Own, PlaceOf, IsSession, Starts, Serves
<1>5. /\ at'[p] = s /\ Base(p)' = Base(p) /\ ~Starts(p)' /\ ~Serves(p)'
      /\ \A q \in Procs : (Named(q) => Named(q)') /\ name'[q] = name[q]
  BY <1>3, <1>4, NamedStay
<1>6. /\ \A n \in DOMAIN f : Truly(n, f[n]) /\ Tells(reg[n]) /\ f[n] = reg[n] /\ reg[n].pid \in Procs
      /\ \A q \in PidsOf(f) : q \in Procs /\ Named(q) /\ name[q] \in DOMAIN f /\ f[name[q]].pid = q
  BY <1>2, ListedAre
<1>7. ViewOf(p)'
  <2>1. \A n \in found : Truly(n, reg[n]) /\ reg[n].pid \in Procs
    BY <1>3, <1>6
  <2> QED BY <1>3, <1>5, <2>1 DEF ViewOf, Truly
<1>8. SeenOf(p)'
  <2>1. s \in {"signal", "connect"} => found = {Base(p)}
    BY <1>3
  <2>2. \A q \in seen'[p] : Named(q)' /\ (name'[q] = Base(p) /\ found = {Base(p)} => q = view'[p][Base(p)].pid)
    BY <1>3, <1>5, <1>6
  <2>3. ~Chosen(p)'
    BY <1>5 DEF Chosen
  <2>4. s \in {"ended", "signal", "connect"} /\ (found = {Base(p)} => DOMAIN view'[p] = {Base(p)})
    BY <1>3
  <2> QED BY <1>5, <2>1, <2>2, <2>3, <2>4 DEF SeenOf
<1>9. AttachOf(p)'
  <2>1. ASSUME attached'[p] = "told", NEW n \in found
        PROVE  reg[n].bound \/ <<reg[n].pid, "unwritten">> \in harmed
    <3>1. Tells(reg[n]) /\ n \in DOMAIN f /\ n = Base(p)
      BY <1>3, <1>6
    <3>2. told
      BY <1>3, <2>1
    <3>3. job[reg[n].pid].cmd = "serve" \/ verdict[reg[n].pid] = "up"
      BY <3>1, <3>2
    <3> QED BY <3>1, <3>3 DEF Tells, Starts
  <2>2. attached'[p] # "misled"
    BY <1>3
  <2> HIDE DEF told
  <2>3. DOMAIN view'[p] = found /\ \A n \in found : view'[p][n] = reg[n]
    BY <1>3
  <2> QED BY <1>3, <2>1, <2>2, <2>3 DEF AttachOf
<1>10. /\ s \in {"signal", "connect", "ended"} /\ (s = "connect" => job[p].cmd = "attach")
  BY <1>3
<1> HIDE DEF Kinds, told
<1> QED BY <1>3, <1>4, <1>7, <1>8, <1>9, <1>10, Asking

LEMMA ShowsKeeps ==
  ASSUME RegistryInv, NEW p \in Procs, UNCHANGED use, Shows(p)
  PROVE  Kinds'
<1>1. Own(p)
  BY OwnIs
<1>2. PICK f \in {Listed} : f = Listed
  OBVIOUS
<1>3. /\ at[p] = "find" /\ at' = [at EXCEPT ![p] = "ended"] /\ seen'[p] = PidsOf(f) /\ view'[p] = f
      /\ \A q \in Procs \ {p} : view'[q] = view[q] /\ seen'[q] = seen[q]
      /\ UNCHANGED <<use, job, name, port, verdict, reg, link, slave, moving, attached, harmed>>
  BY <1>2 DEF Shows, RegistryInv, Types
<1>4. ~IsSession(p) /\ attached[p] # "misled"
  BY <1>1, <1>3 DEF Own, PlaceOf, AttachOf, IsSession, Starts, Serves
<1>5. /\ at'[p] = "ended" /\ Base(p)' = Base(p) /\ ~Starts(p)' /\ ~Serves(p)'
      /\ \A q \in Procs : (Named(q) => Named(q)') /\ name'[q] = name[q]
  BY <1>3, <1>4, NamedStay
<1>6. \A n \in DOMAIN f : Truly(n, f[n]) /\ f[n].pid \in Procs
  BY <1>2, ListedAre
<1>7. ViewOf(p)'
  BY <1>3, <1>5, <1>6 DEF ViewOf, Truly
<1>8. SeenOf(p)' /\ AttachOf(p)'
  BY <1>3, <1>4, <1>5 DEF SeenOf, AttachOf, Chosen
<1> HIDE DEF Kinds
<1> QED BY <1>3, <1>4, <1>7, <1>8, Asking

LEMMA ConnectKeeps ==
  ASSUME RegistryInv, NEW p \in Procs, UNCHANGED use, Connect(p)
  PROVE  Kinds'
<1>1. Own(p)
  BY OwnIs
<1>2. /\ at[p] = "connect" /\ at' = [at EXCEPT ![p] = "ended"]
      /\ UNCHANGED <<use, job, view, name, port, verdict, reg, link, slave, moving, seen, harmed>>
      /\ \A q \in Procs \ {p} : attached'[q] = attached[q]
      /\ attached'[p] = "misled" => ~view[p][Found(p)].bound /\ attached[p] = "told"
  BY DEF Connect, RegistryInv, Types
<1>3. ~IsSession(p) /\ Found(p) = Base(p) /\ DOMAIN view[p] = {Base(p)} /\ job[p].cmd = "attach"
  BY <1>1, <1>2, Targets DEF Own, PlaceOf
<1>4. /\ at'[p] = "ended" /\ Base(p)' = Base(p) /\ ~Starts(p)' /\ ~Serves(p)'
      /\ \A q \in Procs : (Named(q) => Named(q)') /\ name'[q] = name[q]
  BY <1>2, <1>3, NamedStay
<1>5. ViewOf(p)'
  BY <1>1, <1>2, <1>4 DEF Own, ViewOf, Truly, RegistryInv, Types
<1>6. SeenOf(p)'
  BY <1>2, <1>4 DEF SeenOf, Chosen
<1>7. AttachOf(p)'
  <2>1. attached'[p] = "misled" => \A n \in DOMAIN view[p] : <<view[p][n].pid, "unwritten">> \in harmed
    BY <1>1, <1>2, <1>3 DEF Own, AttachOf
  <2> QED BY <1>2, <1>3, <1>4, <2>1 DEF AttachOf
<1> HIDE DEF Kinds
<1> QED BY <1>2, <1>3, <1>5, <1>6, <1>7, Asking

\* A session that makes, replaces or removes the link of its stem, and whatever it leaves behind is not its own.
LEMMA Relinking ==
  ASSUME RegistryInv, NEW p \in Procs, NEW s, at' = [at EXCEPT ![p] = s], IsSession(p),
         ~moving[p] \/ at[p] = "unlink",
         at[p] \in {"mirror", "link", "unlink"}, attached' = attached,
         UNCHANGED <<use, job, view, name, port, verdict, reg, moving, seen>>,
         \A q \in Procs \ {p} : slave'[q] = slave[q],
         harmed \subseteq harmed',
           \A q \in Procs, w \in {"name", "unwritten", "late"} : <<q, w>> \in harmed' => <<q, w>> \in harmed,
         \/ s = "link" /\ at[p] = "mirror"
         \/ s = "clean" /\ at[p] = "link"
         \/ s = "ready" /\ at[p] = "link" /\ Starts(p)
         \/ s = "look" /\ at[p] = "link" /\ Serves(p)
         \/ s = "unrecord" /\ at[p] = "unlink",
         s = "link" => slave'[p] # 0,
         s \in {"ready", "look"} => link'[Stem(p)].by = p,
         \A b \in Bases : b # Stem(p) => link'[b] = link[b],
         \A q \in Procs \ {p} :
             link[Stem(p)].by = q /\ link'[Stem(p)] # link[Stem(p)] => <<q, "link">> \in harmed' \/ ~Linking(q),
         LinkTo(Stem(p))'
  PROVE  Kinds'
<1>1. Own(p)
  BY OwnIs
<1>2. /\ Aside(p) /\ at'[p] = s /\ Names' = Names
      /\ (Starts(p) <=> Starts(p)') /\ (Serves(p) <=> Serves(p)') /\ (IsSession(p) <=> IsSession(p)')
      /\ Stem(p)' = Stem(p) /\ Base(p)' = Base(p)
      /\ \A q \in Procs : Named(q) => Named(q)' /\ name'[q] = name[q]
  <2>1. Named(p) /\ Serves(p) => s \in {"serve", "ended", "killed"} \union Cleaning
    BY DEF Named, Cleaning
  <2> QED BY <2>1, AsideIs
<1>3. ~(Starts(p) /\ Serves(p)) /\ (Starts(p) \/ Serves(p))
  BY DEF IsSession, Starts, Serves
<1>4. (Kept(p) <=> Kept(p)') /\ (Filed(p) <=> Filed(p)') /\ (Registered(p) <=> Registered(p)')
  BY DEF Kept, Filed, Registered
<1>5. attached[p] # "misled"
  BY <1>1 DEF Own, AttachOf
<1>6. (Holds(p)' => Holds(p)) /\ (Chosen(p)' => Chosen(p))
  BY <1>1, <1>2, <1>3, <1>4 DEF Own, NameOf, Holds, Chosen, SessionStages, Cleaning
<1>7. Own(p)'
  <2>1. PlaceOf(p)' /\ NameOf(p)' /\ UpOf(p)'
    BY <1>1, <1>2, <1>3, <1>4 DEF Own, PlaceOf, NameOf, UpOf, Cleaning, Starts, Serves, IsSession
  <2>2. AttachOf(p)'
    BY <1>2, <1>5 DEF AttachOf
  <2>3. ViewOf(p)'
    BY <1>1, <1>2 DEF Own, ViewOf, Truly, RegistryInv, Types
  <2>4. SeenOf(p)'
    <3>1. Chosen(p)' => \A q \in seen[p] \ {p} : Named(q)' /\ name'[q] # name'[p]
      BY <1>1, <1>2, <1>6 DEF Own, SeenOf, RegistryInv, Types
    <3>2. s = "link" /\ Serves(p) => seen[p] = {}
      BY <1>1 DEF Own, SeenOf
    <3> QED BY <1>2, <3>1, <3>2 DEF SeenOf
  <2>5. KeptOf(p)' /\ MoveOf(p)'
    BY <1>1, <1>2, <1>4, <1>6 DEF Own, KeptOf, MoveOf
  <2>6. LinkOf(p)'
    BY <1>2, <1>3 DEF LinkOf, Linking
  <2> QED BY <2>1, <2>2, <2>3, <2>4, <2>5, <2>6 DEF Own
<1>8. ASSUME NEW n \in Names, reg[n].pid = p PROVE EntryOf(n)'
  <2>1. Truly(n, reg[n]) /\ Entered(p) /\ Tells(reg[n])
    BY <1>8 DEF RegistryInv, EntryInv, EntryOf
  <2>2. Truly(n, reg[n])'
    BY <1>2, <1>8, <2>1 DEF Truly
  <2>3. Entered(p)'
    <3>1. CASE Starts(p)
      BY <1>2, <1>3, <3>1 DEF Entered, SessionStages
    <3>2. CASE Serves(p)
      <4>1. <<p, "late">> \in harmed
        BY <1>3, <2>1, <3>2 DEF Entered
      <4> QED BY <1>2, <3>2, <4>1 DEF Entered
    <3> QED BY <1>3, <3>1, <3>2
  <2>4. Tells(reg[n])'
    BY <1>2, <1>8, <2>1 DEF Tells
  <2> QED BY <1>8, <2>2, <2>3, <2>4 DEF EntryOf
<1>9. ASSUME NEW b \in Bases, link'[b] # link[b] \/ link[b].by = p PROVE LinkTo(b)'
  <2>1. link[b].by = p => b = Stem(p)
    BY DEF RegistryInv, LinkInv, LinkTo
  <2> QED BY <1>2, <1>9, <2>1 DEF LinkTo
<1>10. ASSUME NEW q \in Procs \ {p}, Linking(q)
       PROVE  link'[Stem(q)].by = link[Stem(q)].by \/ <<q, "link">> \in harmed'
  <2>1. link[Stem(q)].by = q \/ <<q, "link">> \in harmed
    BY <1>10 DEF RegistryInv, LinkInv, LinkOf, Linking, IsSession, Starts, Serves
  <2>2. Stem(q) \in Bases
    BY NamesAre DEF RegistryInv, Stem
  <2> QED BY <1>10, <2>1, <2>2
<1>11. Loses(p, {}) = {} /\ Spares(p, {})
  BY DEF Loses, Spares
<1> HIDE DEF Kinds, Own, Aside
<1> QED BY <1>2, <1>7, <1>8, <1>9, <1>10, <1>11, Altering

LEMMA ClearLinkKeeps ==
  ASSUME RegistryInv, NEW p \in Procs, UNCHANGED use, ClearLink(p)
  PROVE  Kinds'
<1>1. Own(p)
  BY OwnIs
<1>2. /\ at[p] = "mirror" /\ at' = [at EXCEPT ![p] = "link"] /\ slave' = [slave EXCEPT ![p] = Free]
      /\ link' = [link EXCEPT ![Stem(p)] = NoLink]
      /\ harmed' = harmed \union (IF Live(link[Stem(p)].by) THEN {<<link[Stem(p)].by, "link">>} ELSE {})
      /\ UNCHANGED <<use, job, view, name, port, verdict, reg, moving, attached, seen>>
  BY DEF ClearLink
<1>3. IsSession(p) /\ ~moving[p] /\ slave[p] = 0
  BY <1>1, <1>2 DEF Own, PlaceOf, LinkOf, Cleaning
<1>4. Free \in 1..N
  BY <1>3, FreeIs DEF RegistryInv
<1>5. slave'[p] # 0 /\ \A q \in Procs \ {p} : slave'[q] = slave[q]
  BY <1>2, <1>4 DEF RegistryInv, Types
<1>6. Stem(p) \in Bases
  BY NamesAre DEF RegistryInv, Stem
<1>7. link'[Stem(p)] = NoLink /\ \A b \in Bases : b # Stem(p) => link'[b] = link[b]
  BY <1>2, <1>6 DEF RegistryInv, Types
<1>8. (link[Stem(p)].by = 0)' /\ LinkTo(Stem(p))'
  <2>1. Stem(p)' = Stem(p)
    BY <1>2 DEF Stem
  <2> QED BY <1>7, <2>1, RegistryAssumption DEF NoLink, LinkTo
<1>9. \A q \in Procs \ {p} : link[Stem(p)].by = q => <<q, "link">> \in harmed' \/ ~Linking(q)
  BY <1>2 DEF Live, Alive, Linking
<1>10. \A q \in Procs, w \in {"name", "unwritten", "late"} : <<q, w>> \in harmed' => <<q, w>> \in harmed
  BY <1>2
<1> HIDE DEF Kinds
<1> QED BY <1>2, <1>3, <1>5, <1>7, <1>8, <1>9, <1>10, Relinking

LEMMA MakeLinkKeeps ==
  ASSUME RegistryInv, NEW p \in Procs, UNCHANGED use, MakeLink(p)
  PROVE  Kinds'
<1>1. Own(p)
  BY OwnIs
<1>2. /\ at[p] = "link"
      /\ UNCHANGED <<use, job, view, name, port, verdict, reg, moving, attached, seen, harmed>>
  BY DEF MakeLink
<1>3. IsSession(p) /\ ~moving[p] /\ slave[p] # 0 /\ (Starts(p) \/ Serves(p)) /\ ~(Starts(p) /\ Serves(p))
  BY <1>1, <1>2 DEF Own, PlaceOf, LinkOf, Cleaning, IsSession, Starts, Serves
<1>4. Stem(p) \in Bases /\ Stem(p)' = Stem(p)
  BY <1>2, NamesAre DEF RegistryInv, Stem
<1>5. CASE link[Stem(p)] = NoLink
  <2>1. PICK s : /\ at' = [at EXCEPT ![p] = s] /\ s = IF job[p].cmd = "start" THEN "ready" ELSE "look"
    BY <1>5 DEF MakeLink
  <2>2. /\ link' = [link EXCEPT ![Stem(p)] = [slave |-> slave[p], by |-> p]] /\ UNCHANGED slave
    BY <1>5 DEF MakeLink
  <2>3. /\ link'[Stem(p)] = [slave |-> slave[p], by |-> p]
        /\ \A b \in Bases : b # Stem(p) => link'[b] = link[b]
    BY <1>4, <2>2 DEF RegistryInv, Types
  <2>4. (s = "ready" /\ Starts(p)) \/ (s = "look" /\ Serves(p))
    BY <1>3, <2>1 DEF Starts, Serves
  <2>5. at'[p] = s
    BY <2>1 DEF RegistryInv, Types
  <2>6. MayLink(p)' /\ IsSession(p)'
    BY <1>2, <1>3, <2>4, <2>5 DEF MayLink, Linking, IsSession, Starts, Serves
  <2>7. link'[Stem(p)].by = p /\ link'[Stem(p)].slave = slave[p]
    BY <2>3
  <2>8. LinkTo(Stem(p))'
    BY <1>3, <1>4, <2>2, <2>6, <2>7 DEF LinkTo
  <2>9. \A q \in Procs : link[Stem(p)].by # q
    BY <1>5, RegistryAssumption DEF NoLink
  <2>10. s # "link"
    BY <2>4
  <2> HIDE DEF Kinds
  <2> QED BY <1>2, <1>3, <2>1, <2>2, <2>3, <2>4, <2>7, <2>8, <2>9, <2>10, Relinking
<1>6. CASE link[Stem(p)] # NoLink
  <2>1. at' = [at EXCEPT ![p] = "clean"] /\ slave' = [slave EXCEPT ![p] = 0] /\ UNCHANGED link
    BY <1>6 DEF MakeLink
  <2>2. \A q \in Procs \ {p} : slave'[q] = slave[q] /\ at'[q] = at[q]
    BY <2>1 DEF RegistryInv, Types
  <2>3. link[Stem(p)].by # p
    BY <1>2, <1>4 DEF RegistryInv, LinkInv, LinkTo, MayLink, Linking
  <2>4. LinkTo(Stem(p))'
    <3>1. Aside(p)
      <4>1. ~Named(p) \/ Starts(p)
        BY <1>2 DEF Named, Cleaning, Starts, Serves, IsSession
      <4> QED BY <1>2, <1>3, <2>1, <2>2, <4>1, AsideIs DEF Cleaning
    <3> QED BY <1>4, <2>1, <2>3, <3>1, OthersStand
  <2> HIDE DEF Kinds
  <2> QED BY <1>2, <1>3, <2>1, <2>2, <2>4, Relinking
<1> QED BY <1>5, <1>6

LEMMA UnlinkKeeps ==
  ASSUME RegistryInv, NEW p \in Procs, UNCHANGED use, Unlink(p)
  PROVE  Kinds'
<1>1. Own(p)
  BY OwnIs
<1>2. PICK ours : ours = (slave[p] # 0 /\ link[Stem(p)].slave = slave[p])
  OBVIOUS
<1>3. /\ at[p] = "unlink" /\ at' = [at EXCEPT ![p] = "unrecord"] /\ slave' = [slave EXCEPT ![p] = 0]
      /\ link' = [link EXCEPT ![Stem(p)] = IF ours THEN NoLink ELSE link[Stem(p)]]
      /\ harmed' = harmed \union (IF ours /\ link[Stem(p)].by # p /\ Live(link[Stem(p)].by)
                                    THEN {<<link[Stem(p)].by, "link">>} ELSE {})
      /\ UNCHANGED <<use, job, view, name, port, verdict, reg, moving, attached, seen>>
  BY <1>2 DEF Unlink
<1>4. IsSession(p)
  BY <1>1, <1>3 DEF Own, PlaceOf
<1>5. \A q \in Procs \ {p} : slave'[q] = slave[q] /\ at'[q] = at[q]
  BY <1>3 DEF RegistryInv, Types
<1>6. Stem(p) \in Bases /\ Stem(p)' = Stem(p)
  BY <1>3, NamesAre DEF RegistryInv, Stem
<1>7. /\ link'[Stem(p)] = IF ours THEN NoLink ELSE link[Stem(p)]
      /\ \A b \in Bases : b # Stem(p) => link'[b] = link[b]
  BY <1>3, <1>6 DEF RegistryInv, Types
<1>8. link[Stem(p)].by = p => ours
  BY <1>2, <1>6 DEF RegistryInv, LinkInv, LinkTo
<1>9. LinkTo(Stem(p))'
  <2>1. CASE ours
    BY <1>6, <1>7, <2>1, RegistryAssumption DEF NoLink, LinkTo
  <2>2. CASE ~ours
    <3>1. Aside(p)
      BY <1>3, <1>5, AsideIs DEF Cleaning
    <3> QED BY <1>6, <1>7, <1>8, <2>2, <3>1, OthersStand
  <2> QED BY <2>1, <2>2
<1>10. \A q \in Procs \ {p} :
         link[Stem(p)].by = q /\ link'[Stem(p)] # link[Stem(p)] => <<q, "link">> \in harmed' \/ ~Linking(q)
  BY <1>3, <1>7 DEF Live, Alive, Linking
<1>11. \A q \in Procs, w \in {"name", "unwritten", "late"} : <<q, w>> \in harmed' => <<q, w>> \in harmed
  BY <1>3
<1> HIDE DEF Kinds
<1> QED BY <1>3, <1>4, <1>5, <1>7, <1>9, <1>10, <1>11, Relinking

LEMMA RegistryStarts == Init => RegistryInv
<1> SUFFICES ASSUME Init PROVE RegistryInv
  OBVIOUS
<1>1. Types
  BY TypesInit
<1>2. /\ at = [p \in Procs |-> CASE use.jobs[p].cmd = "none"  -> "ended"
                                 [] use.jobs[p].cmd = "serve" -> "retain"
                                 [] OTHER -> "look"]
      /\ job = use.jobs
      /\ name = [p \in Procs |-> <<use.jobs[p].base, IF use.jobs[p].cmd = "serve" THEN 0 ELSE 1>>]
      /\ \A p \in Procs : /\ DOMAIN view[p] = {} /\ seen[p] = {} /\ verdict[p] # "up" /\ ~moving[p]
                          /\ attached[p] = "no" /\ slave[p] = 0
      /\ (\A n \in Names : reg[n] = NoEntry) /\ (\A b \in Bases : link[b] = NoLink)
      /\ port = [p \in Procs |-> use.jobs[p].port]
  BY DEF Init, RegistryInit
<1>3. \A p \in Procs : /\ job[p].cmd = "none" => at[p] = "ended"
                       /\ Serves(p) => at[p] = "retain"
                       /\ Starts(p) => at[p] = "look"
                       /\ at[p] \in {"ended", "retain", "look"} /\ (at[p] = "retain" => Serves(p))
  <2> SUFFICES ASSUME NEW p \in Procs
               PROVE  /\ job[p].cmd = "none" => at[p] = "ended"
                      /\ Serves(p) => at[p] = "retain"
                      /\ Starts(p) => at[p] = "look"
                      /\ at[p] \in {"ended", "retain", "look"} /\ (at[p] = "retain" => Serves(p))
    OBVIOUS
  <2>1. at[p] = CASE job[p].cmd = "none"  -> "ended"
                  [] job[p].cmd = "serve" -> "retain"
                  [] OTHER -> "look"
    BY <1>2
  <2>2. CASE job[p].cmd = "none"
    BY <2>1, <2>2 DEF Serves, Starts
  <2>3. CASE job[p].cmd = "serve"
    BY <2>1, <2>3 DEF Serves, Starts
  <2>4. CASE job[p].cmd # "none" /\ job[p].cmd # "serve"
    <3>1. at[p] = "look"
      BY <2>1, <2>4, Zenon
    <3> QED BY <2>4, <3>1 DEF Serves, Starts
  <2> QED BY <2>2, <2>3, <2>4
<1>4. \A p \in Procs : name[p] = <<job[p].base, IF Serves(p) THEN 0 ELSE 1>>
  BY <1>2 DEF Serves
<1>5. \A p \in Procs :
        (Registered(p) <=> ~Serves(p)) /\ (~Serves(p) => name[p] = Base(p)) /\ name[p][1] = job[p].base
  BY <1>4 DEF Registered, Base
<1>6. \A p \in Procs : IsSession(p) <=> Starts(p) \/ Serves(p)
  BY DEF IsSession, Starts, Serves
<1>7. PlaceInv
  BY <1>2, <1>3, <1>6 DEF PlaceInv, PlaceOf
<1>8. NameInv
  BY <1>1, <1>3, <1>5, NamesAre DEF NameInv, NameOf, Starts, Serves
<1>9. EntryInv
  BY <1>2, RegistryAssumption DEF EntryInv, EntryOf, ViewOf, NoEntry
<1>10. UpInv
  BY <1>2 DEF UpInv, UpOf
<1>11. SeenInv
  BY <1>2, <1>3 DEF SeenInv, SeenOf
<1>12. \A p \in Procs : ~Holds(p)
  <2>1. \A p \in Procs : Starts(p) => at[p] \notin SessionStages
    BY <1>3 DEF SessionStages
  <2> QED BY <1>5, <2>1 DEF Holds
<1>13. KeptInv /\ MoveInv
  BY <1>2, <1>12 DEF KeptInv, KeptOf, MoveInv, MoveOf
<1>14. AttachInv
  BY <1>2 DEF AttachInv, AttachOf
<1>15. LinkInv
  <2>1. \A p \in Procs : ~Linking(p)
    BY <1>3 DEF Linking, Serves, Starts
  <2> QED BY <1>2, <1>3, <2>1, RegistryAssumption DEF LinkInv, LinkTo, LinkOf, NoLink
<1> QED BY <1>1, <1>7, <1>8, <1>9, <1>10, <1>11, <1>13, <1>14, <1>15 DEF RegistryInv

LEMMA RegistryKept ==
  ASSUME RegistryInv, [Next]_vars
  PROVE  RegistryInv'
<1>1. CASE UNCHANGED use /\ UNCHANGED registryVars
  <2>1. UNCHANGED <<use, job, at, view, name, port, term, asked, verdict, reg, link, slave, moving, attached,
                    seen, harmed>>
    BY <1>1 DEF registryVars
  <2>2. Types'
    BY <2>1 DEF RegistryInv, Types
  <2>3. PlaceInv' /\ NameInv' /\ UpInv'
    BY <2>1 DEF RegistryInv, PlaceInv, PlaceOf, NameInv, NameOf, UpInv, UpOf, Starts, Serves, IsSession,
       Registered, Base,
                Names
  <2>4. EntryInv'
    BY <2>1 DEF RegistryInv, EntryInv, EntryOf, ViewOf, Truly, Entered, Tells, Named, Starts, Serves,
       IsSession, Names
  <2>5. SeenInv'
    BY <2>1 DEF RegistryInv, SeenInv, SeenOf, Chosen, Named, Starts, Serves, IsSession, Registered, Base
  <2>6. KeptInv' /\ MoveInv'
    BY <2>1 DEF RegistryInv, KeptInv, KeptOf, MoveInv, MoveOf, Holds, Kept, Filed, Starts, Serves, Registered
  <2>7. AttachInv'
    BY <2>1 DEF RegistryInv, AttachInv, AttachOf
  <2>8. LinkInv'
    BY <2>1 DEF RegistryInv, LinkInv, LinkTo, LinkOf, Linking, MayLink, Starts, Serves, IsSession, Stem
  <2> QED BY <2>2, <2>3, <2>4, <2>5, <2>6, <2>7, <2>8 DEF RegistryInv
<1>2. ASSUME UNCHANGED use, NEW p \in Procs, Acts(p)
      PROVE  Types' /\ Kinds'
  <2>1. CASE \/ Retained(p) \/ Build(p) \/ Unrecord(p) \/ Crash(p) \/ Bind(p) \/ ServeEnds(p) \/ RestoreTerm(p)
             \/ Unmirror(p) \/ StillRunning(p) \/ CheckHolder(p) \/ CannotWrite(p) \/ SetupFails(p)
    <3>1. Types'
      BY <1>2, <2>1, TypesMove DEF RegistryInv
    <3>2. Kinds'
      BY <1>2, <2>1, Goings, BusyKeeps DEF Kinds
    <3> QED BY <3>1, <3>2
  <2>2. CASE Signal(p) \/ StartTimesOut(p)
    <3>1. Types'
      BY <1>2, <2>2, TypesMove, TypesRest DEF RegistryInv
    <3>2. Kinds'
      BY <1>2, <2>2, Signalling, BusyKeeps DEF Kinds
    <3> QED BY <3>1, <3>2
  <2>3. CASE Look(p) \/ Check(p) \/ Find(p) \/ Shows(p)
    <3>1. Types'
      BY <1>2, <2>3, TypesLook DEF RegistryInv
    <3>2. Kinds'
      BY <1>2, <2>3, LookKeeps, CheckKeeps, FindKeeps, ShowsKeeps
    <3> QED BY <3>1, <3>2
  <2>4. CASE Connect(p)
    <3>1. Types'
      BY <1>2, <2>4, TypesMove DEF RegistryInv
    <3>2. Kinds'
      BY <1>2, <2>4, ConnectKeeps
    <3> QED BY <3>1, <3>2
  <2>5. CASE \/ Prune(p) \/ Clean(p) \/ Unregister(p) \/ GoneAlready(p) \/ Stopped(p)
             \/ WriteUnbound(p) \/ WriteServed(p) \/ Ready(p) \/ MoveWrites(p)
    <3>1. Types'
      BY <1>2, <2>5, TypesFiles
    <3>2. Kinds'
      BY <1>2, <2>5, PruneKeeps, LeaveKeeps, StopKeeps, WriteKeeps, MoveWritesKeeps
    <3> QED BY <3>1, <3>2
  <2>6. CASE \/ TakeName(p) \/ NotRegistered(p) \/ ReadyUnwritten(p) \/ ClearLink(p) \/ MakeLink(p) \/ Unlink(p)
             \/ (\E new \in Ports : MoveBegins(p, new)) \/ MoveUnwritten(p)
    <3>1. Types'
      BY <1>2, <2>6, TypesRest
    <3>2. Kinds'
      BY <1>2, <2>6, TakeNameKeeps, NotWrittenKeeps, ClearLinkKeeps, MakeLinkKeeps, UnlinkKeeps, MoveIsKept
    <3> QED BY <3>1, <3>2
  <2> QED BY <1>2, <2>1, <2>2, <2>3, <2>4, <2>5, <2>6 DEF Acts, RegistryStep, RegistryFails
<1>3. CASE Next
  <2>1. UNCHANGED use /\ (UNCHANGED registryVars \/ \E p \in Procs : Acts(p))
    BY <1>3, Acting
  <2> QED BY <1>1, <1>2, <2>1 DEF RegistryInv, Kinds
<1>4. CASE UNCHANGED vars
  BY <1>1, <1>4 DEF vars
<1> QED BY <1>3, <1>4

THEOREM RegistryHolds == Spec => []RegistryInv
<1> QED BY RegistryStarts, RegistryKept, PTL DEF Spec

\* What of a session is found, whatever it records.
FoundOf(p) ==
  /\ (IsSession(p) /\ at[p] = "serve") =>
       /\ Registered(p) => IsListed(p) \/ harmed \intersect {<<p, "name">>, <<p, "unwritten">>} # {}
       /\ IsLinked(p) \/ <<p, "link">> \in harmed
  /\ (IsSession(p) /\ at[p] = "ended") => LeavesNothing(p)
  /\ (attached[p] = "misled") => <<Target(p), "unwritten">> \in harmed

LEMMA RegistryTyped == RegistryInv => RegistryTypeOK
<1> SUFFICES ASSUME RegistryInv PROVE RegistryTypeOK
  OBVIOUS
<1> USE DEF RegistryInv, Types
<1>1. port \in [Procs -> Ports \union {"none"}]
  OBVIOUS
<1>2. \A n \in Names : reg[n] = NoEntry \/ (reg[n].pid \in Procs /\ reg[n].port \in Ports)
  BY DEF Entries
<1>3. \A b \in Bases : link[b] = NoLink \/ link[b].by \in Procs
  BY DEF Links
<1> QED BY <1>1, <1>2, <1>3 DEF RegistryTypeOK, Words, Fates, Harms, N

LEMMA SessionIsFound ==
  ASSUME RegistryInv, NEW p \in Procs
  PROVE  FoundOf(p)
<1>1. ASSUME IsSession(p), at[p] = "serve", Registered(p), Kept(p), Filed(p)
      PROVE  IsListed(p)
  <2>1. Holds(p) /\ name[p] \in Names
    BY <1>1 DEF Holds, IsSession, Starts, Serves, SessionStages, RegistryInv, NameInv, NameOf
  <2>2. reg[name[p]].pid = p
    BY <1>1, <2>1 DEF RegistryInv, KeptInv, KeptOf
  <2>3. ~moving[p] => reg[name[p]].port = port[p]
    BY <1>1, <2>1 DEF RegistryInv, MoveInv, MoveOf
  <2>4. Tells(reg[name[p]])
    BY <2>1, <2>2 DEF RegistryInv, EntryInv, EntryOf
  <2>5. reg[name[p]].bound
    BY <1>1, <2>2, <2>4 DEF Tells, Filed
  <2> QED BY <2>1, <2>2, <2>3, <2>5 DEF IsListed
<1>2. ASSUME IsSession(p), at[p] = "serve"
      PROVE  IsLinked(p) \/ <<p, "link">> \in harmed
  <2>1. Linking(p)
    BY <1>2 DEF Linking, IsSession, Starts, Serves
  <2> QED BY <1>2, <2>1 DEF RegistryInv, LinkInv, LinkOf, IsLinked
<1>3. ASSUME IsSession(p), at[p] = "ended"
      PROVE  LeavesNothing(p)
  <2>1. <<p, "late">> \in harmed \/ \A n \in Names : reg[n].pid # p
    <3>1. Entered(p) => <<p, "late">> \in harmed
      BY <1>3 DEF Entered, SessionStages
    <3> QED BY <3>1 DEF RegistryInv, EntryInv, EntryOf
  <2>2. \A b \in Bases : link[b].by # p
    <3>1. ~MayLink(p)
      BY <1>3 DEF MayLink, Linking
    <3> QED BY <3>1 DEF RegistryInv, LinkInv, LinkTo
  <2> QED BY <2>1, <2>2 DEF LeavesNothing
<1>4. ASSUME attached[p] = "misled"
      PROVE  <<Target(p), "unwritten">> \in harmed
  <2>1. DOMAIN view[p] # {} /\ \A n \in DOMAIN view[p] : <<view[p][n].pid, "unwritten">> \in harmed
    BY <1>4 DEF RegistryInv, AttachInv, AttachOf
  <2>2. Found(p) \in DOMAIN view[p]
    BY <2>1 DEF Found
  <2> QED BY <2>1, <2>2 DEF Target
<1> QED BY <1>1, <1>2, <1>3, <1>4 DEF FoundOf, Kept, Filed

-----------------------------------------------------------------------------
(* What the recorder holds *)

LineRecs == [by : Writers, chunk : Nat, n : Nat]
PartRecs == [raw : Seq(Nat), lines : Seq(LineRecs)]
FileRecs == [there : BOOLEAN, raw : Seq(Nat), lines : Seq(LineRecs)]
Places   == {"out", "lines", "number", "close", "rename", "open", "prune"}
Doings   == [at : Places, lines : Seq(LineRecs), number : Nat, had : BOOLEAN]

Bounded(S) == \E m \in Nat : \A n \in S : n <= m

PartsTyped ==
  /\ DOMAIN parts \subseteq Nat \ {0} /\ Bounded(DOMAIN parts)
  /\ \A n \in DOMAIN parts : parts[n] \in PartRecs

DoingTyped ==
  /\ doing \in [Writers -> Doings]
  /\ \A t \in Writers : /\ doing[t].at = "out" => doing[t].lines = <<>>
                        /\ doing[t].at = "lines" => doing[t].lines # <<>>
                        /\ doing[t].at \in {"close", "rename", "open", "prune"} => doing[t].number # 0

RecTypes ==
  /\ files \in FileRecs /\ handles \in BOOLEAN /\ deleted \in BOOLEAN /\ overlap \in BOOLEAN
  /\ PartsTyped /\ own \in Seq(Nat \ {0})
  /\ sizes \in [raw : Nat, text : Nat] /\ said \in Nat /\ sizes.raw <= said /\ said <= MaxChunks
  /\ DoingTyped
  /\ age \in Nat /\ store \in [there : BOOLEAN, age : Nat, size : Nat]
  /\ rows \in Seq(LineRecs) /\ dropped \in Seq(PartRecs)

\* As long as one thread at a time is in the recorder, what is open is what is there.
InStep ==
  ~overlap =>
    /\ \A t \in Writers : doing[t].at \in {"rename", "open"} => ~handles
    /\ handles /\ ~deleted => files.there /\ Len(files.lines) = sizes.text

RecInv == RecTypes /\ InStep

\* The highest of some numbers is one of them.
LEMMA Most ==
  ASSUME NEW S \in SUBSET Nat, S # {}, Bounded(S)
  PROVE  Max(S) \in S /\ \A k \in S : k <= Max(S)
<1>1. PICK m \in Nat : \A n \in S : n <= m
  BY DEF Bounded
<1> DEFINE T == {m - k : k \in S}
<1>2. T \in SUBSET Nat /\ T # {}
  <2>1. \A k \in S : m - k \in Nat
    BY <1>1
  <2> QED BY <2>1
<1>3. Min(T) \in T /\ \A k \in T : Min(T) <= k
  BY <1>2, Least
<1>4. PICK x \in S : Min(T) = m - x
  BY <1>3
<1>5. \A y \in S : y <= x
  <2> TAKE y \in S
  <2>1. m - y \in T
    OBVIOUS
  <2>2. m - x <= m - y
    BY <1>3, <1>4, <2>1
  <2> HIDE DEF T
  <2>3. x \in Nat /\ y \in Nat
    OBVIOUS
  <2> QED BY <1>1, <2>2, <2>3
<1> QED BY <1>5 DEF Max

\* The next number is nobody's, and past all there are.
LEMMA NextIs ==
  ASSUME PartsTyped
  PROVE  /\ NextPartNumber \in Nat \ {0} /\ NextPartNumber \notin DOMAIN parts
         /\ \A n \in DOMAIN parts : n < NextPartNumber
<1>1. CASE DOMAIN parts = {}
  BY <1>1 DEF NextPartNumber, Highest
<1>2. CASE DOMAIN parts # {}
  <2>1. Max(DOMAIN parts) \in DOMAIN parts /\ \A k \in DOMAIN parts : k <= Max(DOMAIN parts)
    BY <1>2, Most DEF PartsTyped
  <2>2. NextPartNumber = Max(DOMAIN parts) + 1
    BY <1>2 DEF NextPartNumber, Highest
  <2> QED BY <2>1, <2>2 DEF PartsTyped
<1> QED BY <1>1, <1>2

LEMMA RecordingStarts == Init => RecInv
<1> SUFFICES ASSUME Init PROVE RecInv
  OBVIOUS
<1>1. use.earlier \in Nat /\ RecordingInit(use.earlier)
  BY UsesAssumption DEF Init
<1>2. PartsTyped
  <2>1. DOMAIN parts = 1..use.earlier /\ \A n \in DOMAIN parts : parts[n] = Earlier
    BY <1>1 DEF RecordingInit
  <2>2. Earlier \in PartRecs
    <3>1. <<0>> \in Seq(Nat) /\ <<>> \in Seq(LineRecs)
      OBVIOUS
    <3> QED BY <3>1 DEF Earlier, PartRecs
  <2> QED BY <1>1, <2>1, <2>2 DEF PartsTyped, Bounded
<1>3. DoingTyped
  <2>1. <<>> \in Seq(LineRecs)
    OBVIOUS
  <2>2. Resting \in Doings
    BY <2>1 DEF Resting, Doings, Places
  <2> QED BY <1>1, <2>2 DEF RecordingInit, DoingTyped, Resting
<1>4. files \in FileRecs /\ sizes \in [raw : Nat, text : Nat]
      /\ store \in [there : BOOLEAN, age : Nat, size : Nat]
  BY <1>1 DEF RecordingInit, NoFiles, NoSize, FileRecs
<1>5. RecTypes
  <2>1. own = <<>> /\ rows = <<>> /\ dropped = <<>> /\ sizes.raw = 0 /\ said = 0 /\ age = 0
    BY <1>1 DEF RecordingInit, NoSize
  <2>2. handles \in BOOLEAN /\ deleted \in BOOLEAN /\ overlap \in BOOLEAN
    BY <1>1 DEF RecordingInit
  <2>3. MaxChunks \in Nat
    BY RecordingAssumption
  <2>4. own \in Seq(Nat \ {0}) /\ rows \in Seq(LineRecs) /\ dropped \in Seq(PartRecs)
    BY <2>1
  <2> QED BY <1>2, <1>3, <1>4, <2>1, <2>2, <2>3, <2>4 DEF RecTypes
<1>6. InStep
  BY <1>1 DEF RecordingInit, InStep, Resting
<1> QED BY <1>5, <1>6 DEF RecInv

-----------------------------------------------------------------------------
(* The steps of the recorder *)

\* One thread goes on with what is right for where it is.
Fit(d) ==
  /\ d \in Doings
  /\ d.at = "out" => d.lines = <<>>
  /\ d.at = "lines" => d.lines # <<>>
  /\ d.at \in {"close", "rename", "open", "prune"} => d.number # 0

LEMMA OneGoesOn ==
  ASSUME DoingTyped, NEW t \in Writers, NEW d, Fit(d), doing' = [doing EXCEPT ![t] = d]
  PROVE  DoingTyped' /\ doing'[t] = d /\ \A x \in Writers \ {t} : doing'[x] = doing[x]
<1>1. doing'[t] = d /\ \A x \in Writers \ {t} : doing'[x] = doing[x]
  BY DEF DoingTyped
<1>2. doing' \in [Writers -> Doings]
  BY DEF DoingTyped, Fit
<1>3. \A x \in Writers : Fit(doing'[x])
  BY <1>1 DEF DoingTyped, Fit
<1> QED BY <1>1, <1>2, <1>3 DEF DoingTyped, Fit

LEMMA TurnsIs ==
  ASSUME DoingTyped, NEW t \in Writers, NEW to \in Places, Turns(t, to),
         to = "out" => doing[t].lines = <<>>, to = "lines" => doing[t].lines # <<>>,
         to \in {"close", "rename", "open", "prune"} => doing[t].number # 0
  PROVE  /\ DoingTyped' /\ doing'[t] = [doing[t] EXCEPT !.at = to]
         /\ \A x \in Writers \ {t} : doing'[x] = doing[x]
<1>1. doing[t] \in Doings
  BY DEF DoingTyped
<1>2. Fit([doing[t] EXCEPT !.at = to])
  BY <1>1 DEF Fit, Doings
<1>3. doing' = [doing EXCEPT ![t] = [doing[t] EXCEPT !.at = to]]
  BY DEF Turns, DoingTyped
<1> QED BY <1>2, <1>3, OneGoesOn

LEMMA WroteIs ==
  ASSUME DoingTyped, NEW t \in Writers, NEW size, NEW end, NEW left \in Seq(LineRecs), Wrote(t, size, end, left)
  PROVE  /\ DoingTyped' /\ sizes' = size
         /\ doing'[t] = [Resting EXCEPT !.lines = left,
                                        !.at = IF MustRotate(size, end) THEN "number" ELSE Idle(left)]
         /\ \A x \in Writers \ {t} : doing'[x] = doing[x]
<1> DEFINE d == [Resting EXCEPT !.lines = left, !.at = IF MustRotate(size, end) THEN "number" ELSE Idle(left)]
<1>1. Fit(d)
  <2>1. CASE MustRotate(size, end)
    BY <2>1 DEF Fit, Doings, Resting, Places
  <2>2. CASE ~MustRotate(size, end)
    BY <2>2 DEF Fit, Doings, Resting, Places, Idle
  <2> QED BY <2>1, <2>2
<1>2. doing' = [doing EXCEPT ![t] = d] /\ sizes' = size
  BY DEF Wrote
<1> HIDE DEF d
<1>3. DoingTyped' /\ doing'[t] = d /\ \A x \in Writers \ {t} : doing'[x] = doing[x]
  BY <1>1, <1>2, OneGoesOn
<1> QED BY <1>2, <1>3 DEF d

LEMMA SkippedIs ==
  ASSUME DoingTyped, NEW t \in Writers, NEW left \in Seq(LineRecs), Skipped(t, left)
  PROVE  /\ DoingTyped' /\ UNCHANGED <<files, parts, sizes>>
         /\ doing'[t] = [Resting EXCEPT !.lines = left, !.at = Idle(left)]
         /\ \A x \in Writers \ {t} : doing'[x] = doing[x]
<1> DEFINE d == [Resting EXCEPT !.lines = left, !.at = Idle(left)]
<1>1. Fit(d)
  BY DEF Fit, Doings, Resting, Places, Idle
<1>2. doing' = [doing EXCEPT ![t] = d] /\ UNCHANGED <<files, parts, sizes>>
  BY DEF Skipped
<1> HIDE DEF d
<1>3. DoingTyped' /\ doing'[t] = d /\ \A x \in Writers \ {t} : doing'[x] = doing[x]
  BY <1>1, <1>2, OneGoesOn
<1> QED BY <1>2, <1>3 DEF d

LEMMA ConcatTyped ==
  ASSUME NEW S, NEW s \in Seq(S), NEW u \in Seq(S)
  PROVE  s \o u \in Seq(S) /\ Len(s \o u) = Len(s) + Len(u)
OBVIOUS

LEMMA PutsIs ==
  ASSUME RecTypes, NEW raw \in Seq(Nat), NEW lines \in Seq(LineRecs), Puts(raw, lines)
  PROVE  /\ files' \in FileRecs /\ PartsTyped' /\ DOMAIN parts' = DOMAIN parts
         /\ files.there => /\ parts' = parts
                           /\ files' = [files EXCEPT !.raw = @ \o raw, !.lines = @ \o lines]
         /\ ~files.there => files' = files
<1> DEFINE Add(f) == [f EXCEPT !.raw = @ \o raw, !.lines = @ \o lines]
<1>1. /\ files' = IF files.there THEN Add(files) ELSE files
      /\ parts' = IF files.there \/ own = <<>> \/ Last(own) \notin DOMAIN parts THEN parts
                  ELSE [parts EXCEPT ![Last(own)] = Add(@)]
  BY DEF Puts
<1>2. files' \in FileRecs
  <2>1. files \in FileRecs
    BY DEF RecTypes
  <2>2. Add(files) \in FileRecs
    <3>1. files.raw \o raw \in Seq(Nat) /\ files.lines \o lines \in Seq(LineRecs)
      <4>1. files.raw \in Seq(Nat) /\ files.lines \in Seq(LineRecs)
        BY <2>1 DEF FileRecs
      <4> QED BY <4>1, ConcatTyped
    <3> QED BY <2>1, <3>1 DEF FileRecs
  <2> HIDE DEF Add
  <2> QED BY <1>1, <2>1, <2>2
<1>3. PartsTyped' /\ DOMAIN parts' = DOMAIN parts
  <2>1. PartsTyped
    BY DEF RecTypes
  <2>2. \A n \in DOMAIN parts : Add(parts[n]) \in PartRecs
    <3> SUFFICES ASSUME NEW n \in DOMAIN parts PROVE Add(parts[n]) \in PartRecs
      OBVIOUS
    <3>1. parts[n] \in PartRecs
      BY <2>1 DEF PartsTyped
    <3>2. parts[n].raw \o raw \in Seq(Nat) /\ parts[n].lines \o lines \in Seq(LineRecs)
      <4>1. parts[n].raw \in Seq(Nat) /\ parts[n].lines \in Seq(LineRecs)
        BY <3>1 DEF PartRecs
      <4> QED BY <4>1, ConcatTyped
    <3> QED BY <3>1, <3>2 DEF PartRecs
  <2> HIDE DEF Add
  <2>3. DOMAIN parts' = DOMAIN parts /\ \A n \in DOMAIN parts : parts'[n] \in PartRecs
    BY <1>1, <2>1, <2>2 DEF PartsTyped
  <2> QED BY <2>1, <2>3 DEF PartsTyped
<1> HIDE DEF Add
<1>4. files.there => parts' = parts /\ files' = Add(files)
  BY <1>1
<1>5. ~files.there => files' = files
  BY <1>1
<1> QED BY <1>2, <1>3, <1>4, <1>5 DEF Add

\* Of two threads in the recorder at once one sees the other.
LEMMA NotesIs ==
  ASSUME NEW t \in Writers, overlap \in BOOLEAN, Notes(t)
  PROVE  /\ overlap' \in BOOLEAN /\ (overlap => overlap')
         /\ ~overlap' => \A x \in Writers \ {t} :
                           doing[x].at # "out" => ~Rotating(x) /\ ~Rotating(t)
BY DEF Notes

\* Where a thread goes while nothing of a rotation is left to do.
LEMMA WritesInStep ==
  ASSUME RecInv, NEW t \in Writers, Notes(t), DoingTyped', UNCHANGED <<handles, deleted>>,
         doing'[t].at \notin {"rename", "open"}, \A x \in Writers \ {t} : doing'[x] = doing[x],
         handles /\ files.there =>
           /\ files'.there
           /\ \/ sizes'.text = sizes.text /\ Len(files'.lines) = Len(files.lines)
              \/ sizes'.text = sizes.text + 1 /\ Len(files'.lines) = Len(files.lines) + 1
  PROVE  InStep'
<1> SUFFICES ASSUME ~overlap' PROVE InStep'
  BY DEF InStep
<1>1. ~overlap
  BY NotesIs DEF RecInv, RecTypes
<1>2. \A x \in Writers : doing'[x].at \in {"rename", "open"} => ~handles'
  BY <1>1 DEF RecInv, InStep
<1>3. handles' /\ ~deleted' => files'.there /\ Len(files'.lines) = sizes'.text
  <2> SUFFICES ASSUME handles', ~deleted' PROVE files'.there /\ Len(files'.lines) = sizes'.text
    OBVIOUS
  <2>1. files.there /\ Len(files.lines) = sizes.text
    BY <1>1 DEF RecInv, InStep
  <2> QED BY <2>1
<1> QED BY <1>2, <1>3 DEF InStep

LEMMA ChunkKeeps ==
  ASSUME RecInv, NEW ends \in Nat, HandleChunk(ends)
  PROVE  RecInv'
<1> DEFINE chunk == said + 1
           new   == [i \in 1..ends |-> Line("rx", chunk, Len(rows) + i)]
<1>1. /\ doing["rx"].at = "out" /\ said < MaxChunks
      /\ said' = chunk /\ rows' = rows \o new
      /\ IF handles
           THEN Puts(<<chunk>>, <<>>) /\ Wrote("rx", [sizes EXCEPT !.raw = @ + 1], FALSE, new)
           ELSE Skipped("rx", new)
      /\ Notes("rx")
      /\ UNCHANGED <<handles, own, age, store, deleted, dropped>>
  BY DEF HandleChunk
<1>2. new \in Seq(LineRecs) /\ "rx" \in Writers /\ chunk \in Nat /\ <<chunk>> \in Seq(Nat)
      /\ <<>> \in Seq(LineRecs)
  BY DEF RecInv, RecTypes, Line, LineRecs, Writers
<1> HIDE DEF new, chunk
<1>3. rows' \in Seq(LineRecs)
  BY <1>1, <1>2, ConcatTyped DEF RecInv, RecTypes
<1>4. overlap' \in BOOLEAN
  BY <1>1, <1>2, NotesIs DEF RecInv, RecTypes
<1>5. said' \in Nat /\ said' <= MaxChunks /\ said' = said + 1
  BY <1>1, RecordingAssumption, SMTT(30) DEF RecInv, RecTypes, chunk
<1>6. CASE handles
  <2>1. DoingTyped' /\ sizes' = [sizes EXCEPT !.raw = @ + 1]
    BY <1>1, <1>2, <1>6, WroteIs DEF RecInv, RecTypes
  <2>2. /\ doing'["rx"].at \notin {"rename", "open"}
        /\ \A x \in Writers \ {"rx"} : doing'[x] = doing[x]
    BY <1>1, <1>2, <1>6, WroteIs, ZenonT(60) DEF RecInv, RecTypes, Idle, Resting
  <2>3. files' \in FileRecs /\ PartsTyped'
    BY <1>1, <1>2, <1>6, PutsIs DEF RecInv
  <2>4. files.there => files'.there /\ Len(files'.lines) = Len(files.lines)
    <3>1. files \in FileRecs
      BY DEF RecInv, RecTypes
    <3>2. files.lines \o <<>> = files.lines
      BY <3>1 DEF FileRecs
    <3>3. files.there => files' = [files EXCEPT !.raw = @ \o <<chunk>>, !.lines = @ \o <<>>]
      BY <1>1, <1>2, <1>6, PutsIs DEF RecInv
    <3> QED BY <3>1, <3>2, <3>3 DEF FileRecs
  <2>5. sizes' \in [raw : Nat, text : Nat] /\ sizes'.raw = sizes.raw + 1 /\ sizes'.text = sizes.text
    <3>1. sizes \in [raw : Nat, text : Nat]
      BY DEF RecInv, RecTypes
    <3> QED BY <2>1, <3>1
  <2>6. RecTypes'
    BY <1>1, <1>3, <1>4, <1>5, <2>1, <2>3, <2>5 DEF RecInv, RecTypes
  <2>8. InStep'
    BY <1>1, <1>2, <2>1, <2>2, <2>3, <2>4, <2>5, WritesInStep
  <2> QED BY <2>6, <2>8 DEF RecInv
<1>7. CASE ~handles
  <2>1. DoingTyped' /\ UNCHANGED <<files, parts, sizes>>
    BY <1>1, <1>2, <1>7, SkippedIs DEF RecInv, RecTypes
  <2>2. /\ doing'["rx"].at \notin {"rename", "open"}
        /\ \A x \in Writers \ {"rx"} : doing'[x] = doing[x]
    BY <1>1, <1>2, <1>7, SkippedIs, ZenonT(60) DEF RecInv, RecTypes, Idle, Resting
  <2>3. RecTypes'
    BY <1>1, <1>3, <1>4, <1>5, <2>1 DEF RecInv, RecTypes, PartsTyped
  <2>4. InStep'
    BY <1>1, <1>2, <1>7, <2>1, <2>2, WritesInStep
  <2> QED BY <2>3, <2>4 DEF RecInv
<1> QED BY <1>6, <1>7

LEMMA TypedKeeps ==
  ASSUME RecInv, HandleTyped
  PROVE  RecInv'
<1> DEFINE line == Line("tx", 0, Len(rows) + 1)
           d    == [Resting EXCEPT !.at = "lines", !.lines = <<line>>]
<1>1. /\ doing["tx"].at = "out" /\ rows' = Append(rows, line) /\ doing' = [doing EXCEPT !["tx"] = d]
      /\ UNCHANGED <<files, handles, parts, own, sizes, age, store, deleted, said, dropped, overlap>>
  BY DEF HandleTyped
<1>2. line \in LineRecs
  BY DEF RecInv, RecTypes, Line, LineRecs, Writers
<1>3. Fit(d) /\ d.at = "lines" /\ "tx" \in Writers
  <2>1. <<line>> \in Seq(LineRecs) /\ <<line>> # <<>>
    BY <1>2
  <2> HIDE DEF line
  <2> QED BY <2>1 DEF Fit, Doings, Resting, Places, Writers
<1> HIDE DEF d, line
<1>4. DoingTyped' /\ doing'["tx"] = d /\ \A x \in Writers \ {"tx"} : doing'[x] = doing[x]
  BY <1>1, <1>3, OneGoesOn DEF RecInv, RecTypes
<1>5. rows' \in Seq(LineRecs)
  BY <1>1, <1>2 DEF RecInv, RecTypes
<1>6. RecTypes'
  BY <1>1, <1>4, <1>5 DEF RecInv, RecTypes, PartsTyped
<1>7. InStep'
  BY <1>1, <1>3, <1>4 DEF RecInv, InStep
<1> QED BY <1>6, <1>7 DEF RecInv

LEMMA LineKeeps ==
  ASSUME RecInv, NEW t \in Writers, HandleLine(t)
  PROVE  RecInv'
<1> DEFINE line == Head(doing[t].lines)
           left == Tail(doing[t].lines)
<1>1. /\ doing[t].at = "lines"
      /\ IF handles
           THEN Puts(<<>>, <<line>>) /\ Wrote(t, [sizes EXCEPT !.text = @ + 1], TRUE, left)
           ELSE Skipped(t, left)
      /\ Notes(t)
      /\ UNCHANGED <<handles, own, age, store, deleted, said, rows, dropped>>
  BY DEF HandleLine
<1>2. line \in LineRecs /\ left \in Seq(LineRecs) /\ <<line>> \in Seq(LineRecs) /\ <<>> \in Seq(Nat)
  <2>1. doing[t].lines \in Seq(LineRecs) /\ doing[t].lines # <<>>
    BY <1>1 DEF RecInv, RecTypes, DoingTyped, Doings
  <2> QED BY <2>1
<1> HIDE DEF line, left
<1>4. overlap' \in BOOLEAN
  BY <1>1, NotesIs DEF RecInv, RecTypes
<1>6. CASE handles
  <2>1. DoingTyped' /\ sizes' = [sizes EXCEPT !.text = @ + 1]
    BY <1>1, <1>2, <1>6, WroteIs DEF RecInv, RecTypes
  <2>2. /\ doing'[t].at \notin {"rename", "open"}
        /\ \A x \in Writers \ {t} : doing'[x] = doing[x]
    BY <1>1, <1>2, <1>6, WroteIs, ZenonT(60) DEF RecInv, RecTypes, Idle, Resting
  <2>3. files' \in FileRecs /\ PartsTyped'
    BY <1>1, <1>2, <1>6, PutsIs DEF RecInv
  <2>4. files.there => files'.there /\ Len(files'.lines) = Len(files.lines) + 1
    <3>1. files.lines \in Seq(LineRecs)
      BY DEF RecInv, RecTypes, FileRecs
    <3>2. Len(files.lines \o <<line>>) = Len(files.lines) + 1
      BY <1>2, <3>1
    <3>3. files \in FileRecs
      BY DEF RecInv, RecTypes
    <3>4. files.there => files' = [files EXCEPT !.raw = @ \o <<>>, !.lines = @ \o <<line>>]
      BY <1>1, <1>2, <1>6, PutsIs DEF RecInv
    <3> QED BY <3>2, <3>3, <3>4 DEF FileRecs
  <2>5. sizes' \in [raw : Nat, text : Nat] /\ sizes'.raw = sizes.raw /\ sizes'.text = sizes.text + 1
    <3>1. sizes \in [raw : Nat, text : Nat]
      BY DEF RecInv, RecTypes
    <3> QED BY <2>1, <3>1
  <2>6. RecTypes'
    BY <1>1, <1>4, <2>1, <2>3, <2>5 DEF RecInv, RecTypes
  <2>8. InStep'
    BY <1>1, <2>1, <2>2, <2>3, <2>4, <2>5, WritesInStep
  <2> QED BY <2>6, <2>8 DEF RecInv
<1>7. CASE ~handles
  <2>1. DoingTyped' /\ UNCHANGED <<files, parts, sizes>>
    BY <1>1, <1>2, <1>7, SkippedIs DEF RecInv, RecTypes
  <2>2. /\ doing'[t].at \notin {"rename", "open"}
        /\ \A x \in Writers \ {t} : doing'[x] = doing[x]
    BY <1>1, <1>2, <1>7, SkippedIs DEF RecInv, RecTypes, Idle, Resting
  <2>3. RecTypes'
    BY <1>1, <1>4, <2>1 DEF RecInv, RecTypes, PartsTyped
  <2>4. InStep'
    BY <1>1, <1>7, <2>1, <2>2, WritesInStep
  <2> QED BY <2>3, <2>4 DEF RecInv
<1> QED BY <1>6, <1>7

LEMMA NumberKeeps ==
  ASSUME RecInv, NEW t \in Writers, Number(t)
  PROVE  RecInv'
<1> DEFINE d == [doing[t] EXCEPT !.at = "close", !.number = NextPartNumber, !.had = handles]
<1>1. /\ doing[t].at = "number" /\ doing' = [doing EXCEPT ![t] = d] /\ Notes(t)
      /\ UNCHANGED <<files, handles, parts, own, sizes, age, store, deleted, said, rows, dropped>>
  BY DEF Number, RecInv, RecTypes, DoingTyped
<1>2. Fit(d) /\ d.at = "close"
  <2>1. NextPartNumber \in Nat \ {0} /\ handles \in BOOLEAN /\ doing[t] \in Doings
    BY NextIs DEF RecInv, RecTypes, DoingTyped
  <2> QED BY <2>1 DEF Fit, Doings, Places
<1> HIDE DEF d
<1>3. DoingTyped' /\ doing'[t] = d /\ \A x \in Writers \ {t} : doing'[x] = doing[x]
  BY <1>1, <1>2, OneGoesOn DEF RecInv, RecTypes
<1>4. RecTypes'
  BY <1>1, <1>3, NotesIs DEF RecInv, RecTypes, PartsTyped
<1>5. InStep'
  BY <1>1, <1>2, <1>3, WritesInStep
<1> QED BY <1>4, <1>5 DEF RecInv

LEMMA CloseKeeps ==
  ASSUME RecInv, NEW t \in Writers, CloseFiles(t)
  PROVE  RecInv'
<1>1. /\ doing[t].at = "close" /\ Turns(t, "rename") /\ handles' = FALSE /\ Notes(t)
      /\ UNCHANGED <<files, parts, own, sizes, age, store, deleted, said, rows, dropped>>
  BY DEF CloseFiles
<1>2. DoingTyped'
  BY <1>1, TurnsIs DEF RecInv, RecTypes, DoingTyped, Places
<1>3. RecTypes'
  BY <1>1, <1>2, NotesIs DEF RecInv, RecTypes, PartsTyped
<1>4. InStep'
  BY <1>1 DEF InStep
<1> QED BY <1>3, <1>4 DEF RecInv

\* The part that is renamed holds what the files held.
LEMMA RenamedIs ==
  ASSUME RecInv, NEW t \in Writers, RenameFiles(t), doing[t].had
  PROVE  /\ files.there /\ files' = NoFiles /\ age' = 0 /\ own' = Append(own, doing[t].number)
         /\ doing[t].number \in Nat \ {0} /\ PartsTyped'
         /\ DOMAIN parts' = DOMAIN parts \union {doing[t].number}
         /\ parts'[doing[t].number] = [raw |-> files.raw, lines |-> files.lines]
         /\ \A n \in DOMAIN parts \ {doing[t].number} : parts'[n] = parts[n]
<1> DEFINE number == doing[t].number
<1>1. /\ doing[t].at = "rename" /\ files.there /\ files' = NoFiles /\ age' = 0 /\ own' = Append(own, number)
      /\ parts' = [n \in DOMAIN parts \union {number} |->
                     IF n = number THEN [raw |-> files.raw, lines |-> files.lines] ELSE parts[n]]
  BY DEF RenameFiles
<1>2. number \in Nat \ {0}
  BY <1>1 DEF RecInv, RecTypes, DoingTyped, Doings
<1>3. [raw |-> files.raw, lines |-> files.lines] \in PartRecs
  BY DEF RecInv, RecTypes, FileRecs, PartRecs
<1> HIDE DEF number
<1>4. PartsTyped
  BY DEF RecInv, RecTypes
<1>5. DOMAIN parts' = DOMAIN parts \union {number} /\ \A n \in DOMAIN parts' : parts'[n] \in PartRecs
  BY <1>1, <1>3, <1>4 DEF PartsTyped
<1>6. Bounded(DOMAIN parts')
  <2>1. PICK m \in Nat : \A n \in DOMAIN parts : n <= m
    BY <1>4 DEF PartsTyped, Bounded
  <2>2. m + number \in Nat /\ \A n \in DOMAIN parts : n <= m + number
    BY <1>2, <1>4, <2>1 DEF PartsTyped
  <2>3. number <= m + number
    BY <1>2, <2>1
  <2> QED BY <1>5, <2>2, <2>3 DEF Bounded
<1>7. PartsTyped'
  BY <1>2, <1>4, <1>5, <1>6 DEF PartsTyped
<1>8. parts'[number] = [raw |-> files.raw, lines |-> files.lines]
  BY <1>1
<1>9. \A n \in DOMAIN parts \ {number} : parts'[n] = parts[n]
  BY <1>1
<1> QED BY <1>1, <1>2, <1>5, <1>7, <1>8, <1>9 DEF number

LEMMA RenameKeeps ==
  ASSUME RecInv, NEW t \in Writers, RenameFiles(t)
  PROVE  RecInv'
<1>1. /\ doing[t].at = "rename" /\ Turns(t, "open") /\ Notes(t)
      /\ UNCHANGED <<handles, sizes, store, deleted, said, rows, dropped>>
      /\ ~doing[t].had => UNCHANGED <<parts, files, age, own>>
  BY DEF RenameFiles
<1>2. DoingTyped' /\ \A x \in Writers \ {t} : doing'[x] = doing[x]
  BY <1>1, TurnsIs DEF RecInv, RecTypes, DoingTyped, Places
<1>3. files' \in FileRecs /\ PartsTyped' /\ age' \in Nat /\ own' \in Seq(Nat \ {0})
  <2>1. CASE doing[t].had
    <3>1. NoFiles \in FileRecs
      BY DEF NoFiles, FileRecs
    <3>2. own' \in Seq(Nat \ {0})
      <4>1. own \in Seq(Nat \ {0})
        BY DEF RecInv, RecTypes
      <4>2. own' = Append(own, doing[t].number) /\ doing[t].number \in Nat \ {0}
        BY <2>1, RenamedIs
      <4> QED BY <4>1, <4>2
    <3>3. files' = NoFiles /\ age' = 0 /\ PartsTyped'
      BY <2>1, RenamedIs
    <3> QED BY <3>1, <3>2, <3>3
  <2>2. CASE ~doing[t].had
    BY <1>1, <2>2 DEF RecInv, RecTypes, PartsTyped
  <2> QED BY <2>1, <2>2
<1>4. RecTypes'
  BY <1>1, <1>2, <1>3, NotesIs DEF RecInv, RecTypes
<1>5. InStep'
  <2> SUFFICES ASSUME ~overlap' PROVE InStep'
    BY DEF InStep
  <2>1. ~overlap
    BY <1>1, NotesIs DEF RecInv, RecTypes
  <2>2. ~handles
    BY <1>1, <2>1 DEF RecInv, InStep
  <2> QED BY <1>1, <2>2 DEF InStep
<1> QED BY <1>4, <1>5 DEF RecInv

\* A thread that raises, or has pruned, goes on with its next line.
LEMMA IdlesIs ==
  ASSUME RecInv, NEW t \in Writers, Turns(t, Idle(doing[t].lines))
  PROVE  /\ DoingTyped' /\ doing'[t] = [doing[t] EXCEPT !.at = Idle(doing[t].lines)]
         /\ doing'[t].at \in {"out", "lines"}
         /\ \A x \in Writers \ {t} : doing'[x] = doing[x]
<1> DEFINE to == Idle(doing[t].lines)
<1>1. doing[t] \in Doings
  BY DEF RecInv, RecTypes, DoingTyped
<1>2. /\ to \in Places /\ (to = "out" => doing[t].lines = <<>>) /\ (to = "lines" => doing[t].lines # <<>>)
      /\ to \notin {"close", "rename", "open", "prune"} /\ to \in {"out", "lines"}
  BY DEF Idle, Places
<1> HIDE DEF to
<1>3. Turns(t, to)
  BY DEF to
<1>4. /\ DoingTyped' /\ doing'[t] = [doing[t] EXCEPT !.at = to]
      /\ \A x \in Writers \ {t} : doing'[x] = doing[x]
  BY <1>2, <1>3, TurnsIs DEF RecInv, RecTypes
<1>5. doing'[t].at = to
  BY <1>1, <1>4 DEF Doings
<1> QED BY <1>2, <1>4, <1>5 DEF to

LEMMA RaisesKeeps ==
  ASSUME RecInv, NEW t \in Writers, RotationRaises(t)
  PROVE  RecInv'
<1>1. /\ Turns(t, Idle(doing[t].lines)) /\ Notes(t)
      /\ UNCHANGED <<files, handles, parts, own, sizes, age, store, deleted, said, rows, dropped>>
  BY DEF RotationRaises
<1>2. RecTypes'
  BY <1>1, IdlesIs, NotesIs DEF RecInv, RecTypes, PartsTyped
<1>3. InStep'
  <2>1. /\ DoingTyped' /\ doing'[t].at \notin {"rename", "open"}
        /\ \A x \in Writers \ {t} : doing'[x] = doing[x]
    BY <1>1, IdlesIs
  <2> QED BY <1>1, <2>1, WritesInStep
<1> QED BY <1>2, <1>3 DEF RecInv

LEMMA OpensKeeps ==
  ASSUME RecInv, NEW t \in Writers, OpenNext(t)
  PROVE  RecInv'
<1>1. /\ doing[t].at = "open" /\ ~deleted
      /\ handles' = TRUE /\ files' = Empty /\ sizes' = NoSize /\ age' = 0
      /\ Turns(t, "prune") /\ Notes(t)
      /\ UNCHANGED <<parts, own, store, deleted, said, rows, dropped>>
  BY DEF OpenNext
<1>2. /\ DoingTyped' /\ doing'[t] = [doing[t] EXCEPT !.at = "prune"]
      /\ \A x \in Writers \ {t} : doing'[x] = doing[x]
  BY <1>1, TurnsIs DEF RecInv, RecTypes, DoingTyped, Places
<1>3. files' \in FileRecs /\ sizes' \in [raw : Nat, text : Nat] /\ sizes'.raw <= said
  <2>1. said \in Nat
    BY DEF RecInv, RecTypes
  <2> QED BY <1>1, <2>1 DEF Empty, NoSize, FileRecs
<1>4. RecTypes'
  BY <1>1, <1>2, <1>3, NotesIs DEF RecInv, RecTypes, PartsTyped
<1>5. InStep'
  <2> SUFFICES ASSUME ~overlap' PROVE InStep'
    BY DEF InStep
  <2>1. \A x \in Writers \ {t} : doing[x].at # "out" => ~Rotating(t)
    BY <1>1, NotesIs DEF RecInv, RecTypes
  <2>2. \A x \in Writers \ {t} : doing'[x].at = "out"
    BY <1>1, <1>2, <2>1 DEF Rotating
  <2>3. doing'[t].at = "prune"
    BY <1>2 DEF RecInv, RecTypes, DoingTyped, Doings
  <2> QED BY <1>1, <2>2, <2>3 DEF InStep, Empty, NoSize
<1> QED BY <1>4, <1>5 DEF RecInv

\* What keep_parts drops is the beginning of what the run has finished.
Extra  == IF KeepParts > 0 /\ Len(own) > KeepParts THEN Len(own) - KeepParts ELSE 0
Oldest == SubSeq(own, 1, Extra)

LEMMA PrunedIs ==
  ASSUME RecInv, NEW t \in Writers, PruneParts(t)
  PROVE  /\ doing[t].at = "prune" /\ Extra \in 0..Len(own)
         /\ Oldest \in Seq(Nat \ {0}) /\ Len(Oldest) = Extra
         /\ DOMAIN parts' = DOMAIN parts \ ToSet(Oldest) /\ PartsTyped'
         /\ \A n \in DOMAIN parts' : parts'[n] = parts[n]
         /\ own' = SubSeq(own, Extra + 1, Len(own)) /\ own' \in Seq(Nat \ {0})
         /\ dropped' = dropped \o [i \in 1..Extra |-> Held(Oldest[i])] /\ dropped' \in Seq(PartRecs)
         /\ age' \in Nat /\ Turns(t, Idle(doing[t].lines)) /\ Notes(t)
         /\ UNCHANGED <<files, handles, sizes, store, deleted, said, rows>>
<1>1. /\ doing[t].at = "prune"
      /\ parts' = [n \in DOMAIN parts \ ToSet(Oldest) |-> parts[n]]
      /\ own'   = SubSeq(own, Extra + 1, Len(own))
      /\ dropped' = dropped \o [i \in 1..Len(Oldest) |-> Held(Oldest[i])]
      /\ age' = IF ToSet(Oldest) \intersect DOMAIN parts = {} THEN age ELSE 0
      /\ Turns(t, Idle(doing[t].lines)) /\ Notes(t)
      /\ UNCHANGED <<files, handles, sizes, store, deleted, said, rows>>
  BY DEF PruneParts, Extra, Oldest
<1>2. own \in Seq(Nat \ {0}) /\ dropped \in Seq(PartRecs) /\ PartsTyped /\ age \in Nat
  BY DEF RecInv, RecTypes
<1>3. Extra \in 0..Len(own)
  BY <1>2, RecordingAssumption DEF Extra
<1>4. Oldest \in Seq(Nat \ {0}) /\ Len(Oldest) = Extra
  BY <1>2, <1>3 DEF Oldest
<1>5. own' \in Seq(Nat \ {0})
  BY <1>1, <1>2, <1>3
<1>6. \A n : Held(n) \in PartRecs
  <2>1. NoPart \in PartRecs
    BY DEF NoPart, PartRecs
  <2> QED BY <1>2, <2>1 DEF Held, PartsTyped
<1>7. dropped' \in Seq(PartRecs)
  <2>1. [i \in 1..Extra |-> Held(Oldest[i])] \in Seq(PartRecs)
    BY <1>3, <1>6
  <2> QED BY <1>1, <1>2, <1>4, <2>1, ConcatTyped
<1>8. DOMAIN parts' = DOMAIN parts \ ToSet(Oldest) /\ \A n \in DOMAIN parts' : parts'[n] = parts[n]
  BY <1>1
<1>9. PartsTyped'
  <2>1. Bounded(DOMAIN parts')
    BY <1>2, <1>8 DEF PartsTyped, Bounded
  <2> QED BY <1>2, <1>8, <2>1 DEF PartsTyped
<1> QED BY <1>1, <1>2, <1>3, <1>4, <1>5, <1>7, <1>8, <1>9

LEMMA DropsKeeps ==
  ASSUME RecInv, NEW t \in Writers, PruneParts(t)
  PROVE  RecInv'
<1>1. /\ PartsTyped' /\ own' \in Seq(Nat \ {0}) /\ dropped' \in Seq(PartRecs) /\ age' \in Nat
      /\ Turns(t, Idle(doing[t].lines)) /\ Notes(t)
      /\ UNCHANGED <<files, handles, sizes, store, deleted, said, rows>>
  BY PrunedIs
<1>2. /\ DoingTyped' /\ doing'[t].at \notin {"rename", "open"}
      /\ \A x \in Writers \ {t} : doing'[x] = doing[x]
  BY <1>1, IdlesIs
<1>3. RecTypes'
  BY <1>1, <1>2, NotesIs DEF RecInv, RecTypes
<1>4. InStep'
  BY <1>1, <1>2, WritesInStep
<1> QED BY <1>3, <1>4 DEF RecInv

LEMMA OpeningKeeps ==
  ASSUME RecInv, OpenRecorder, \A t \in Writers : doing[t].at = "out"
  PROVE  RecInv'
<1>1. /\ handles' = TRUE /\ files' = Empty /\ sizes' = NoSize /\ age' = 0
      /\ UNCHANGED <<parts, own, doing, store, deleted, said, rows, dropped, overlap>>
  BY DEF OpenRecorder
<1>2. files' \in FileRecs /\ sizes' \in [raw : Nat, text : Nat] /\ sizes'.raw <= said
  <2>1. said \in Nat
    BY DEF RecInv, RecTypes
  <2> QED BY <1>1, <2>1 DEF Empty, NoSize, FileRecs
<1>3. RecTypes'
  BY <1>1, <1>2 DEF RecInv, RecTypes, PartsTyped, DoingTyped
<1>4. InStep'
  BY <1>1 DEF InStep, Empty, NoSize
<1> QED BY <1>3, <1>4 DEF RecInv

LEMMA ClosingKeeps ==
  ASSUME RecInv, CloseRecorder
  PROVE  RecInv'
<1>1. /\ handles' = FALSE /\ overlap' = (overlap \/ doing["tx"].at # "out")
      /\ UNCHANGED <<files, parts, own, sizes, doing, age, store, deleted, said, rows, dropped>>
  BY DEF CloseRecorder
<1>2. overlap' \in BOOLEAN
  BY <1>1
<1>3. RecTypes'
  BY <1>1, <1>2 DEF RecInv, RecTypes, PartsTyped, DoingTyped
<1>4. InStep'
  BY <1>1 DEF InStep
<1> QED BY <1>3, <1>4 DEF RecInv

LEMMA RetainKeeps ==
  ASSUME RecInv, Retain
  PROVE  RecInv'
<1>1. PICK gone : /\ store'   = [store EXCEPT !.there = @ /\ 1 \notin gone]
                  /\ deleted' = (deleted \/ 2 \in gone)
                  /\ IF 2 \in gone
                       THEN files' = NoFiles /\ parts' = [n \in {} |-> Earlier]
                       ELSE UNCHANGED <<files, parts>>
                  /\ UNCHANGED <<handles, own, sizes, doing, age, said, rows, dropped, overlap>>
  BY DEF Retain
<1>2. deleted' \in BOOLEAN /\ store' \in [there : BOOLEAN, age : Nat, size : Nat]
  <2>1. deleted' \in BOOLEAN
    BY <1>1
  <2>2. store \in [there : BOOLEAN, age : Nat, size : Nat]
    BY DEF RecInv, RecTypes
  <2>3. (store.there /\ 1 \notin gone) \in BOOLEAN
    OBVIOUS
  <2> QED BY <1>1, <2>1, <2>2, <2>3
<1>3. files' \in FileRecs /\ PartsTyped'
  <2>1. CASE 2 \in gone
    <3>1. NoFiles \in FileRecs
      BY DEF NoFiles, FileRecs
    <3> QED BY <1>1, <2>1, <3>1 DEF PartsTyped, Bounded
  <2>2. CASE 2 \notin gone
    BY <1>1, <2>2 DEF RecInv, RecTypes, PartsTyped
  <2> QED BY <2>1, <2>2
<1>4. RecTypes'
  BY <1>1, <1>2, <1>3 DEF RecInv, RecTypes, DoingTyped
<1>5. InStep'
  BY <1>1 DEF RecInv, InStep
<1> QED BY <1>4, <1>5 DEF RecInv

LEMMA DayKeeps ==
  ASSUME RecInv, Day
  PROVE  RecInv'
<1>1. /\ age' = age + 1 /\ store' = [store EXCEPT !.age = @ + 1]
      /\ UNCHANGED <<files, handles, parts, own, sizes, doing, deleted, said, rows, dropped, overlap>>
  BY DEF Day
<1>2. age' \in Nat /\ store' \in [there : BOOLEAN, age : Nat, size : Nat]
  <2>1. age \in Nat /\ store \in [there : BOOLEAN, age : Nat, size : Nat]
    BY DEF RecInv, RecTypes
  <2> QED BY <1>1, <2>1
<1>3. RecTypes'
  BY <1>1, <1>2 DEF RecInv, RecTypes, PartsTyped, DoingTyped
<1>4. InStep'
  BY <1>1 DEF RecInv, InStep
<1> QED BY <1>3, <1>4 DEF RecInv

LEMMA RotateKeeps ==
  ASSUME RecInv, NEW t \in Writers, HandleLine(t) \/ Rotate(t)
  PROVE  RecInv'
BY LineKeeps, NumberKeeps, CloseKeeps, RenameKeeps, RaisesKeeps, OpensKeeps, DropsKeeps DEF Rotate

LEMMA SameRecording ==
  ASSUME RecInv, UNCHANGED recordingVars
  PROVE  RecInv'
BY DEF recordingVars, RecInv, RecTypes, PartsTyped, DoingTyped, InStep

-----------------------------------------------------------------------------
(* The recorder and the session it is of *)

NotYet(p) ==
  \/ ~IsSession(p)
  \/ Starts(p) /\ at[p] \in {"look", "prune", "check", "holder", "write", "retain", "build"}
  \/ Serves(p) /\ at[p] \in {"retain", "build"}

Done(p) == IsSession(p) /\ at[p] \in {"remove", "ended"}

Untouched ==
  /\ ~handles /\ files = NoFiles /\ own = <<>> /\ sizes = NoSize
  /\ said = 0 /\ rows = <<>> /\ dropped = <<>>
  /\ \A t \in Writers : doing[t] = Resting

Quiet == overlap \/ (~handles /\ \A t \in Writers : doing[t].at = "out")

\* Nothing is recorded before the recorder is opened, and nothing after it is closed, unless a
\* thread was still in it.
Recorded ==
  /\ use.records = 0 \/ NotYet(use.records) => Untouched
  /\ use.records # 0 /\ Done(use.records) => Quiet

HostInv == RegistryInv /\ RecInv /\ Recorded

\* No step of a process takes a session back to before its recorder, or past it.
LEMMA PlacesOf ==
  ASSUME RegistryInv, RegistryInv', UNCHANGED use, NEW p \in Procs, NEW r \in Procs,
         Retained(p) \/ RegistryStep(p) \/ RegistryFails(p) \/ Crash(p) \/ \E new \in Ports : MoveBegins(p, new)
  PROVE  (NotYet(r)' => NotYet(r)) /\ (Done(r)' => Done(r) \/ NotYet(r))
<1>1. /\ job' = job /\ IsSession(r)' = IsSession(r) /\ Starts(r)' = Starts(r) /\ Serves(r)' = Serves(r)
  <2>1. job' = job
    BY DEF RegistryInv, Types
  <2> QED BY <2>1 DEF IsSession, Starts, Serves
<1>2. (IsSession(r) <=> Starts(r) \/ Serves(r)) /\ PlaceOf(r) /\ PlaceOf(p) /\ PlaceOf(r)'
      /\ at \in [Procs -> Stages]
  BY DEF IsSession, Starts, Serves, RegistryInv, PlaceInv, Types
<1>3. CASE at' = at
  BY <1>1, <1>3 DEF NotYet, Done
<1>4. CASE Signal(p) \/ StartTimesOut(p)
  <2>1. Killing(p) \/ Staying(p)
    BY <1>4, Signalling
  <2>2. at'[r] = at[r] \/ at'[r] \in {"killed", "wait"}
    BY <1>2, <2>1 DEF Killing, Staying
  <2> QED BY <1>1, <2>2 DEF NotYet, Done
<1>5. ASSUME NEW to, at' = [at EXCEPT ![p] = to], NotYet(p)' => NotYet(p), Done(p)' => Done(p) \/ NotYet(p)
      PROVE  (NotYet(r)' => NotYet(r)) /\ (Done(r)' => Done(r) \/ NotYet(r))
  <2>1. CASE r = p
    BY <1>5, <2>1
  <2>2. CASE r # p
    <3>1. at'[r] = at[r]
      BY <1>2, <1>5, <2>2
    <3> QED BY <1>1, <3>1 DEF NotYet, Done
  <2> QED BY <2>1, <2>2
<1>6. /\ job[p] = job'[p] /\ IsSession(p)' = IsSession(p) /\ Starts(p)' = Starts(p) /\ Serves(p)' = Serves(p)
      /\ IsSession(p) <=> Starts(p) \/ Serves(p)
      /\ PlaceOf(p)
  <2>1. job' = job
    BY DEF RegistryInv, Types
  <2> QED BY <2>1 DEF IsSession, Starts, Serves, RegistryInv, PlaceInv
<1>7. ASSUME NEW to, at' = [at EXCEPT ![p] = to],
             to \in {"retain", "build"} =>
               at[p] \in {"look", "prune", "check", "holder", "write", "retain", "build"}
                 /\ (Serves(p) => at[p] \in {"retain", "build"}),
             to \in {"look", "prune", "check", "holder", "write"} /\ Starts(p)
                 => at[p] \in {"look", "prune", "check", "holder", "write"},
             to \in {"ended", "remove"} /\ IsSession(p) => at[p] \in {"remove", "ended"} \/ NotYet(p)
      PROVE  (NotYet(r)' => NotYet(r)) /\ (Done(r)' => Done(r) \/ NotYet(r))
  <2>1. at'[p] = to
    BY <1>2, <1>7
  <2>2. NotYet(p)' => NotYet(p)
    BY <1>6, <1>7, <2>1 DEF NotYet
  <2>3. Done(p)' => Done(p) \/ NotYet(p)
    BY <1>6, <1>7, <2>1 DEF Done
  <2> QED BY <1>5, <1>7, <2>2, <2>3
<1>8. CASE Crash(p)
  <2>1. at' = [at EXCEPT ![p] = "killed"]
    BY <1>8 DEF Crash
  <2> QED BY <1>7, <2>1
<1>9. CASE \/ Retained(p) \/ Bind(p) \/ ServeEnds(p) \/ RestoreTerm(p)
           \/ Unmirror(p) \/ StillRunning(p) \/ CheckHolder(p) \/ CannotWrite(p) \/ SetupFails(p)
  <2>1. PICK to : GoesOn(p, to) /\ at' = [at EXCEPT ![p] = to]
    BY <1>9, Goings DEF Going
  <2>2. at[p] # "unrecord"
    BY <1>9 DEF Retained, Bind, ServeEnds, RestoreTerm, Unmirror, StillRunning, CheckHolder, CannotWrite,
     SetupFails
  <2> QED BY <1>6, <1>7, <2>1, <2>2 DEF GoesOn, NotYet, PlaceOf
<1>10. CASE Look(p) \/ Shows(p) \/ Find(p) \/ Check(p) \/ Connect(p)
  <2>1. PICK to : /\ at' = [at EXCEPT ![p] = to]
                  /\ \/ at[p] = "look" /\ to = "prune"
                     \/ at[p] = "check" /\ to \in {"holder", "ended"}
                     \/ at[p] \in {"find", "connect"} /\ to \in {"ended", "connect", "signal"}
    BY <1>10 DEF Look, Shows, Find, Check, Connect
  <2> QED BY <1>6, <1>7, <2>1 DEF NotYet, PlaceOf
<1>11. CASE Prune(p) \/ GoneAlready(p) \/ Stopped(p) \/ Clean(p) \/ Unregister(p)
  <2>1. PICK to : /\ at' = [at EXCEPT ![p] = to]
                  /\ \/ at[p] = "prune" /\ to \in {"check", "name", "find"}
                     \/ at[p] \in {"signal", "wait", "remove"} /\ to = "ended"
                     \/ at[p] = "clean" /\ to = "restore"
    BY <1>11 DEF Prune, GoneAlready, Stopped, Clean, Unregister
  <2> QED BY <1>6, <1>7, <2>1 DEF NotYet, PlaceOf
<1>12. CASE WriteUnbound(p) \/ WriteServed(p) \/ Ready(p) \/ TakeName(p) \/ NotRegistered(p)
            \/ ReadyUnwritten(p)
  <2>1. PICK to : /\ at' = [at EXCEPT ![p] = to]
                  /\ \/ at[p] = "write" /\ Starts(p) /\ to = "retain"
                     \/ at[p] = "name" /\ to = "write"
                     \/ to \in {"serve", "clean"}
    BY <1>12 DEF WriteUnbound, WriteServed, Ready, TakeName, NotRegistered, ReadyUnwritten, SetUp, Starts
  <2> QED BY <1>6, <1>7, <2>1 DEF NotYet, PlaceOf, Starts, Serves
<1>13. CASE ClearLink(p) \/ MakeLink(p) \/ Unlink(p)
  <2>1. PICK to :
          at' = [at EXCEPT ![p] = to] /\ to \in {"link", "ready", "look", "clean", "unrecord"}
            /\ (Starts(p) => to # "look")
    BY <1>13 DEF ClearLink, MakeLink, Unlink, Starts
  <2> QED BY <1>6, <1>7, <2>1
<1>14. CASE MoveWrites(p) \/ MoveUnwritten(p) \/ \E new \in Ports : MoveBegins(p, new)
  BY <1>3, <1>14 DEF MoveWrites, MoveUnwritten, MoveBegins
<1> QED BY <1>4, <1>8, <1>9, <1>10, <1>11, <1>12, <1>13, <1>14 DEF RegistryStep, RegistryFails

\* The steps of a process that leave the recorder alone, and those that do not.
LEMMA Touching ==
  ASSUME Next
  PROVE  /\ UNCHANGED use
         /\ \/ UNCHANGED recordingVars /\ \E p \in Procs :
                 \/ Retained(p) \/ RegistryStep(p) \/ RegistryFails(p) \/ Crash(p)
                 \/ \E new \in Ports : MoveBegins(p, new)
                 \/ (Build(p) \/ Unrecord(p)) /\ p # use.records
            \/ Retain /\ \E p \in Procs : Retained(p)
            \/ use.records \in Procs /\ Build(use.records) /\ OpenRecorder
            \/ use.records \in Procs /\ Unrecord(use.records) /\ CloseRecorder
            \/ Speaks \/ Passes
<1>1. ASSUME NEW p \in Procs, Retains(p) PROVE Retained(p) /\ (Retain \/ UNCHANGED recordingVars)
  BY <1>1 DEF Retains, Retained
<1>2. ASSUME NEW p \in Procs, Builds(p)
      PROVE  \/ p # use.records /\ Build(p) /\ UNCHANGED recordingVars
             \/ use.records = p /\ Build(p) /\ OpenRecorder
  BY <1>2 DEF Builds, Quietly
<1>3. ASSUME NEW p \in Procs, Unrecords(p)
      PROVE  \/ p # use.records /\ Unrecord(p) /\ UNCHANGED recordingVars
             \/ use.records = p /\ Unrecord(p) /\ CloseRecorder
  BY <1>3 DEF Unrecords, Quietly
<1> QED BY <1>1, <1>2, <1>3 DEF Next

LEMMA UntouchedStays ==
  ASSUME Untouched, UNCHANGED recordingVars \/ Retain \/ Day
  PROVE  Untouched'
<1>1. CASE UNCHANGED recordingVars
  BY <1>1 DEF recordingVars, Untouched
<1>2. CASE Retain
  <2>1. UNCHANGED <<handles, own, sizes, doing, said, rows, dropped>> /\ (files' = NoFiles \/ files' = files)
    BY <1>2 DEF Retain
  <2> QED BY <2>1 DEF Untouched
<1>3. CASE Day
  BY <1>3 DEF Day, Untouched
<1> QED BY <1>1, <1>2, <1>3

LEMMA QuietStays ==
  ASSUME Quiet, UNCHANGED recordingVars \/ Retain \/ Day
  PROVE  Quiet'
<1>1. CASE UNCHANGED recordingVars
  BY <1>1 DEF recordingVars, Quiet
<1>2. CASE Retain
  BY <1>2 DEF Retain, Quiet
<1>3. CASE Day
  BY <1>3 DEF Day, Quiet
<1> QED BY <1>1, <1>2, <1>3

LEMMA UntouchedIsQuiet == Untouched => Quiet
BY DEF Untouched, Quiet, Resting

\* Where a process of the registry steps, and its own recorder does not.
LEMMA RecordedAside ==
  ASSUME HostInv, RegistryInv', UNCHANGED use, UNCHANGED recordingVars \/ Retain \/ Day,
         use.records \in Procs => /\ NotYet(use.records)' => NotYet(use.records)
                                  /\ Done(use.records)' => Done(use.records) \/ NotYet(use.records)
  PROVE  Recorded'
<1>1. PICK r \in Procs \union {0} : r = use.records
  BY UsesAssumption DEF HostInv, RegistryInv, Types
<1>2. use'.records = r
  BY <1>1
<1>3. CASE r = 0
  <2>1. Untouched'
    BY <1>1, <1>3, UntouchedStays DEF HostInv, Recorded
  <2> QED BY <1>2, <1>3, <2>1 DEF Recorded
<1>4. CASE r \in Procs
  <2>1. r # 0
    BY <1>4, RegistryAssumption
  <2>2. (NotYet(r)' => NotYet(r)) /\ (Done(r)' => Done(r) \/ NotYet(r))
    BY <1>1, <1>4
  <2>3. (NotYet(r) => Untouched) /\ (Done(r) => Quiet)
    BY <1>1, <2>1 DEF HostInv, Recorded
  <2>4. NotYet(r)' => Untouched'
    BY <2>2, <2>3, UntouchedStays
  <2>5. Done(r)' => Quiet'
    BY <2>2, <2>3, UntouchedIsQuiet, QuietStays
  <2> QED BY <1>2, <2>1, <2>4, <2>5 DEF Recorded, NotYet, Done
<1> QED BY <1>1, <1>3, <1>4

LEMMA RecorderStays ==
  ASSUME HostInv, UNCHANGED use, UNCHANGED registryVars
  PROVE  use.records \in Procs => /\ NotYet(use.records)' <=> NotYet(use.records)
                                  /\ Done(use.records)' <=> Done(use.records)
BY DEF registryVars, NotYet, Done, IsSession, Starts, Serves

\* A thread that writes a line or rotates is in the recorder, and one that sees another says so.
LEMMA InTheRecorder ==
  ASSUME RecInv, NEW t \in Writers, HandleLine(t) \/ Rotate(t)
  PROVE  doing[t].at # "out" /\ (overlap => overlap')
<1>1. doing[t].at # "out" /\ Notes(t)
  BY DEF HandleLine, Rotate, Number, CloseFiles, RenameFiles, RotationRaises, OpenNext, PruneParts
<1>2. overlap => overlap'
  BY <1>1, NotesIs DEF RecInv, RecTypes
<1> QED BY <1>1, <1>2

LEMMA SpeaksKeeps ==
  ASSUME HostInv, UNCHANGED use, Speaks
  PROVE  RecInv' /\ Recorded'
<1> DEFINE r == use.records
<1>1. /\ r \in Procs /\ r # 0 /\ Alive(r) /\ use'.records = r /\ UNCHANGED registryVars
      /\ \/ at[r] = "serve" /\ \E ends \in use.ends : HandleChunk(ends)
         \/ at[r] \in {"serve", "clean", "restore", "unmirror"} /\ HandleTyped
         \/ \E t \in Writers : HandleLine(t) \/ Rotate(t)
  BY UsesAssumption DEF Speaks, HostInv, RegistryInv, Types
<1>2. use.ends \subseteq Nat /\ RecInv
  BY UsesAssumption DEF HostInv, RegistryInv, Types
<1>3. RecInv'
  BY <1>1, <1>2, ChunkKeeps, TypedKeeps, RotateKeeps
<1>4. (NotYet(r)' <=> NotYet(r)) /\ (Done(r)' <=> Done(r))
  BY <1>1, RecorderStays
<1> HIDE DEF r
<1>5. PlaceOf(r) /\ (IsSession(r) <=> Starts(r) \/ Serves(r))
  BY <1>1 DEF HostInv, RegistryInv, PlaceInv, IsSession, Starts, Serves
<1>6. ~NotYet(r)
  <2> SUFFICES ASSUME NotYet(r) PROVE FALSE
    OBVIOUS
  <2>1. \A t \in Writers : doing[t].at = "out"
    BY <1>1 DEF HostInv, Recorded, Untouched, Resting, r
  <2>2. ~\E t \in Writers : HandleLine(t) \/ Rotate(t)
    BY <1>2, <2>1, InTheRecorder
  <2>3. at[r] \in {"serve", "clean", "restore", "unmirror"}
    BY <1>1, <2>2
  <2> QED BY <1>5, <2>3 DEF NotYet, PlaceOf
<1>7. Done(r)' => Quiet'
  <2> SUFFICES ASSUME Done(r) PROVE Quiet'
    BY <1>4
  <2>1. at[r] \notin {"serve", "clean", "restore", "unmirror"}
    BY DEF Done
  <2>2. PICK t \in Writers : HandleLine(t) \/ Rotate(t)
    BY <1>1, <2>1
  <2>3. Quiet
    BY <1>1 DEF HostInv, Recorded, r
  <2>4. overlap'
    BY <1>2, <2>2, <2>3, InTheRecorder DEF Quiet
  <2> QED BY <2>4 DEF Quiet
<1>8. Recorded'
  <2>1. ~NotYet(r)'
    BY <1>4, <1>6
  <2>2. r' = r
    BY <1>1 DEF r
  <2>3. use'.records = r'
    BY <1>1, <2>2
  <2> QED BY <1>1, <2>1, <2>2, <2>3, <1>7 DEF Recorded, NotYet, Done
<1> QED BY <1>3, <1>8

LEMMA HostStarts == Init => HostInv
<1> SUFFICES ASSUME Init PROVE HostInv
  OBVIOUS
<1>1. RegistryInv /\ RecInv
  BY RegistryStarts, RecordingStarts
<1>2. Untouched
  BY DEF Init, RecordingInit, Untouched
<1> QED BY <1>1, <1>2, UntouchedIsQuiet DEF HostInv, Recorded

LEMMA HostKept ==
  ASSUME HostInv, [Next]_vars
  PROVE  HostInv'
<1>1. RegistryInv /\ RecInv /\ RegistryInv' /\ RecInv
  BY RegistryKept DEF HostInv
<1>2. CASE UNCHANGED vars
  <2>1. UNCHANGED use /\ UNCHANGED registryVars /\ UNCHANGED recordingVars
    BY <1>2 DEF vars
  <2>2. RecInv'
    BY <1>1, <2>1, SameRecording
  <2>3. Recorded'
    BY <1>1, <2>1, RecorderStays, RecordedAside
  <2> QED BY <1>1, <2>2, <2>3 DEF HostInv
<1>3. ASSUME UNCHANGED use, NEW p \in Procs, UNCHANGED recordingVars \/ Retain,
             Retained(p) \/ RegistryStep(p) \/ RegistryFails(p) \/ Crash(p) \/ \E new \in Ports :
                 MoveBegins(p, new)
      PROVE  HostInv'
  <2>1. RecInv'
    BY <1>1, <1>3, SameRecording, RetainKeeps
  <2>2. use.records \in Procs => /\ NotYet(use.records)' => NotYet(use.records)
                                 /\ Done(use.records)' => Done(use.records) \/ NotYet(use.records)
    <3>1. ASSUME NEW r \in Procs
          PROVE  (NotYet(r)' => NotYet(r)) /\ (Done(r)' => Done(r) \/ NotYet(r))
      BY <1>1, <1>3, PlacesOf
    <3>2. ASSUME NEW r \in Procs, r = use.records
          PROVE  /\ NotYet(use.records)' => NotYet(use.records)
                 /\ Done(use.records)' => Done(use.records) \/ NotYet(use.records)
      BY <1>3, <3>1, <3>2 DEF NotYet, Done, IsSession, Starts, Serves
    <3> QED BY <3>2
  <2>3. Recorded'
    BY <1>1, <1>3, <2>2, RecordedAside
  <2> QED BY <1>1, <2>1, <2>3 DEF HostInv
<1>4. ASSUME UNCHANGED use, NEW p \in Procs, UNCHANGED recordingVars, Build(p) \/ Unrecord(p), p # use.records
      PROVE  HostInv'
  <2>1. RecInv'
    BY <1>1, <1>4, SameRecording
  <2>2. use.records \in Procs => /\ NotYet(use.records)' => NotYet(use.records)
                                 /\ Done(use.records)' => Done(use.records) \/ NotYet(use.records)
    <3>1. \A r \in Procs \ {p} : at'[r] = at[r]
      BY <1>4 DEF Build, Unrecord, HostInv, RegistryInv, Types
    <3>2. UNCHANGED job
      BY <1>4 DEF Build, Unrecord
    <3> QED BY <1>4, <3>1, <3>2 DEF NotYet, Done, IsSession, Starts, Serves
  <2>3. Recorded'
    BY <1>1, <1>4, <2>2, RecordedAside
  <2> QED BY <1>1, <2>1, <2>3 DEF HostInv
<1>5. ASSUME UNCHANGED use, use.records \in Procs, Build(use.records), OpenRecorder
      PROVE  HostInv'
  <2> DEFINE r == use.records
  <2>0. r' = r
    BY <1>5
  <2>1. r # 0 /\ use'.records = r /\ at[r] = "build" /\ at'[r] = "bind" /\ job' = job
    BY <1>5, RegistryAssumption DEF Build, HostInv, RegistryInv, Types
  <2>2. PlaceOf(r) /\ (IsSession(r) <=> Starts(r) \/ Serves(r))
    BY <1>5 DEF HostInv, RegistryInv, PlaceInv, IsSession, Starts, Serves
  <2>3. NotYet(r)
    BY <2>1, <2>2 DEF NotYet, PlaceOf
  <2>4. \A t \in Writers : doing[t].at = "out"
    BY <2>3 DEF HostInv, Recorded, Untouched, Resting
  <2>5. RecInv'
    BY <1>1, <1>5, <2>4, OpeningKeeps
  <2> HIDE DEF r
  <2>6. ~NotYet(r)' /\ ~Done(r)'
    BY <2>0, <2>1, <2>2 DEF NotYet, Done, PlaceOf, IsSession, Starts, Serves
  <2>7. Recorded'
    BY <2>0, <2>1, <2>6 DEF Recorded, NotYet, Done
  <2> QED BY <1>1, <2>5, <2>7 DEF HostInv
<1>6. ASSUME UNCHANGED use, use.records \in Procs, Unrecord(use.records), CloseRecorder
      PROVE  HostInv'
  <2> DEFINE r == use.records
  <2>0. r' = r
    BY <1>6
  <2>1. r # 0 /\ use'.records = r /\ at[r] = "unrecord" /\ at'[r] \in {"remove", "ended"} /\ job' = job
    BY <1>6, RegistryAssumption DEF Unrecord, HostInv, RegistryInv, Types
  <2>2. PlaceOf(r) /\ (IsSession(r) <=> Starts(r) \/ Serves(r))
    BY <1>6 DEF HostInv, RegistryInv, PlaceInv, IsSession, Starts, Serves
  <2>3. RecInv'
    BY <1>1, <1>6, ClosingKeeps
  <2>4. Quiet'
    <3>1. doing' = doing /\ doing["rx"].at = "out" /\ handles' = FALSE
          /\ (overlap' <=> overlap \/ doing["tx"].at # "out")
      BY <1>6 DEF CloseRecorder
    <3> QED BY <3>1 DEF Quiet, Writers
  <2> HIDE DEF r
  <2>5. ~NotYet(r)'
    BY <2>0, <2>1, <2>2 DEF NotYet, PlaceOf, IsSession, Starts, Serves
  <2>6. Recorded'
    BY <2>0, <2>1, <2>4, <2>5 DEF Recorded, NotYet, Done
  <2> QED BY <1>1, <2>3, <2>6 DEF HostInv
<1>7. ASSUME UNCHANGED use, Speaks PROVE HostInv'
  BY <1>1, <1>7, SpeaksKeeps DEF HostInv
<1>8. ASSUME UNCHANGED use, Passes PROVE HostInv'
  <2>1. Day /\ UNCHANGED registryVars
    BY <1>8 DEF Passes
  <2>2. RecInv'
    BY <1>1, <2>1, DayKeeps
  <2>3. Recorded'
    BY <1>1, <1>8, <2>1, RecorderStays, RecordedAside
  <2> QED BY <1>1, <2>2, <2>3 DEF HostInv
<1>9. CASE Next
  BY <1>3, <1>4, <1>5, <1>6, <1>7, <1>8, <1>9, Touching
<1> QED BY <1>2, <1>9

LEMMA HostHolds == Spec => []HostInv
<1> QED BY HostStarts, HostKept, PTL DEF Spec

LEMMA RecordingTyped == RecInv => RecordingTypeOK
<1> SUFFICES ASSUME RecInv PROVE RecordingTypeOK
  OBVIOUS
<1>1. files.there \in BOOLEAN /\ handles \in BOOLEAN /\ deleted \in BOOLEAN
  BY DEF RecInv, RecTypes, FileRecs
<1>2. DOMAIN parts \subseteq Nat \ {0}
  BY DEF RecInv, RecTypes, PartsTyped
<1>3. ToSet(own) \subseteq Nat \ {0}
  <2>1. own \in Seq(Nat \ {0})
    BY DEF RecInv, RecTypes
  <2> QED BY <2>1 DEF ToSet
<1>4. sizes \in [raw : 0..MaxChunks, text : Nat]
  <2>1. sizes \in [raw : Nat, text : Nat] /\ said \in Nat /\ sizes.raw <= said /\ said <= MaxChunks
        /\ MaxChunks \in Nat
    BY RecordingAssumption DEF RecInv, RecTypes
  <2>2. sizes.raw \in 0..MaxChunks
    BY <2>1
  <2> QED BY <2>1, <2>2
<1>5. \A t \in Writers :
        /\ doing[t].at \in {"out", "lines", "number", "close", "rename", "open", "prune"}
        /\ (doing[t].at = "out") => (doing[t].lines = <<>>)
  BY DEF RecInv, RecTypes, DoingTyped, Doings, Places
<1>6. (handles /\ ~deleted /\ ~overlap) => (files.there /\ Len(files.lines) = sizes.text)
  BY DEF RecInv, InStep
<1>7. age \in Nat /\ store.there \in BOOLEAN
  BY DEF RecInv, RecTypes
<1> QED BY <1>1, <1>2, <1>3, <1>4, <1>5, <1>6, <1>7 DEF RecordingTypeOK

\* TypeOK: everything keeps its type, and what the recorder counts is what its files hold.
THEOREM TypeCorrect == Spec => []TypeOK
<1>1. HostInv => TypeOK
  BY RecordingTyped, RegistryTyped DEF HostInv, TypeOK
<1> QED BY <1>1, HostHolds, PTL

THEOREM SessionsFound == Spec => []SessionsAreFound
<1>1. ASSUME HostInv PROVE SessionsAreFound
  <2> SUFFICES ASSUME NEW p \in Procs
               PROVE  /\ FoundOf(p)
                      /\ IsSession(p) /\ at[p] = "ended" /\ p = use.records => ~handles \/ overlap
    BY DEF SessionsAreFound, FoundOf
  <2>1. FoundOf(p)
    BY <1>1, SessionIsFound DEF HostInv
  <2>2. IsSession(p) /\ at[p] = "ended" /\ p = use.records => ~handles \/ overlap
    <3>1. p # 0
      BY RegistryAssumption
    <3> QED BY <1>1, <3>1 DEF HostInv, Recorded, Done, Quiet
  <2> QED BY <2>1, <2>2
<1> QED BY <1>1, HostHolds, PTL

-----------------------------------------------------------------------------
(* Sequences laid end to end *)

LEMMA LeastUpTo ==
  ASSUME NEW m \in Nat, NEW S, S \subseteq 0..m, S # {}
  PROVE  \E k \in S : \A i \in S : k <= i
<1>1. S \in SUBSET Nat
  OBVIOUS
<1> QED BY <1>1, Least

\* What is laid of s up to each place.
Laid(s, f) == f = [i \in 1..Len(s) |-> IF i = 1 THEN s[i] ELSE f[i - 1] \o s[i]]

LEMMA LaidIs ==
  ASSUME NEW A, NEW s \in Seq(Seq(A)), NEW f, Laid(s, f)
  PROVE  /\ f = [i \in 1..Len(s) |-> f[i]] /\ \A i \in 1..Len(s) : f[i] \in Seq(A)
         /\ \A i \in 1..Len(s) : f[i] = IF i = 1 THEN s[i] ELSE f[i - 1] \o s[i]
<1> DEFINE e(i) == IF i = 1 THEN s[i] ELSE f[i - 1] \o s[i]
<1>0. f = [i \in 1..Len(s) |-> e(i)]
  BY DEF Laid
<1> HIDE DEF e
<1>1. f = [i \in 1..Len(s) |-> f[i]] /\ \A i \in 1..Len(s) : f[i] = e(i)
  BY <1>0
<1>2. ASSUME NEW S, S = {i \in 1..Len(s) : f[i] \notin Seq(A)}, S # {} PROVE FALSE
  <2>0. Len(s) \in Nat /\ S \subseteq 0..Len(s)
    BY <1>2
  <2>1. PICK k \in S : \A i \in S : k <= i
    BY <1>2, <2>0, LeastUpTo
  <2>2. k \in 1..Len(s) /\ (k # 1 => k - 1 \in 1..Len(s))
    BY <1>2, <2>0
  <2>3. k # 1 => k - 1 \notin S
    BY <2>0, <2>1, <2>2
  <2>4. k # 1 => f[k - 1] \in Seq(A)
    BY <1>2, <2>2, <2>3
  <2>5. s[k] \in Seq(A)
    BY <2>2
  <2>6. f[k] = e(k)
    BY <1>1, <2>2
  <2>7. e(k) \in Seq(A)
    BY <2>4, <2>5 DEF e
  <2> QED BY <1>2, <2>1, <2>6, <2>7
<1>3. \A i \in 1..Len(s) : f[i] \in Seq(A)
  BY <1>2
<1>4. \A i \in 1..Len(s) : f[i] = IF i = 1 THEN s[i] ELSE f[i - 1] \o s[i]
  BY <1>1 DEF e
<1> QED BY <1>1, <1>3, <1>4

LEMMA LaidOnce ==
  ASSUME NEW A, NEW s \in Seq(Seq(A)), NEW f, NEW g, Laid(s, f), Laid(s, g)
  PROVE  f = g
<1>1. /\ f = [i \in 1..Len(s) |-> f[i]]
      /\ \A i \in 1..Len(s) : f[i] = IF i = 1 THEN s[i] ELSE f[i - 1] \o s[i]
      /\ g = [i \in 1..Len(s) |-> g[i]]
      /\ \A i \in 1..Len(s) : g[i] = IF i = 1 THEN s[i] ELSE g[i - 1] \o s[i]
  BY LaidIs
<1>2. ASSUME NEW S, S = {i \in 1..Len(s) : f[i] # g[i]}, S # {} PROVE FALSE
  <2>0. Len(s) \in Nat /\ S \subseteq 0..Len(s)
    BY <1>2
  <2>1. PICK k \in S : \A i \in S : k <= i
    BY <1>2, <2>0, LeastUpTo
  <2>2. k \in 1..Len(s) /\ (k # 1 => k - 1 \in 1..Len(s))
    BY <1>2, <2>0
  <2>3. k # 1 => k - 1 \notin S
    BY <2>0, <2>1, <2>2
  <2>4. k # 1 => f[k - 1] = g[k - 1]
    BY <1>2, <2>2, <2>3
  <2>5. f[k] = g[k]
    BY <1>1, <2>2, <2>4
  <2> QED BY <1>2, <2>1, <2>5
<1>3. \A i \in 1..Len(s) : f[i] = g[i]
  BY <1>2
<1>4. [i \in 1..Len(s) |-> f[i]] = [i \in 1..Len(s) |-> g[i]]
  BY <1>3
<1> QED BY <1>1, <1>4

\* What is laid for s, and one more.
LEMMA LaidMore ==
  ASSUME NEW A, NEW s \in Seq(Seq(A)), NEW x \in Seq(A), NEW f, Laid(s, f)
  PROVE  \E g : /\ Laid(Append(s, x), g)
                /\ g[Len(s) + 1] = IF Len(s) = 0 THEN x ELSE f[Len(s)] \o x
<1> DEFINE g == [i \in 1..Len(s) + 1 |-> IF i <= Len(s) THEN f[i] ELSE IF Len(s) = 0 THEN x ELSE f[Len(s)] \o x]
           e(i) == IF i = 1 THEN Append(s, x)[i] ELSE g[i - 1] \o Append(s, x)[i]
<1>1. Len(Append(s, x)) = Len(s) + 1 /\ Len(s) \in Nat
  OBVIOUS
<1>2. \A i \in 1..Len(s) : f[i] = IF i = 1 THEN s[i] ELSE f[i - 1] \o s[i]
  BY LaidIs
<1>3. ASSUME NEW i \in 1..Len(s) + 1 PROVE g[i] = e(i)
  <2>1. CASE i <= Len(s)
    <3>1. g[i] = f[i] /\ Append(s, x)[i] = s[i] /\ (i # 1 => g[i - 1] = f[i - 1]) /\ i \in 1..Len(s)
      BY <2>1
    <3> HIDE DEF g
    <3> QED BY <1>2, <3>1
  <2>2. CASE i = Len(s) + 1
    <3>1. Append(s, x)[i] = x
      BY <2>2
    <3>2. CASE Len(s) = 0
      BY <2>2, <3>1, <3>2
    <3>3. CASE Len(s) # 0
      <4>1. g[i] = f[Len(s)] \o x /\ g[i - 1] = f[Len(s)] /\ i # 1
        BY <2>2, <3>3
      <4> HIDE DEF g
      <4> QED BY <3>1, <4>1
    <3> QED BY <3>2, <3>3
  <2> QED BY <1>1, <2>1, <2>2
<1>4. g[Len(s) + 1] = IF Len(s) = 0 THEN x ELSE f[Len(s)] \o x
  BY <1>1
<1>5. g = [i \in 1..Len(s) + 1 |-> g[i]]
  OBVIOUS
<1> HIDE DEF g
<1>6. g = [i \in 1..Len(s) + 1 |-> e(i)]
  <2> HIDE DEF e
  <2>1. [i \in 1..Len(s) + 1 |-> g[i]] = [i \in 1..Len(s) + 1 |-> e(i)]
    BY <1>3
  <2> QED BY <1>5, <2>1
<1>7. Laid(Append(s, x), g)
  BY <1>1, <1>6 DEF Laid
<1> QED BY <1>4, <1>7

LEMMA LaidIsThere ==
  ASSUME NEW A, NEW s \in Seq(Seq(A))
  PROVE  \E f : Laid(s, f)
<1> DEFINE Upto(k) == SubSeq(s, 1, k)
           S == {k \in 0..Len(s) : ~\E f : Laid(Upto(k), f)}
<1>1. Len(s) \in Nat /\ \A k \in 0..Len(s) : Upto(k) \in Seq(Seq(A)) /\ Len(Upto(k)) = k
  OBVIOUS
<1>2. ASSUME S # {} PROVE FALSE
  <2>0. S \subseteq 0..Len(s)
    OBVIOUS
  <2>1. PICK k \in S : \A i \in S : k <= i
    <3> HIDE DEF S
    <3> QED BY <1>1, <1>2, <2>0, LeastUpTo
  <2>2. CASE k = 0
    <3>1. Len(Upto(0)) = 0 /\ 1..0 = {}
      BY <1>1
    <3> DEFINE f == [i \in 1..0 |-> <<>>]
    <3>2. Laid(Upto(0), f)
      <4> HIDE DEF Upto
      <4> QED BY <3>1 DEF Laid
    <3> QED BY <2>1, <2>2, <3>2
  <2>3. CASE k # 0
    <3>1. k \in 1..Len(s) /\ k - 1 \in 0..Len(s)
      BY <1>1, <2>1, <2>3
    <3>2. k - 1 \notin S
      <4> HIDE DEF S
      <4> QED BY <1>1, <2>1, <3>1
    <3>3. PICK f : Laid(Upto(k - 1), f)
      BY <3>1, <3>2
    <3>4. Upto(k) = Append(Upto(k - 1), s[k]) /\ s[k] \in Seq(A)
      BY <3>1
    <3>5. Upto(k - 1) \in Seq(Seq(A))
      BY <1>1, <3>1
    <3>6. \E g : Laid(Upto(k), g)
      <4> HIDE DEF Upto
      <4> QED BY <3>3, <3>4, <3>5, LaidMore
    <3> QED BY <2>1, <3>6
  <2> QED BY <2>2, <2>3
<1>3. Len(s) \in 0..Len(s) /\ S = {}
  BY <1>1, <1>2
<1>4. Upto(Len(s)) = s
  OBVIOUS
<1>5. \E f : Laid(Upto(Len(s)), f)
  BY <1>3
<1> HIDE DEF Upto
<1> QED BY <1>4, <1>5

LEMMA FlattenIs ==
  ASSUME NEW A, NEW s \in Seq(Seq(A)), NEW f, Laid(s, f), Len(s) # 0
  PROVE  FlattenSeq(s) = f[Len(s)]
<1> DEFINE c == CHOOSE e : e = [i \in 1..Len(s) |-> IF i = 1 THEN s[i] ELSE e[i - 1] \o s[i]]
<1>1. FlattenSeq(s) = c[Len(s)]
  BY DEF FlattenSeq
<1>2. \E e : e = [i \in 1..Len(s) |-> IF i = 1 THEN s[i] ELSE e[i - 1] \o s[i]]
  BY DEF Laid
<1>3. c = [i \in 1..Len(s) |-> IF i = 1 THEN s[i] ELSE c[i - 1] \o s[i]]
  BY <1>2
<1> HIDE DEF c
<1>4. Laid(s, c)
  BY <1>3 DEF Laid
<1>5. c = f
  BY <1>4, LaidOnce
<1> QED BY <1>1, <1>5

\* What FlattenSeq does of one more.
LEMMA FlattenMore ==
  ASSUME NEW A, NEW s \in Seq(Seq(A)), NEW x \in Seq(A)
  PROVE  /\ FlattenSeq(Append(s, x)) = FlattenSeq(s) \o x
         /\ FlattenSeq(s) \in Seq(A)
<1>1. PICK f : Laid(s, f)
  BY LaidIsThere
<1>2. PICK g : /\ Laid(Append(s, x), g)
               /\ g[Len(s) + 1] = IF Len(s) = 0 THEN x ELSE f[Len(s)] \o x
  BY <1>1, LaidMore
<1>3. Append(s, x) \in Seq(Seq(A)) /\ Len(Append(s, x)) = Len(s) + 1 /\ Len(s) \in Nat
  OBVIOUS
<1>4. FlattenSeq(Append(s, x)) = IF Len(s) = 0 THEN x ELSE f[Len(s)] \o x
  <2>1. FlattenSeq(Append(s, x)) = g[Len(Append(s, x))]
    <3> DEFINE r == Append(s, x)
    <3>1. r \in Seq(Seq(A)) /\ Laid(r, g) /\ Len(r) # 0
      BY <1>2, <1>3
    <3> HIDE DEF r
    <3>2. FlattenSeq(r) = g[Len(r)]
      BY <3>1, FlattenIs
    <3> QED BY <3>2 DEF r
  <2> QED BY <1>2, <1>3, <2>1
<1>5. CASE Len(s) = 0
  <2>1. FlattenSeq(s) = s /\ s = <<>>
    BY <1>5 DEF FlattenSeq
  <2> QED BY <1>4, <1>5, <2>1
<1>6. CASE Len(s) # 0
  <2>1. FlattenSeq(s) = f[Len(s)]
    BY <1>1, <1>6, FlattenIs
  <2>2. \A i \in 1..Len(s) : f[i] \in Seq(A)
    BY <1>1, LaidIs
  <2>3. Len(s) \in 1..Len(s)
    BY <1>3, <1>6
  <2> QED BY <1>4, <1>6, <2>1, <2>2, <2>3
<1> QED BY <1>5, <1>6

-----------------------------------------------------------------------------
(* A recording that nothing is missing from *)

\* What this run has finished, oldest first.
Old     == dropped \o [i \in 1..Len(own) |-> parts[own[i]]]
Present == [raw |-> files.raw, lines |-> files.lines]

\* Numbers of this run are past those of earlier ones.
EarlierKept ==
  ~deleted =>
    /\ EarlierRunsKept(use.earlier)
    /\ \A i \in DOMAIN own : own[i] > use.earlier
    /\ \A t \in Writers : doing[t].at \in {"close", "rename"} => doing[t].number > use.earlier

Between == \E t \in Writers : doing[t].at \in {"rename", "open"}

\* One thread rotates at a time, into a number nobody has, and nobody writes while nothing is open.
InTurn ==
  /\ \A t \in Writers : Rotating(t) => RotateAt > 0 /\ \A x \in Writers \ {t} : ~Rotating(x)
  /\ (\E t \in Writers : doing[t].at # "out") => handles \/ Between
  /\ \A t \in Writers :
       /\ doing[t].at \in {"close", "rename"} =>
            doing[t].had /\ files.there /\ doing[t].number \notin DOMAIN parts
       /\ doing[t].at \in {"open", "prune"} => files.raw = <<>> /\ files.lines = <<>>
  /\ handles => Len(files.raw) = sizes.raw

\* The parts of this run are on disk, once each.
OwnThere ==
  \A i \in DOMAIN own : own[i] \in DOMAIN parts /\ \A j \in DOMAIN own : own[i] = own[j] => i = j

PartsCapped ==
  /\ \A i \in DOMAIN own : /\ Len(parts[own[i]].raw) <= 2 * RotateAt
                           /\ Len(parts[own[i]].lines) <= RotateAt
  /\ KeepParts > 0 /\ (\A t \in Writers : doing[t].at \notin {"open", "prune"}) => Len(own) <= KeepParts

PresentCapped ==
  RotateAt > 0 =>
    /\ Len(files.raw) <= 2 * RotateAt /\ Len(files.lines) <= RotateAt
    /\ (\A t \in Writers : ~Rotating(t)) => Len(files.raw) < 2 * RotateAt /\ Len(files.lines) < RotateAt

\* What is yet to be written is the thread's own, and of the last chunk.
Pending ==
  /\ \A i \in DOMAIN rows : rows[i].n = i
  /\ \A t \in Writers : \A j \in DOMAIN doing[t].lines :
       /\ doing[t].lines[j].by = t
       /\ t = "rx" => doing[t].lines[j].chunk = said /\ said > 0

Whole == InTurn /\ OwnThere /\ PartsCapped /\ PresentCapped /\ Pending /\ NothingMissing /\ SameSpan

\* A session whose recorder has been opened and not closed.
Underway(r) == IsSession(r) /\ ~NotYet(r) /\ ~Done(r) /\ at[r] # "killed"

WholeInv ==
  ~deleted /\ ~overlap =>
    /\ Whole
    /\ use.records # 0 /\ Underway(use.records) => handles \/ Between

-----------------------------------------------------------------------------
(* What parts hold, end to end *)

RawsOf(s)  == [i \in DOMAIN s |-> s[i].raw]
LinesOf(s) == [i \in DOMAIN s |-> s[i].lines]

AllRaw(s)   == FlattenSeq(RawsOf(s))
AllLines(s) == FlattenSeq(LinesOf(s))

\* A part holds the lines of its own chunks, or of the last before it.
Fits(c, p) ==
  \A i \in DOMAIN p.lines :
    (p.lines[i].by = "rx") => \/ p.lines[i].chunk \in ToSet(p.raw)
                              \/ c # <<>> /\ Last(c) = p.lines[i].chunk

RawUpTo(s, k) == FlattenSeq([i \in 1..k |-> s[i].raw])
AllFit(s)     == \A k \in DOMAIN s : Fits(RawUpTo(s, k - 1), s[k])

LEMMA OneMoreIs ==
  ASSUME NEW s \in Seq(PartRecs), NEW p \in PartRecs
  PROVE  /\ RawsOf(s) \in Seq(Seq(Nat)) /\ LinesOf(s) \in Seq(Seq(LineRecs))
         /\ RawsOf(Append(s, p)) = Append(RawsOf(s), p.raw)
         /\ LinesOf(Append(s, p)) = Append(LinesOf(s), p.lines)
         /\ p.raw \in Seq(Nat) /\ p.lines \in Seq(LineRecs)
<1>1. p.raw \in Seq(Nat) /\ p.lines \in Seq(LineRecs)
  BY DEF PartRecs
<1>2. \A i \in 1..Len(s) : s[i].raw \in Seq(Nat) /\ s[i].lines \in Seq(LineRecs)
  <2> TAKE i \in 1..Len(s)
  <2>1. s[i] \in PartRecs
    OBVIOUS
  <2> QED BY <2>1 DEF PartRecs
<1>3. Len(s) \in Nat /\ DOMAIN s = 1..Len(s)
  OBVIOUS
<1>4. RawsOf(s) \in Seq(Seq(Nat)) /\ LinesOf(s) \in Seq(Seq(LineRecs)) /\ Len(RawsOf(s)) = Len(s)
      /\ Len(LinesOf(s)) = Len(s)
  BY <1>2, <1>3 DEF RawsOf, LinesOf
<1>5. DOMAIN Append(s, p) = 1..Len(s) + 1 /\ Append(s, p)[Len(s) + 1] = p /\ \A i \in 1..Len(s) :
        Append(s, p)[i] = s[i]
  BY <1>3
<1>6. RawsOf(Append(s, p)) = Append(RawsOf(s), p.raw)
  <2> DEFINE x == RawsOf(Append(s, p))
             y == Append(RawsOf(s), p.raw)
  <2>1. x = [i \in 1..Len(s) + 1 |-> Append(s, p)[i].raw]
    BY <1>5 DEF RawsOf
  <2>2. DOMAIN y = 1..Len(s) + 1 /\ y[Len(s) + 1] = p.raw /\ \A i \in 1..Len(s) : y[i] = RawsOf(s)[i]
    BY <1>1, <1>3, <1>4
  <2>3. \A i \in 1..Len(s) : RawsOf(s)[i] = s[i].raw
    BY <1>3 DEF RawsOf
  <2>4. y \in Seq(Seq(Nat))
    BY <1>1, <1>4
  <2> HIDE DEF x, y
  <2>5. \A i \in 1..Len(s) + 1 : i = Len(s) + 1 \/ i \in 1..Len(s)
    BY <1>3
  <2>6. \A i \in 1..Len(s) + 1 : x[i] = y[i]
    BY <1>5, <2>1, <2>2, <2>3, <2>5
  <2>7. y = [i \in 1..Len(s) + 1 |-> y[i]]
    BY <2>2, <2>4
  <2>8. x = [i \in 1..Len(s) + 1 |-> x[i]]
    BY <2>1
  <2>9. x = y
    BY <2>6, <2>7, <2>8
  <2> QED BY <2>9 DEF x, y
<1>7. LinesOf(Append(s, p)) = Append(LinesOf(s), p.lines)
  <2> DEFINE x == LinesOf(Append(s, p))
             y == Append(LinesOf(s), p.lines)
  <2>1. x = [i \in 1..Len(s) + 1 |-> Append(s, p)[i].lines]
    BY <1>5 DEF LinesOf
  <2>2. DOMAIN y = 1..Len(s) + 1 /\ y[Len(s) + 1] = p.lines /\ \A i \in 1..Len(s) : y[i] = LinesOf(s)[i]
    BY <1>1, <1>3, <1>4
  <2>3. \A i \in 1..Len(s) : LinesOf(s)[i] = s[i].lines
    BY <1>3 DEF LinesOf
  <2>4. y \in Seq(Seq(LineRecs))
    BY <1>1, <1>4
  <2> HIDE DEF x, y
  <2>5. \A i \in 1..Len(s) + 1 : i = Len(s) + 1 \/ i \in 1..Len(s)
    BY <1>3
  <2>6. \A i \in 1..Len(s) + 1 : x[i] = y[i]
    BY <1>5, <2>1, <2>2, <2>3, <2>5
  <2>7. y = [i \in 1..Len(s) + 1 |-> y[i]]
    BY <2>2, <2>4
  <2>8. x = [i \in 1..Len(s) + 1 |-> x[i]]
    BY <2>1
  <2>9. x = y
    BY <2>6, <2>7, <2>8
  <2> QED BY <2>9 DEF x, y
<1> QED BY <1>1, <1>4, <1>6, <1>7

LEMMA AllOneMore ==
  ASSUME NEW s \in Seq(PartRecs), NEW p \in PartRecs
  PROVE  /\ AllRaw(Append(s, p)) = AllRaw(s) \o p.raw /\ AllRaw(s) \in Seq(Nat)
         /\ AllLines(Append(s, p)) = AllLines(s) \o p.lines /\ AllLines(s) \in Seq(LineRecs)
<1> USE OneMoreIs
<1>1. FlattenSeq(Append(RawsOf(s), p.raw)) = FlattenSeq(RawsOf(s)) \o p.raw
      /\ FlattenSeq(RawsOf(s)) \in Seq(Nat)
  <2> DEFINE r == RawsOf(s)
  <2>1. r \in Seq(Seq(Nat)) /\ p.raw \in Seq(Nat)
    OBVIOUS
  <2> HIDE DEF r
  <2>2. FlattenSeq(Append(r, p.raw)) = FlattenSeq(r) \o p.raw /\ FlattenSeq(r) \in Seq(Nat)
    BY <2>1, FlattenMore
  <2> QED BY <2>2 DEF r
<1>2. FlattenSeq(Append(LinesOf(s), p.lines)) = FlattenSeq(LinesOf(s)) \o p.lines
      /\ FlattenSeq(LinesOf(s)) \in Seq(LineRecs)
  <2> DEFINE r == LinesOf(s)
  <2>1. r \in Seq(Seq(LineRecs)) /\ p.lines \in Seq(LineRecs)
    OBVIOUS
  <2> HIDE DEF r
  <2>2. FlattenSeq(Append(r, p.lines)) = FlattenSeq(r) \o p.lines /\ FlattenSeq(r) \in Seq(LineRecs)
    BY <2>1, FlattenMore
  <2> QED BY <2>2 DEF r
<1> QED BY <1>1, <1>2 DEF AllRaw, AllLines

\* Another part behind leaves those before it as they fit.
LEMMA FitOneMore ==
  ASSUME NEW s \in Seq(PartRecs), NEW p \in PartRecs
  PROVE  AllFit(Append(s, p)) <=> AllFit(s) /\ Fits(AllRaw(s), p)
<1> DEFINE w == Append(s, p)
<1>1. /\ Len(s) \in Nat /\ DOMAIN s = 1..Len(s) /\ DOMAIN w = 1..Len(s) + 1
      /\ w[Len(s) + 1] = p /\ \A i \in 1..Len(s) : w[i] = s[i]
  OBVIOUS
<1> HIDE DEF w
<1>2. \A k \in 0..Len(s) : RawUpTo(w, k) = RawUpTo(s, k)
  <2> TAKE k \in 0..Len(s)
  <2>1. \A i \in 1..k : w[i] = s[i]
    BY <1>1
  <2>2. [i \in 1..k |-> w[i].raw] = [i \in 1..k |-> s[i].raw]
    BY <2>1
  <2> QED BY <2>2 DEF RawUpTo
<1>3. RawUpTo(s, Len(s)) = AllRaw(s)
  BY <1>1 DEF RawUpTo, AllRaw, RawsOf
<1>4. \A k \in 1..Len(s) : Fits(RawUpTo(w, k - 1), w[k]) <=> Fits(RawUpTo(s, k - 1), s[k])
  <2> TAKE k \in 1..Len(s)
  <2>1. RawUpTo(w, k - 1) = RawUpTo(s, k - 1) /\ w[k] = s[k]
    BY <1>1, <1>2
  <2> QED BY <2>1
<1>5. Fits(RawUpTo(w, Len(s) + 1 - 1), w[Len(s) + 1]) <=> Fits(AllRaw(s), p)
  <2>1. Len(s) + 1 - 1 = Len(s)
    BY <1>1
  <2>2. RawUpTo(w, Len(s)) = AllRaw(s)
    BY <1>1, <1>2, <1>3
  <2> QED BY <1>1, <2>1, <2>2
<1>6. \A k \in 1..Len(s) + 1 : k = Len(s) + 1 \/ k \in 1..Len(s)
  BY <1>1
<1>7. AllFit(w) <=> AllFit(s) /\ Fits(AllRaw(s), p)
  <2>1. 1..Len(s) \subseteq 1..Len(s) + 1 /\ Len(s) + 1 \in 1..Len(s) + 1
    BY <1>1
  <2> HIDE DEF w
  <2> QED BY <1>1, <1>4, <1>5, <1>6, <2>1 DEF AllFit
<1> QED BY <1>7 DEF w

LEMMA NothingAtFirst ==
  /\ AllRaw(<<>>) = <<>> /\ AllLines(<<>>) = <<>> /\ AllFit(<<>>)
<1>1. RawsOf(<<>>) = <<>> /\ LinesOf(<<>>) = <<>>
  BY DEF RawsOf, LinesOf
<1>2. FlattenSeq(<<>>) = <<>>
  BY DEF FlattenSeq
<1> QED BY <1>1, <1>2 DEF AllRaw, AllLines, AllFit

\* Every chunk and every line is there, or yet to be written, and where it belongs.
Complete(s, p, n, r, l) ==
  /\ AllRaw(s) \o p.raw = [i \in 1..n |-> i]
  /\ ToSet(r) = ToSet(AllLines(s) \o p.lines) \union UNION {ToSet(l[t]) : t \in Writers}
  /\ \A t \in Writers : InOrder(t, AllLines(s) \o p.lines \o l[t])
  /\ AllFit(s) /\ Fits(AllRaw(s), p)

Before(t, a, b) == \A i \in DOMAIN a, j \in DOMAIN b : a[i].by = t /\ b[j].by = t => a[i].n < b[j].n

LEMMA ConcatIs ==
  ASSUME NEW S, NEW a \in Seq(S), NEW b \in Seq(S)
  PROVE  /\ a \o b \in Seq(S) /\ Len(a \o b) = Len(a) + Len(b) /\ DOMAIN (a \o b) = 1..Len(a) + Len(b)
         /\ \A i \in DOMAIN a : i \in DOMAIN (a \o b) /\ (a \o b)[i] = a[i]
         /\ \A j \in DOMAIN b : Len(a) + j \in DOMAIN (a \o b) /\ (a \o b)[Len(a) + j] = b[j]
         /\ \A k \in DOMAIN (a \o b) : k \in DOMAIN a \/ \E j \in DOMAIN b : k = Len(a) + j
<1>1. /\ Len(a) \in Nat /\ Len(b) \in Nat /\ DOMAIN a = 1..Len(a) /\ DOMAIN b = 1..Len(b)
      /\ a \o b \in Seq(S) /\ Len(a \o b) = Len(a) + Len(b)
  OBVIOUS
<1>2. DOMAIN (a \o b) = 1..Len(a) + Len(b)
  OBVIOUS
<1>3. \A i \in DOMAIN a : i \in DOMAIN (a \o b) /\ (a \o b)[i] = a[i]
  OBVIOUS
<1>4. \A j \in DOMAIN b : Len(a) + j \in DOMAIN (a \o b) /\ (a \o b)[Len(a) + j] = b[j]
  OBVIOUS
<1>5. ASSUME NEW k \in 1..Len(a) + Len(b), k \notin 1..Len(a) PROVE \E j \in 1..Len(b) : k = Len(a) + j
  <2>1. k - Len(a) \in 1..Len(b) /\ k = Len(a) + (k - Len(a))
    BY <1>1, <1>5
  <2> QED BY <2>1
<1> QED BY <1>1, <1>2, <1>3, <1>4, <1>5

LEMMA ToSetConcat ==
  ASSUME NEW S, NEW a \in Seq(S), NEW b \in Seq(S)
  PROVE  ToSet(a \o b) = ToSet(a) \union ToSet(b)
<1> DEFINE w == a \o b
<1>1. /\ \A i \in DOMAIN a : i \in DOMAIN w /\ w[i] = a[i]
      /\ \A j \in DOMAIN b : Len(a) + j \in DOMAIN w /\ w[Len(a) + j] = b[j]
      /\ \A k \in DOMAIN w : k \in DOMAIN a \/ \E j \in DOMAIN b : k = Len(a) + j
  BY ConcatIs
<1> HIDE DEF w
<1>2. ToSet(w) \subseteq ToSet(a) \union ToSet(b)
  <2> SUFFICES ASSUME NEW k \in DOMAIN w PROVE w[k] \in ToSet(a) \union ToSet(b)
    BY DEF ToSet
  <2> QED BY <1>1 DEF ToSet
<1>3. ToSet(a) \subseteq ToSet(w) /\ ToSet(b) \subseteq ToSet(w)
  BY <1>1 DEF ToSet
<1> QED BY <1>2, <1>3 DEF w

LEMMA InOrderBoth ==
  ASSUME NEW t, NEW a \in Seq(LineRecs), NEW b \in Seq(LineRecs)
  PROVE  InOrder(t, a \o b) <=> InOrder(t, a) /\ InOrder(t, b) /\ Before(t, a, b)
<1> DEFINE w == a \o b
<1>1. /\ \A i \in DOMAIN a : i \in DOMAIN w /\ w[i] = a[i]
      /\ \A j \in DOMAIN b : Len(a) + j \in DOMAIN w /\ w[Len(a) + j] = b[j]
      /\ \A k \in DOMAIN w : k \in DOMAIN a \/ \E j \in DOMAIN b : k = Len(a) + j
  BY ConcatIs
<1>2. Len(a) \in Nat /\ Len(b) \in Nat /\ DOMAIN a = 1..Len(a) /\ DOMAIN b = 1..Len(b)
  OBVIOUS
<1> HIDE DEF w
<1>3. ASSUME InOrder(t, w) PROVE InOrder(t, a) /\ InOrder(t, b) /\ Before(t, a, b)
  <2>1. InOrder(t, a)
    BY <1>1, <1>3 DEF InOrder
  <2>2. InOrder(t, b)
    <3> SUFFICES ASSUME NEW i \in DOMAIN b, NEW j \in DOMAIN b, i < j, b[i].by = t, b[j].by = t
                 PROVE  b[i].n < b[j].n
      BY DEF InOrder
    <3>1. Len(a) + i < Len(a) + j
      BY <1>2
    <3> QED BY <1>1, <1>3, <3>1 DEF InOrder
  <2>3. Before(t, a, b)
    <3> SUFFICES ASSUME NEW i \in DOMAIN a, NEW j \in DOMAIN b, a[i].by = t, b[j].by = t
                 PROVE  a[i].n < b[j].n
      BY DEF Before
    <3>1. i < Len(a) + j
      BY <1>2
    <3> QED BY <1>1, <1>3, <3>1 DEF InOrder
  <2> QED BY <2>1, <2>2, <2>3
<1>4. ASSUME InOrder(t, a), InOrder(t, b), Before(t, a, b) PROVE InOrder(t, w)
  <2> SUFFICES ASSUME NEW i \in DOMAIN w, NEW j \in DOMAIN w, i < j, w[i].by = t, w[j].by = t
               PROVE  w[i].n < w[j].n
    BY DEF InOrder
  <2>1. CASE i \in DOMAIN a /\ j \in DOMAIN a
    BY <1>1, <1>4, <2>1 DEF InOrder
  <2>2. CASE i \in DOMAIN a /\ j \notin DOMAIN a
    <3>1. PICK y \in DOMAIN b : j = Len(a) + y
      BY <1>1, <2>2
    <3>2. w[i] = a[i] /\ w[j] = b[y]
      BY <1>1, <2>2, <3>1
    <3> QED BY <1>4, <2>2, <3>2 DEF Before
  <2>3. CASE i \notin DOMAIN a
    <3>1. PICK x \in DOMAIN b : i = Len(a) + x
      BY <1>1, <2>3
    <3>2. j \notin DOMAIN a
      BY <1>1, <1>2, <2>3, <3>1
    <3>3. PICK y \in DOMAIN b : j = Len(a) + y
      BY <1>1, <3>2
    <3>4. w[i] = b[x] /\ w[j] = b[y] /\ x < y
      BY <1>1, <1>2, <3>1, <3>3
    <3> QED BY <1>4, <3>4 DEF InOrder
  <2> QED BY <2>1, <2>2, <2>3
<1> QED BY <1>3, <1>4 DEF w

\* A part that is finished goes behind the others.
LEMMA CompleteMoved ==
  ASSUME NEW s \in Seq(PartRecs), NEW p \in PartRecs, NEW n, NEW r, NEW l, Complete(s, p, n, r, l)
  PROVE  Complete(Append(s, p), NoPart, n, r, l)
<1>1. /\ AllRaw(Append(s, p)) = AllRaw(s) \o p.raw /\ AllLines(Append(s, p)) = AllLines(s) \o p.lines
      /\ AllRaw(s) \in Seq(Nat) /\ AllLines(s) \in Seq(LineRecs) /\ p.raw \in Seq(Nat)
      /\ p.lines \in Seq(LineRecs)
      /\ AllFit(Append(s, p))
  BY AllOneMore, FitOneMore, OneMoreIs DEF Complete
<1>2. AllRaw(s) \o p.raw \in Seq(Nat) /\ AllLines(s) \o p.lines \in Seq(LineRecs)
  BY <1>1, ConcatIs
<1>3. NoPart.raw = <<>> /\ NoPart.lines = <<>>
  BY DEF NoPart
<1>4. \A S : \A x \in Seq(S) : x \o <<>> = x
  OBVIOUS
<1>5. /\ AllRaw(Append(s, p)) \o NoPart.raw = AllRaw(s) \o p.raw
      /\ AllLines(Append(s, p)) \o NoPart.lines = AllLines(s) \o p.lines
  BY <1>1, <1>2, <1>3, <1>4
<1>6. \A c : Fits(c, NoPart)
  BY <1>3 DEF Fits
<1> QED BY <1>1, <1>5, <1>6 DEF Complete

LEMMA HoldsTyped ==
  ASSUME NEW s \in Seq(PartRecs), NEW p \in PartRecs
  PROVE  /\ AllRaw(s) \in Seq(Nat) /\ AllLines(s) \in Seq(LineRecs)
         /\ p.raw \in Seq(Nat) /\ p.lines \in Seq(LineRecs)
         /\ AllRaw(s) \o p.raw \in Seq(Nat) /\ AllLines(s) \o p.lines \in Seq(LineRecs)
<1>1. AllRaw(s) \in Seq(Nat) /\ AllLines(s) \in Seq(LineRecs) /\ p.raw \in Seq(Nat) /\ p.lines \in Seq(LineRecs)
  BY AllOneMore, OneMoreIs
<1> QED BY <1>1, ConcatIs

LEMMA Associates ==
  \A S : \A a, b, c \in Seq(S) : a \o (b \o c) = (a \o b) \o c
<1> SUFFICES ASSUME NEW S, NEW a \in Seq(S), NEW b \in Seq(S), NEW c \in Seq(S)
             PROVE  a \o (b \o c) = (a \o b) \o c
  OBVIOUS
<1> QED OBVIOUS

YetToWrite(l) == UNION {ToSet(l[x]) : x \in Writers}

\* One thread's lines are others than before.
LEMMA YetToWriteIs ==
  ASSUME NEW l, NEW m, NEW t \in Writers, \A x \in Writers \ {t} : m[x] = l[x]
  PROVE  /\ YetToWrite(m) \union ToSet(l[t]) = YetToWrite(l) \union ToSet(m[t])
         /\ ToSet(l[t]) \subseteq YetToWrite(l) /\ ToSet(m[t]) \subseteq YetToWrite(m)
<1>1. \A x \in Writers : ToSet(m[x]) \subseteq YetToWrite(m) /\ ToSet(l[x]) \subseteq YetToWrite(l)
  BY DEF YetToWrite
<1>2. \A e \in YetToWrite(m) : \E x \in Writers : e \in ToSet(m[x])
  BY DEF YetToWrite
<1>3. \A e \in YetToWrite(l) : \E x \in Writers : e \in ToSet(l[x])
  BY DEF YetToWrite
<1>4. YetToWrite(m) \subseteq YetToWrite(l) \union ToSet(m[t])
  BY <1>1, <1>2
<1>5. YetToWrite(l) \subseteq YetToWrite(m) \union ToSet(l[t])
  BY <1>1, <1>3
<1> QED BY <1>1, <1>4, <1>5

\* A chunk is said, and put where the present part ends.
LEMMA CompleteSaid ==
  ASSUME NEW s \in Seq(PartRecs), NEW p \in PartRecs, NEW n \in Nat, NEW r, NEW l, Complete(s, p, n, r, l)
  PROVE  Complete(s, [p EXCEPT !.raw = @ \o <<n + 1>>], n + 1, r, l)
<1> DEFINE one == <<n + 1>>
           q == [p EXCEPT !.raw = @ \o one]
<1>1. AllRaw(s) \in Seq(Nat) /\ p.raw \in Seq(Nat) /\ one \in Seq(Nat)
  BY HoldsTyped
<1>2. q.raw = p.raw \o one /\ q.lines = p.lines
  BY DEF PartRecs
<1>4. [i \in 1..n |-> i] \o one = [i \in 1..n + 1 |-> i]
  OBVIOUS
<1> HIDE DEF q, one
<1>3. AllRaw(s) \o q.raw = (AllRaw(s) \o p.raw) \o one
  <2> DEFINE c == AllRaw(s)
             x == p.raw
             y == q.raw
  <2>1. c \in Seq(Nat) /\ x \in Seq(Nat) /\ one \in Seq(Nat) /\ y = x \o one
    BY <1>1, <1>2
  <2> HIDE DEF c, x, y
  <2>3. c \o (x \o one) = (c \o x) \o one
    <3>1. c \in Seq(Nat) /\ x \in Seq(Nat) /\ one \in Seq(Nat)
      BY <2>1
    <3> QED BY <3>1, Associates, SMTT(30)
  <2>2. c \o y = (c \o x) \o one
    BY <2>1, <2>3
  <2> QED BY <2>2 DEF c, x, y
<1>5. AllRaw(s) \o q.raw = [i \in 1..n + 1 |-> i]
  BY <1>3, <1>4 DEF Complete
<1>6. ToSet(p.raw) \subseteq ToSet(q.raw)
  BY <1>1, <1>2, ToSetConcat
<1>7. Fits(AllRaw(s), q)
  <2>1. Fits(AllRaw(s), p)
    BY DEF Complete
  <2> QED BY <1>2, <1>6, <2>1 DEF Fits
<1>8. Complete(s, q, n + 1, r, l)
  BY <1>2, <1>5, <1>7 DEF Complete
<1> QED BY <1>8 DEF q, one

\* Lines are handed to a thread that has none.
LEMMA CompleteHanded ==
  ASSUME NEW s \in Seq(PartRecs), NEW p \in PartRecs, NEW n, NEW r \in Seq(LineRecs),
         NEW l \in [Writers -> Seq(LineRecs)], Complete(s, p, n, r, l),
         NEW t \in Writers, l[t] = <<>>, \A i \in DOMAIN r : r[i].n = i,
         NEW new \in Seq(LineRecs), \A i \in DOMAIN new : new[i].by = t /\ new[i].n = Len(r) + i
  PROVE  Complete(s, p, n, r \o new, [l EXCEPT ![t] = new])
<1> DEFINE m == [l EXCEPT ![t] = new]
           have == AllLines(s) \o p.lines
<1>1. m[t] = new /\ \A x \in Writers \ {t} : m[x] = l[x]
  OBVIOUS
<1>2. have \in Seq(LineRecs)
  BY HoldsTyped
<1>3. /\ ToSet(r) = ToSet(have) \union YetToWrite(l)
      /\ \A x \in Writers : InOrder(x, have \o l[x])
      /\ AllRaw(s) \o p.raw = [i \in 1..n |-> i] /\ AllFit(s) /\ Fits(AllRaw(s), p)
  BY DEF Complete, YetToWrite
<1> HIDE DEF m, have
<1>4. ToSet(r \o new) = ToSet(have) \union YetToWrite(m)
  <2>1. ToSet(r \o new) = ToSet(r) \union ToSet(new)
    BY ToSetConcat
  <2>2. ToSet(l[t]) = {}
    BY DEF ToSet
  <2>4. YetToWrite(m) \union ToSet(l[t]) = YetToWrite(l) \union ToSet(m[t])
    BY <1>1, YetToWriteIs
  <2>3. YetToWrite(m) = YetToWrite(l) \union ToSet(new)
    BY <1>1, <2>2, <2>4
  <2> QED BY <1>3, <2>1, <2>3
<1>5. InOrder(t, have \o new)
  <2>1. InOrder(t, have)
    BY <1>2, <1>3, InOrderBoth
  <2>2. Len(r) \in Nat /\ DOMAIN new = 1..Len(new) /\ Len(new) \in Nat /\ DOMAIN r = 1..Len(r)
    OBVIOUS
  <2>3. InOrder(t, new)
    <3> SUFFICES ASSUME NEW i \in DOMAIN new, NEW j \in DOMAIN new, i < j PROVE new[i].n < new[j].n
      BY DEF InOrder
    <3>1. new[i].n = Len(r) + i /\ new[j].n = Len(r) + j
      OBVIOUS
    <3> QED BY <2>2, <3>1
  <2>4. Before(t, have, new)
    <3> SUFFICES ASSUME NEW i \in DOMAIN have, NEW j \in DOMAIN new PROVE have[i].n < new[j].n
      BY DEF Before
    <3>1. have[i] \in ToSet(r)
      BY <1>3 DEF ToSet
    <3>2. PICK k \in DOMAIN r : have[i] = r[k]
      BY <3>1 DEF ToSet
    <3>3. have[i].n = k /\ new[j].n = Len(r) + j
      BY <3>2
    <3> QED BY <2>2, <3>3
  <2> QED BY <1>2, <2>1, <2>3, <2>4, InOrderBoth
<1>6. \A x \in Writers : InOrder(x, have \o m[x])
  BY <1>1, <1>3, <1>5
<1>7. Complete(s, p, n, r \o new, m)
  BY <1>3, <1>4, <1>6 DEF Complete, have, YetToWrite
<1> QED BY <1>7 DEF m

\* A thread writes the next of its lines behind the present ones.
LEMMA CompleteWritten ==
  ASSUME NEW s \in Seq(PartRecs), NEW p \in PartRecs, NEW n \in Nat, NEW r,
         NEW l \in [Writers -> Seq(LineRecs)], Complete(s, p, n, r, l),
         NEW t \in Writers, l[t] # <<>>, Head(l[t]).by = t,
         t = "rx" => Head(l[t]).chunk = n /\ n > 0
  PROVE  Complete(s, [p EXCEPT !.lines = @ \o <<Head(l[t])>>], n, r, [l EXCEPT ![t] = Tail(l[t])])
<1> DEFINE h == Head(l[t])
           one == <<h>>
           left == Tail(l[t])
           m == [l EXCEPT ![t] = left]
           q == [p EXCEPT !.lines = @ \o one]
           have == AllLines(s) \o p.lines
           c == AllRaw(s)
<1>1. m[t] = left /\ \A x \in Writers \ {t} : m[x] = l[x]
  OBVIOUS
<1>2. have \in Seq(LineRecs) /\ c \in Seq(Nat) /\ p.raw \in Seq(Nat) /\ p.lines \in Seq(LineRecs)
      /\ AllLines(s) \in Seq(LineRecs)
  BY HoldsTyped
<1>3. h \in LineRecs /\ left \in Seq(LineRecs) /\ one \in Seq(LineRecs) /\ l[t] = one \o left
  <2>1. l[t] \in Seq(LineRecs)
    OBVIOUS
  <2> QED BY <2>1
<1>4. /\ ToSet(r) = ToSet(have) \union YetToWrite(l)
      /\ \A x \in Writers : InOrder(x, have \o l[x])
      /\ c \o p.raw = [i \in 1..n |-> i] /\ AllFit(s) /\ Fits(c, p)
  BY DEF Complete, YetToWrite
<1>5. q.raw = p.raw /\ q.lines = p.lines \o one
  BY DEF PartRecs
<1>6. h.by = t /\ (t = "rx" => h.chunk = n /\ n > 0)
  OBVIOUS
<1>7. AllLines(s) \o q.lines = have \o one
  <2> DEFINE a == AllLines(s)
             x == p.lines
             y == q.lines
  <2>1. /\ a \in Seq(LineRecs) /\ x \in Seq(LineRecs) /\ one \in Seq(LineRecs)
        /\ y = x \o one /\ have = a \o x
    BY <1>2, <1>3, <1>5
  <2> HIDE DEF a, x, y, have, one, q
  <2>3. a \o (x \o one) = (a \o x) \o one
    <3>1. a \in Seq(LineRecs) /\ x \in Seq(LineRecs) /\ one \in Seq(LineRecs)
      BY <2>1
    <3> QED BY <3>1, Associates, SMTT(30)
  <2>2. a \o y = (a \o x) \o one
    BY <2>1, <2>3
  <2> QED BY <2>1, <2>2 DEF a, x, y
<1>8. \A x \in Writers \ {t} : l[x] \in Seq(LineRecs)
  OBVIOUS
<1>14. DOMAIN one = {1} /\ one[1] = h
  OBVIOUS
<1> HIDE DEF h, one, left, m, q, have, c
<1>9. have \o one \in Seq(LineRecs) /\ DOMAIN one = {1} /\ one[1] = h
  BY <1>2, <1>3, <1>14, ConcatIs
<1>10. ToSet(r) = ToSet(have \o one) \union YetToWrite(m)
  <2>1. ToSet(have \o one) = ToSet(have) \union ToSet(one)
    BY <1>2, <1>3, ToSetConcat
  <2>2. ToSet(l[t]) = ToSet(one) \union ToSet(left)
    BY <1>3, ToSetConcat
  <2>3. YetToWrite(m) \union ToSet(l[t]) = YetToWrite(l) \union ToSet(left)
    BY <1>1, YetToWriteIs
  <2>4. ToSet(l[t]) \subseteq YetToWrite(l) /\ ToSet(left) \subseteq YetToWrite(m)
    BY <1>1, YetToWriteIs
  <2>5. YetToWrite(l) = YetToWrite(m) \union ToSet(one)
    BY <2>2, <2>3, <2>4
  <2> QED BY <1>4, <2>1, <2>5
<1>11. ASSUME NEW x \in Writers PROVE InOrder(x, (have \o one) \o m[x])
  <2>1. CASE x = t
    <3> DEFINE y == l[t]
    <3>0. /\ y = one \o left /\ have \in Seq(LineRecs) /\ one \in Seq(LineRecs)
          /\ left \in Seq(LineRecs)
      BY <1>2, <1>3
    <3> HIDE DEF y
    <3>2. (have \o one) \o left = have \o y
      BY <3>0, Associates, SMTT(30)
    <3>1. (have \o one) \o left = have \o l[t]
      BY <3>2 DEF y
    <3> QED BY <1>1, <1>4, <2>1, <3>1
  <2>2. CASE x # t
    <3>1. InOrder(x, have) /\ InOrder(x, l[x]) /\ Before(x, have, l[x])
      BY <1>2, <1>4, <1>8, <2>2, InOrderBoth
    <3>2. \A y \in DOMAIN one : one[y].by # x
      BY <1>6, <1>9, <2>2
    <3>3. InOrder(x, one) /\ Before(x, have, one) /\ Before(x, one, l[x])
      BY <3>2 DEF InOrder, Before
    <3>4. InOrder(x, have \o one)
      BY <1>2, <1>3, <3>1, <3>3, InOrderBoth
    <3>5. Before(x, have \o one, l[x])
      <4> DEFINE w == have \o one
      <4>0. have \in Seq(LineRecs) /\ one \in Seq(LineRecs)
        BY <1>2, <1>3
      <4>1. /\ \A i \in DOMAIN have : w[i] = have[i]
            /\ \A j \in DOMAIN one : w[Len(have) + j] = one[j]
            /\ \A k \in DOMAIN w : k \in DOMAIN have \/ \E j \in DOMAIN one : k = Len(have) + j
        BY <4>0, ConcatIs, SMTT(30)
      <4> HIDE DEF w
      <4>2. Before(x, w, l[x])
        BY <3>1, <3>3, <4>1 DEF Before
      <4> QED BY <4>2 DEF w
    <3>6. InOrder(x, (have \o one) \o l[x])
      BY <1>8, <1>9, <2>2, <3>1, <3>4, <3>5, InOrderBoth
    <3> QED BY <1>1, <2>2, <3>6
  <2> QED BY <2>1, <2>2
<1>12. Fits(c, q)
  <2>1. t = "rx" => n \in ToSet(p.raw) \/ (c # <<>> /\ Last(c) = n)
    <3> SUFFICES ASSUME n > 0, n \notin ToSet(p.raw) PROVE c # <<>> /\ Last(c) = n
      BY <1>6
    <3>1. Len(c \o p.raw) = n /\ (c \o p.raw)[n] = n
      BY <1>4
    <3>2. p.raw = <<>>
      <4> SUFFICES ASSUME p.raw # <<>> PROVE FALSE
        OBVIOUS
      <4>1. Len(p.raw) \in DOMAIN p.raw /\ Len(c) + Len(p.raw) = n
        BY <1>2, <3>1
      <4>2. (c \o p.raw)[Len(c) + Len(p.raw)] = p.raw[Len(p.raw)]
        <5> DEFINE x == p.raw
                   k == Len(x)
        <5>1. c \in Seq(Nat) /\ x \in Seq(Nat) /\ k \in DOMAIN x
          BY <1>2, <4>1
        <5> HIDE DEF x, k
        <5>2. \A j \in DOMAIN x : (c \o x)[Len(c) + j] = x[j]
          BY <5>1, ConcatIs, SMTT(30)
        <5>3. (c \o x)[Len(c) + k] = x[k]
          BY <5>1, <5>2
        <5> QED BY <5>3 DEF x, k
      <4>3. p.raw[Len(p.raw)] = n
        BY <3>1, <4>1, <4>2
      <4> QED BY <4>1, <4>3 DEF ToSet
    <3>3. c \o <<>> = c
      BY <1>2
    <3>4. c = [i \in 1..n |-> i]
      BY <1>4, <3>2, <3>3
    <3>5. Len(c) = n
      BY <3>4
    <3>6. c[n] = n
      BY <3>4
    <3>7. c # <<>>
      BY <3>5
    <3> QED BY <3>5, <3>6, <3>7 DEF Last
  <2>2. /\ \A i \in DOMAIN p.lines : q.lines[i] = p.lines[i]
        /\ \A j \in DOMAIN one : q.lines[Len(p.lines) + j] = one[j]
        /\ \A k \in DOMAIN q.lines : k \in DOMAIN p.lines \/ \E j \in DOMAIN one : k = Len(p.lines) + j
    <3> DEFINE x == p.lines
               w == q.lines
    <3>1. x \in Seq(LineRecs) /\ w = x \o one
      BY <1>2, <1>5
    <3> HIDE DEF x, w
    <3>2. /\ \A i \in DOMAIN x : w[i] = x[i]
          /\ \A j \in DOMAIN one : w[Len(x) + j] = one[j]
          /\ \A k \in DOMAIN w : k \in DOMAIN x \/ \E j \in DOMAIN one : k = Len(x) + j
      BY <1>3, <3>1, ConcatIs, SMTT(30)
    <3> QED BY <3>2 DEF x, w
  <2> SUFFICES ASSUME NEW k \in DOMAIN q.lines, q.lines[k].by = "rx"
               PROVE  q.lines[k].chunk \in ToSet(q.raw) \/ (c # <<>> /\ Last(c) = q.lines[k].chunk)
    BY DEF Fits
  <2>3. CASE k \in DOMAIN p.lines
    BY <1>4, <1>5, <2>2, <2>3 DEF Fits
  <2>4. CASE k \notin DOMAIN p.lines
    <3>1. q.lines[k] = h
      BY <1>9, <2>2, <2>4
    <3> QED BY <1>5, <1>6, <2>1, <3>1
  <2> QED BY <2>3, <2>4
<1>13. Complete(s, q, n, r, m)
  BY <1>4, <1>5, <1>7, <1>10, <1>11, <1>12 DEF Complete, c, YetToWrite
<1> QED BY <1>13 DEF q, m, h, one, left

LinesLeft == [t \in Writers |-> doing[t].lines]

LEMMA AppendIs ==
  ASSUME NEW S, NEW s \in Seq(S), NEW e \in S
  PROVE  s \o <<e>> = Append(s, e)
OBVIOUS

\* The same of all the parts that are written.
AllThere(w, n, r, l) ==
  /\ AllRaw(w) = [i \in 1..n |-> i]
  /\ ToSet(r) = ToSet(AllLines(w)) \union UNION {ToSet(l[t]) : t \in Writers}
  /\ \A t \in Writers : InOrder(t, AllLines(w) \o l[t])
  /\ AllFit(w)

LEMMA WholeIs ==
  ASSUME NEW s \in Seq(PartRecs), NEW p \in PartRecs, NEW n, NEW r, NEW l, NEW w, w = s \o <<p>>
  PROVE  Complete(s, p, n, r, l) <=> AllThere(w, n, r, l)
<1>1. w = Append(s, p)
  BY AppendIs
<1>2. AllRaw(w) = AllRaw(s) \o p.raw /\ AllLines(w) = AllLines(s) \o p.lines
  BY <1>1, AllOneMore
<1>3. AllFit(w) <=> AllFit(s) /\ Fits(AllRaw(s), p)
  BY <1>1, FitOneMore
<1> QED BY <1>2, <1>3 DEF Complete, AllThere

LEMMA ByParts ==
  /\ NothingMissing /\ SameSpan <=> AllThere(Written, said, rows, LinesLeft)
  /\ NothingMissing' /\ SameSpan' <=> AllThere(Written', said', rows', LinesLeft')
<1>1. \A t \in Writers : LinesLeft[t] = doing[t].lines /\ LinesLeft'[t] = doing'[t].lines
  BY DEF LinesLeft
<1>2. /\ Chunks = AllRaw(Written) /\ Lines = AllLines(Written)
      /\ Chunks' = AllRaw(Written') /\ Lines' = AllLines(Written')
  BY DEF Chunks, Lines, AllRaw, AllLines, RawsOf, LinesOf
<1>3. /\ UNION {ToSet(doing[t].lines) : t \in Writers} = UNION {ToSet(LinesLeft[t]) : t \in Writers}
      /\ UNION {ToSet(doing'[t].lines) : t \in Writers} = UNION {ToSet(LinesLeft'[t]) : t \in Writers}
  BY <1>1
<1>4. SameSpan <=> AllFit(Written)
  BY DEF SameSpan, AllFit, Fits, ChunksUpTo, RawUpTo
<1>5. SameSpan' <=> AllFit(Written')
  BY DEF SameSpan, AllFit, Fits, ChunksUpTo, RawUpTo
<1>6. NothingMissing /\ SameSpan <=> AllThere(Written, said, rows, LinesLeft)
  BY <1>1, <1>2, <1>3, <1>4 DEF NothingMissing, AllThere
<1>7. NothingMissing' /\ SameSpan' <=> AllThere(Written', said', rows', LinesLeft')
  BY <1>1, <1>2, <1>3, <1>5 DEF NothingMissing, AllThere
<1> QED BY <1>6, <1>7

LEMMA CompleteIs ==
  ASSUME Old \in Seq(PartRecs), Present \in PartRecs
  PROVE  NothingMissing /\ SameSpan <=> Complete(Old, Present, said, rows, LinesLeft)
<1>1. Written = Old \o <<Present>>
  BY DEF Written, Old, Present
<1> HIDE DEF Written, Old, Present, LinesLeft
<1> QED BY <1>1, ByParts, WholeIs

LEMMA CompleteIsNext ==
  ASSUME NEW s \in Seq(PartRecs), NEW p \in PartRecs, Old' = s, Present' = p,
         Complete(s, p, said', rows', LinesLeft')
  PROVE  NothingMissing' /\ SameSpan'
<1>1. Written' = Old' \o <<Present'>>
  BY DEF Written, Old, Present
<1>2. Written' = s \o <<p>>
  BY <1>1
<1>3. AllThere(Written', said', rows', LinesLeft')
  BY <1>2, WholeIs
<1> QED BY <1>3, ByParts

LEMMA OldTyped ==
  ASSUME RecTypes, OwnThere
  PROVE  /\ Old \in Seq(PartRecs) /\ Present \in PartRecs
         /\ LinesLeft \in [Writers -> Seq(LineRecs)]
         /\ files.raw \in Seq(Nat) /\ files.lines \in Seq(LineRecs)
         /\ own \in Seq(Nat) /\ Len(own) \in Nat /\ DOMAIN own = 1..Len(own)
<1>1. files \in FileRecs
  BY DEF RecTypes
<1>2. files.raw \in Seq(Nat) /\ files.lines \in Seq(LineRecs)
  BY <1>1 DEF FileRecs
<1>3. Present \in PartRecs
  BY <1>2 DEF Present, PartRecs
<1>4. own \in Seq(Nat \ {0})
  BY DEF RecTypes
<1>5. own \in Seq(Nat) /\ Len(own) \in Nat /\ DOMAIN own = 1..Len(own)
  BY <1>4
<1>6. \A i \in 1..Len(own) : parts[own[i]] \in PartRecs
  BY <1>5 DEF OwnThere, RecTypes, PartsTyped
<1>7. [i \in 1..Len(own) |-> parts[own[i]]] \in Seq(PartRecs)
  BY <1>5, <1>6
<1>8. dropped \in Seq(PartRecs)
  BY DEF RecTypes
<1>9. Old \in Seq(PartRecs)
  BY <1>7, <1>8, ConcatIs DEF Old
<1>10. doing \in [Writers -> Doings]
  BY DEF RecTypes, DoingTyped
<1>11. \A t \in Writers : doing[t].lines \in Seq(LineRecs)
  BY <1>10 DEF Doings
<1>12. LinesLeft \in [Writers -> Seq(LineRecs)]
  BY <1>11 DEF LinesLeft
<1> QED BY <1>2, <1>3, <1>5, <1>9, <1>12

\* The recording stays as it is while what is written does.
LEMMA ContentStays ==
  ASSUME NothingMissing, SameSpan, UNCHANGED <<own, dropped, said, rows>>, Present' = Present,
         \A i \in DOMAIN own : parts'[own[i]] = parts[own[i]], own \in Seq(Nat),
         \A t \in Writers : doing'[t].lines = doing[t].lines
  PROVE  NothingMissing' /\ SameSpan'
<1>1. Written = Old \o <<Present>> /\ Written' = Old' \o <<Present'>>
  BY DEF Written, Old, Present
<1>2. Old' = Old
  <2>1. \A i \in 1..Len(own) : parts'[own[i]] = parts[own[i]]
    OBVIOUS
  <2>2. [i \in 1..Len(own) |-> parts'[own[i]]] = [i \in 1..Len(own) |-> parts[own[i]]]
    BY <2>1
  <2> QED BY <2>2 DEF Old
<1>3. Written' = Written
  BY <1>1, <1>2
<1>4. LinesLeft' = LinesLeft
  BY DEF LinesLeft
<1> QED BY <1>3, <1>4, ByParts

-----------------------------------------------------------------------------
(* The parts of earlier runs *)

LEMMA PutsAside ==
  ASSUME RecTypes, NEW raw, NEW lines, Puts(raw, lines)
  PROVE  /\ DOMAIN parts' = DOMAIN parts
         /\ \A n \in DOMAIN parts : (own # <<>> => n # own[Len(own)]) => parts'[n] = parts[n]
<1>1. parts' = parts \/ \E e : own # <<>> /\ parts' = [parts EXCEPT ![Last(own)] = e]
  BY DEF Puts
<1> QED BY <1>1 DEF Last, RecTypes, PartsTyped

\* A step that leaves the parts of earlier runs, and takes no number of theirs.
LEMMA EarlierStays ==
  ASSUME EarlierKept, UNCHANGED use, deleted' \/ ~deleted,
         ~deleted' =>
           /\ \A n \in 1..use.earlier : n \in DOMAIN parts => n \in DOMAIN parts' /\ parts'[n] = parts[n]
           /\ \A i \in DOMAIN own' : own'[i] \in {own[j] : j \in DOMAIN own} \/ own'[i] > use.earlier
           /\ \A t \in Writers : doing'[t].at \in {"close", "rename"} =>
                \/ doing[t].at \in {"close", "rename"} /\ doing'[t].number = doing[t].number
                \/ doing'[t].number > use.earlier
  PROVE  EarlierKept'
<1> SUFFICES ASSUME ~deleted' PROVE EarlierKept'
  BY DEF EarlierKept
<1>1. /\ EarlierRunsKept(use.earlier) /\ \A i \in DOMAIN own : own[i] > use.earlier
      /\ \A t \in Writers : doing[t].at \in {"close", "rename"} => doing[t].number > use.earlier
  BY DEF EarlierKept
<1>2. \A n \in 1..use'.earlier : n \in DOMAIN parts' /\ parts'[n] = Earlier
  BY <1>1 DEF EarlierRunsKept
<1>3. \A i \in DOMAIN own' : own'[i] > use'.earlier
  BY <1>1
<1>4. \A t \in Writers : doing'[t].at \in {"close", "rename"} => doing'[t].number > use'.earlier
  BY <1>1
<1> QED BY <1>2, <1>3, <1>4 DEF EarlierKept, EarlierRunsKept

\* The part that is still written to under the open handles is none of theirs.
LEMMA EarlierUnwritten ==
  ASSUME EarlierKept, ~deleted, RecTypes, NEW e, e = use.earlier, e \in Nat,
         \A n \in DOMAIN parts : (own # <<>> => n # own[Len(own)]) => parts'[n] = parts[n]
  PROVE  \A n \in 1..e : n \in DOMAIN parts => parts'[n] = parts[n]
<1> TAKE n \in 1..e
<1> HAVE n \in DOMAIN parts
<1>1. own # <<>> => n # own[Len(own)]
  <2> SUFFICES ASSUME own # <<>> PROVE n # own[Len(own)]
    OBVIOUS
  <2>1. own \in Seq(Nat \ {0})
    BY DEF RecTypes
  <2>2. Len(own) \in DOMAIN own /\ own[Len(own)] \in Nat
    BY <2>1
  <2>3. own[Len(own)] > e
    BY <2>2 DEF EarlierKept
  <2> QED BY <2>2, <2>3
<1> QED BY <1>1

LEMMA EarlierChunk ==
  ASSUME RecInv, EarlierKept, UNCHANGED use, use.earlier \in Nat,
         NEW t \in Writers, \/ t = "rx" /\ \E ends \in Nat : HandleChunk(ends)
                            \/ t = "tx" /\ HandleTyped
                            \/ HandleLine(t)
  PROVE  EarlierKept'
<1>1. UNCHANGED <<own, deleted>>
  BY DEF HandleChunk, HandleTyped, HandleLine
<1>2. doing'[t].at \notin {"close", "rename"} /\ \A x \in Writers \ {t} : doing'[x] = doing[x]
  <2>0. doing \in [Writers -> Doings]
    BY DEF RecInv, RecTypes, DoingTyped
  <2>1. CASE t = "tx" /\ HandleTyped
    BY <2>0, <2>1 DEF HandleTyped, Resting
  <2>2. ASSUME NEW size, NEW end, NEW left, Wrote(t, size, end, left) \/ Skipped(t, left)
        PROVE  doing'[t].at \notin {"close", "rename"} /\ \A x \in Writers \ {t} : doing'[x] = doing[x]
    BY <2>0, <2>2 DEF Wrote, Skipped, Resting, Idle
  <2>3. \/ t = "tx" /\ HandleTyped
        \/ \E size, end, left : Wrote(t, size, end, left) \/ Skipped(t, left)
    BY DEF HandleChunk, HandleLine
  <2> QED BY <2>1, <2>2, <2>3
<1>3. DOMAIN parts' = DOMAIN parts /\ \A n \in DOMAIN parts :
        (own # <<>> => n # own[Len(own)]) => parts'[n] = parts[n]
  <2>1. CASE parts' = parts
    BY <2>1
  <2>2. CASE \E raw, lines : Puts(raw, lines)
    BY <2>2, PutsAside DEF RecInv
  <2>3. parts' = parts \/ \E raw, lines : Puts(raw, lines)
    BY DEF HandleChunk, HandleTyped, HandleLine, Skipped
  <2> QED BY <2>1, <2>2, <2>3
<1> SUFFICES ASSUME ~deleted PROVE EarlierKept'
  BY <1>1 DEF EarlierKept
<1>4. \A n \in 1..use.earlier : n \in DOMAIN parts => n \in DOMAIN parts' /\ parts'[n] = parts[n]
  BY <1>3, EarlierUnwritten DEF RecInv
<1>5. \A x \in Writers : doing'[x].at \in {"close", "rename"} =>
        doing[x].at \in {"close", "rename"} /\ doing'[x].number = doing[x].number
  BY <1>2
<1> QED BY <1>1, <1>4, <1>5, EarlierStays

LEMMA EarlierRotate ==
  ASSUME RecInv, EarlierKept, UNCHANGED use, use.earlier \in Nat, NEW t \in Writers, Rotate(t)
  PROVE  EarlierKept'
<1>0. doing \in [Writers -> Doings] /\ own \in Seq(Nat \ {0})
  BY DEF RecInv, RecTypes, DoingTyped
<1>1. deleted' = deleted
  BY DEF Rotate, Number, CloseFiles, RenameFiles, RotationRaises, OpenNext, PruneParts
<1> SUFFICES ASSUME ~deleted PROVE EarlierKept'
  BY <1>1 DEF EarlierKept
<1>2. ASSUME NEW to, Turns(t, to)
      PROVE  /\ doing'[t].at = to /\ doing'[t].number = doing[t].number
             /\ \A x \in Writers \ {t} : doing'[x] = doing[x]
  <2>1. doing' = [doing EXCEPT ![t] = [doing[t] EXCEPT !.at = to]]
    BY <1>0, <1>2 DEF Turns
  <2>2. doing[t] \in Doings
    BY <1>0
  <2> QED BY <1>0, <2>1, <2>2 DEF Doings
<1>3. CASE Number(t)
  <2>1. UNCHANGED <<parts, own>>
    BY <1>3 DEF Number
  <2>2. /\ doing'[t].number = NextPartNumber /\ \A x \in Writers \ {t} : doing'[x] = doing[x]
    <3>1. doing' = [doing EXCEPT ![t] = [doing[t] EXCEPT !.at = "close", !.number = NextPartNumber,
 !.had = handles]]
      BY <1>0, <1>3 DEF Number
    <3>2. doing[t] \in Doings
      BY <1>0
    <3> QED BY <1>0, <3>1, <3>2 DEF Doings
  <2>3. NextPartNumber > use.earlier
    <3>1. /\ NextPartNumber \in Nat \ {0} /\ \A n \in DOMAIN parts : n < NextPartNumber
      BY NextIs DEF RecInv, RecTypes
    <3>2. CASE use.earlier = 0
      BY <3>1, <3>2
    <3>3. CASE use.earlier # 0
      <4>1. use.earlier \in 1..use.earlier
        BY <3>3
      <4>2. use.earlier \in DOMAIN parts
        BY <4>1 DEF EarlierKept, EarlierRunsKept
      <4> QED BY <3>1, <4>2
    <3> QED BY <3>2, <3>3
  <2>4. \A x \in Writers : doing'[x].at \in {"close", "rename"} =>
          \/ doing[x].at \in {"close", "rename"} /\ doing'[x].number = doing[x].number
          \/ doing'[x].number > use.earlier
    BY <2>2, <2>3
  <2>5. \A i \in DOMAIN own' : own'[i] \in {own[j] : j \in DOMAIN own}
    BY <2>1
  <2> QED BY <1>1, <2>1, <2>4, <2>5, EarlierStays
<1>4. CASE CloseFiles(t) \/ RotationRaises(t) \/ OpenNext(t)
  <2>1. UNCHANGED <<parts, own>>
    BY <1>4 DEF CloseFiles, RotationRaises, OpenNext
  <2>2. PICK to : Turns(t, to) /\ ((to = "rename" /\ doing[t].at = "close") \/ to \in {"out", "lines", "prune"})
    BY <1>4 DEF CloseFiles, RotationRaises, OpenNext, Idle
  <2>4. \A x \in Writers : doing'[x].at \in {"close", "rename"} =>
          doing[x].at \in {"close", "rename"} /\ doing'[x].number = doing[x].number
    BY <1>2, <2>2
  <2>5. \A i \in DOMAIN own' : own'[i] \in {own[j] : j \in DOMAIN own}
    BY <2>1
  <2> QED BY <1>1, <2>1, <2>4, <2>5, EarlierStays
<1>5. CASE RenameFiles(t)
  <2>1. Turns(t, "open") /\ doing[t].at = "rename"
    BY <1>5 DEF RenameFiles
  <2>2. \A x \in Writers : doing'[x].at \in {"close", "rename"} =>
          doing[x].at \in {"close", "rename"} /\ doing'[x].number = doing[x].number
    BY <1>2, <2>1
  <2>3. CASE ~doing[t].had
    <3>1. UNCHANGED <<parts, own>>
      BY <1>5, <2>3 DEF RenameFiles
    <3> QED BY <1>1, <2>2, <3>1, EarlierStays
  <2>4. CASE doing[t].had
    <3>1. /\ own' = Append(own, doing[t].number) /\ doing[t].number \in Nat \ {0}
          /\ DOMAIN parts' = DOMAIN parts \union {doing[t].number}
          /\ \A n \in DOMAIN parts \ {doing[t].number} : parts'[n] = parts[n]
      BY <1>5, <2>4, RenamedIs
    <3>2. doing[t].number > use.earlier
      BY <2>1 DEF EarlierKept
    <3>3. \A n \in 1..use.earlier : n \in DOMAIN parts => n \in DOMAIN parts' /\ parts'[n] = parts[n]
      BY <3>1, <3>2
    <3>4. \A i \in DOMAIN own' : own'[i] \in {own[j] : j \in DOMAIN own} \/ own'[i] = doing[t].number
      <4> DEFINE number == doing[t].number
      <4>1. own' = Append(own, number) /\ number \in Nat \ {0}
        BY <3>1
      <4> HIDE DEF number
      <4>2. \A i \in DOMAIN own' : (i \in DOMAIN own /\ own'[i] = own[i]) \/ own'[i] = number
        BY <1>0, <4>1
      <4> QED BY <4>2 DEF number
    <3> QED BY <1>1, <2>2, <3>2, <3>3, <3>4, EarlierStays
  <2> QED BY <2>3, <2>4
<1>6. CASE PruneParts(t)
  <2>1. /\ Turns(t, Idle(doing[t].lines)) /\ Extra \in 0..Len(own)
        /\ DOMAIN parts' = DOMAIN parts \ ToSet(Oldest)
        /\ \A n \in DOMAIN parts' : parts'[n] = parts[n]
        /\ own' = SubSeq(own, Extra + 1, Len(own))
    BY <1>6, PrunedIs
  <2>2. \A x \in Writers : doing'[x].at \in {"close", "rename"} =>
          doing[x].at \in {"close", "rename"} /\ doing'[x].number = doing[x].number
    BY <1>2, <2>1 DEF Idle
  <2>3. \A n \in ToSet(Oldest) : n > use.earlier
    <3>1. \A i \in 1..Extra : i \in DOMAIN own /\ Oldest[i] = own[i]
      BY <1>0, <2>1 DEF Oldest
    <3>2. DOMAIN Oldest = 1..Extra
      BY <1>0, <2>1 DEF Oldest
    <3> QED BY <3>1, <3>2 DEF EarlierKept, ToSet
  <2>4. \A n \in 1..use.earlier : n \in DOMAIN parts => n \in DOMAIN parts' /\ parts'[n] = parts[n]
    BY <2>1, <2>3
  <2>5. \A i \in DOMAIN own' : own'[i] \in {own[j] : j \in DOMAIN own}
    <3>1. \A i \in DOMAIN own' : Extra + i \in DOMAIN own /\ own'[i] = own[Extra + i]
      BY <1>0, <2>1
    <3> QED BY <3>1
  <2> QED BY <1>1, <2>2, <2>4, <2>5, EarlierStays
<1> QED BY <1>3, <1>4, <1>5, <1>6 DEF Rotate

\* Retention takes the whole folder, or leaves it.
LEMMA RetainIs ==
  ASSUME Retain
  PROVE  /\ deleted => deleted'
         /\ ~deleted' => UNCHANGED <<files, parts>>
         /\ UNCHANGED <<handles, own, sizes, doing, age, said, rows, dropped, overlap>>
<1>1. PICK gone : /\ deleted' = (deleted \/ 2 \in gone)
                  /\ IF 2 \in gone
                       THEN files' = NoFiles /\ parts' = [n \in {} |-> Earlier]
                       ELSE UNCHANGED <<files, parts>>
                  /\ UNCHANGED <<handles, own, sizes, doing, age, said, rows, dropped, overlap>>
  BY DEF Retain
<1> QED BY <1>1

LEMMA EarlierElse ==
  ASSUME RecInv, EarlierKept, UNCHANGED use,
         UNCHANGED recordingVars \/ OpenRecorder \/ CloseRecorder \/ Retain \/ Day
  PROVE  EarlierKept'
<1>1. UNCHANGED <<own, doing>> /\ (deleted => deleted') /\ (~deleted' => parts' = parts)
  <2>1. CASE Retain
    BY <2>1, RetainIs
  <2>2. CASE UNCHANGED recordingVars
    BY <2>2 DEF recordingVars
  <2>3. CASE OpenRecorder \/ CloseRecorder \/ Day
    BY <2>3 DEF OpenRecorder, CloseRecorder, Day
  <2> QED BY <2>1, <2>2, <2>3
<1> QED BY <1>1, EarlierStays

-----------------------------------------------------------------------------
(* The recording while one thread at a time writes it *)

\* What is known of a recording that is whole.
LEMMA WholeNow ==
  ASSUME RecInv, Whole
  PROVE  /\ Complete(Old, Present, said, rows, LinesLeft)
         /\ Old \in Seq(PartRecs) /\ Present \in PartRecs
         /\ LinesLeft \in [Writers -> Seq(LineRecs)]
         /\ files.raw \in Seq(Nat) /\ files.lines \in Seq(LineRecs)
         /\ own \in Seq(Nat) /\ Len(own) \in Nat /\ DOMAIN own = 1..Len(own)
<1>1. /\ Old \in Seq(PartRecs) /\ Present \in PartRecs
      /\ LinesLeft \in [Writers -> Seq(LineRecs)]
      /\ files.raw \in Seq(Nat) /\ files.lines \in Seq(LineRecs)
      /\ own \in Seq(Nat) /\ Len(own) \in Nat /\ DOMAIN own = 1..Len(own)
  BY OldTyped DEF RecInv, Whole
<1> QED BY <1>1, CompleteIs DEF Whole

LEMMA OldStays ==
  ASSUME UNCHANGED <<own, parts, dropped>>
  PROVE  Old' = Old
BY DEF Old

\* After a write the limits are kept, and a file that has reached one is rotated next.
LEMMA WritesInTurn ==
  ASSUME RecInv, Whole, handles, NEW t \in Writers, NEW size, NEW end \in BOOLEAN, NEW left,
         \A x \in Writers : ~Rotating(x), UNCHANGED <<handles, own, parts>>, sizes' = size,
         doing'[t].at = IF MustRotate(size, end) THEN "number" ELSE Idle(left),
         \A x \in Writers \ {t} : doing'[x] = doing[x],
         Len(files'.raw) = size.raw, Len(files'.lines) = size.text,
         \/ size.raw = Len(files.raw) + 1 /\ size.text = Len(files.lines)
         \/ end /\ size.raw = Len(files.raw) /\ size.text = Len(files.lines) + 1
  PROVE  InTurn' /\ OwnThere' /\ PartsCapped' /\ PresentCapped'
<1>1. \A x \in Writers : doing[x].at \in {"out", "lines"}
  BY DEF Rotating
<1>2. doing'[t].at \in {"out", "lines", "number"} /\ (doing'[t].at = "number" <=> MustRotate(size, end))
  BY DEF Idle
<1>3. \A x \in Writers : doing'[x].at \in {"out", "lines"} \/ (x = t /\ doing'[x].at = "number")
  BY <1>1, <1>2
<1>4. MustRotate(size, end) => RotateAt > 0
  BY DEF MustRotate
<1>5. InTurn'
  <2>1. \A x \in Writers : Rotating(x)' => RotateAt > 0 /\ \A y \in Writers \ {x} : ~Rotating(y)'
    BY <1>2, <1>3, <1>4 DEF Rotating
  <2>2. \A x \in Writers : doing'[x].at \notin {"close", "rename", "open", "prune"}
    BY <1>3
  <2> QED BY <2>1, <2>2 DEF InTurn
<1>6. OwnThere'
  BY DEF Whole, OwnThere
<1>7. PartsCapped'
  BY <1>1 DEF Whole, PartsCapped
<1>8. PresentCapped'
  <2> SUFFICES ASSUME RotateAt > 0
               PROVE  /\ Len(files'.raw) <= 2 * RotateAt /\ Len(files'.lines) <= RotateAt
                      /\ ~MustRotate(size, end)
                         => Len(files'.raw) < 2 * RotateAt /\ Len(files'.lines) < RotateAt
    <3>1. MustRotate(size, end) => ~\A x \in Writers : ~Rotating(x)'
      BY <1>2 DEF Rotating
    <3> QED BY <3>1 DEF PresentCapped
  <2>1. Len(files.raw) < 2 * RotateAt /\ Len(files.lines) < RotateAt
    BY DEF Whole, PresentCapped
  <2>2. Len(files.raw) \in Nat /\ Len(files.lines) \in Nat
    BY WholeNow
  <2>3. RotateAt \in Nat
    BY RecordingAssumption
  <2>4. MustRotate(size, end) <=> \/ end /\ (size.raw >= RotateAt \/ size.text >= RotateAt)
                                  \/ size.raw >= 2 * RotateAt
    BY DEF MustRotate
  <2> QED BY <2>1, <2>2, <2>3, <2>4
<1> QED BY <1>5, <1>6, <1>7, <1>8

LEMMA ChunkWhole ==
  ASSUME RecInv, Whole, ~deleted, ~overlap, ~overlap', handles, NEW ends \in Nat, HandleChunk(ends)
  PROVE  Whole'
<1> DEFINE chunk == said + 1
           new   == [i \in 1..ends |-> Line("rx", chunk, Len(rows) + i)]
           one   == <<chunk>>
           size  == [sizes EXCEPT !.raw = @ + 1]
<1>1. /\ doing["rx"].at = "out" /\ said' = chunk /\ rows' = rows \o new
      /\ Puts(one, <<>>) /\ Wrote("rx", size, FALSE, new)
      /\ Notes("rx") /\ UNCHANGED <<handles, own, deleted, dropped>>
  BY DEF HandleChunk
<1>2. "rx" \in Writers /\ chunk \in Nat /\ one \in Seq(Nat) /\ <<>> \in Seq(LineRecs) /\ said \in Nat
  BY DEF RecInv, RecTypes, Writers
<1>3. /\ new \in Seq(LineRecs) /\ Len(new) = ends /\ DOMAIN new = 1..ends
      /\ \A i \in DOMAIN new : new[i].by = "rx" /\ new[i].chunk = chunk /\ new[i].n = Len(rows) + i
  <2>1. rows \in Seq(LineRecs)
    BY DEF RecInv, RecTypes
  <2>2. \A i \in 1..ends : Line("rx", chunk, Len(rows) + i) \in LineRecs
    BY <1>2, <2>1 DEF Line, LineRecs
  <2>3. \A i \in 1..ends : new[i] = Line("rx", chunk, Len(rows) + i)
    OBVIOUS
  <2>4. new \in Seq(LineRecs) /\ Len(new) = ends /\ DOMAIN new = 1..ends
    BY <2>2
  <2> HIDE DEF new
  <2> QED BY <2>3, <2>4 DEF Line
<1>4. \A x \in Writers : ~Rotating(x)
  <2>1. \A x \in Writers \ {"rx"} : doing[x].at # "out" => ~Rotating(x)
    BY <1>1, <1>2, NotesIs DEF RecInv, RecTypes
  <2> QED BY <1>1, <2>1 DEF Rotating
<1>5. files.there /\ Len(files.lines) = sizes.text /\ Len(files.raw) = sizes.raw
  BY DEF RecInv, InStep, Whole, InTurn
<1>6. /\ sizes' = size /\ \A x \in Writers \ {"rx"} : doing'[x] = doing[x]
      /\ doing'["rx"] = [Resting EXCEPT !.lines = new,
         !.at = IF MustRotate(size, FALSE) THEN "number" ELSE Idle(new)]
  <2>1. DoingTyped /\ new \in Seq(LineRecs) /\ Wrote("rx", size, FALSE, new) /\ "rx" \in Writers
    BY <1>1, <1>2, <1>3 DEF RecInv, RecTypes
  <2> HIDE DEF size, new
  <2> QED BY <2>1, WroteIs
<1>7. /\ doing'["rx"].at = IF MustRotate(size, FALSE) THEN "number" ELSE Idle(new)
      /\ doing'["rx"].lines = new
  <2> HIDE DEF size, new
  <2> QED BY <1>6 DEF Resting
<1>8. parts' = parts /\ files'.raw = files.raw \o one /\ files'.lines = files.lines
  <2> HIDE DEF one
  <2>1. parts' = parts /\ files' = [files EXCEPT !.raw = @ \o one, !.lines = @ \o <<>>]
    BY <1>1, <1>2, <1>5, PutsIs DEF RecInv
  <2>2. files \in FileRecs /\ files.lines \o <<>> = files.lines
    <3>1. files.lines \in Seq(LineRecs)
      BY WholeNow
    <3> QED BY <3>1 DEF RecInv, RecTypes
  <2> QED BY <2>1, <2>2 DEF FileRecs
<1>9. size.raw = sizes.raw + 1 /\ size.text = sizes.text /\ Len(files'.raw) = size.raw
      /\ Len(files'.lines) = size.text
  <2>1. sizes \in [raw : Nat, text : Nat]
    BY DEF RecInv, RecTypes
  <2>2. size.raw = sizes.raw + 1 /\ size.text = sizes.text
    BY <2>1
  <2>3. Len(files.raw \o one) = Len(files.raw) + 1
    <3> DEFINE x == files.raw
    <3>1. x \in Seq(Nat) /\ Len(one) = 1
      BY WholeNow
    <3> HIDE DEF x, one
    <3>2. Len(x \o one) = Len(x) + 1
      BY <1>2, <3>1, ConcatTyped
    <3> QED BY <3>2 DEF x
  <2> HIDE DEF size, one
  <2> QED BY <1>5, <1>8, <2>2, <2>3
<1>10. InTurn' /\ OwnThere' /\ PartsCapped' /\ PresentCapped'
  <2>1. /\ UNCHANGED <<handles, own, parts>> /\ sizes' = size /\ \A x \in Writers \ {"rx"} :
             doing'[x] = doing[x]
        /\ size.raw = Len(files.raw) + 1 /\ size.text = Len(files.lines)
    BY <1>1, <1>5, <1>6, <1>8, <1>9
  <2>2. Len(files'.raw) = size.raw /\ Len(files'.lines) = size.text /\ FALSE \in BOOLEAN /\ "rx" \in Writers
    BY <1>2, <1>9
  <2>3. doing'["rx"].at = IF MustRotate(size, FALSE) THEN "number" ELSE Idle(new)
    BY <1>7
  <2> HIDE DEF size, new
  <2> QED BY <1>4, <2>1, <2>2, <2>3, WritesInTurn
<1>11. Pending'
  <2>1. rows \in Seq(LineRecs) /\ \A i \in DOMAIN rows : rows[i].n = i
    BY DEF RecInv, RecTypes, Whole, Pending
  <2>2. \A i \in DOMAIN rows' : rows'[i].n = i
    <3> HIDE DEF new
    <3> SUFFICES ASSUME NEW i \in DOMAIN rows' PROVE rows'[i].n = i
      OBVIOUS
    <3>1. i \in DOMAIN rows \/ \E j \in DOMAIN new : i = Len(rows) + j
      BY <1>1, <1>3, <2>1, ConcatIs
    <3>2. CASE i \in DOMAIN rows
      BY <1>1, <1>3, <2>1, <3>2, ConcatIs
    <3>3. ASSUME NEW j \in DOMAIN new, i = Len(rows) + j PROVE rows'[i].n = i
      BY <1>1, <1>3, <2>1, <3>3, ConcatIs
    <3> QED BY <3>1, <3>2, <3>3
  <2> HIDE DEF new, chunk
  <2>3. \A j \in DOMAIN doing'["rx"].lines :
          doing'["rx"].lines[j].by = "rx" /\ doing'["rx"].lines[j].chunk = said'
    BY <1>1, <1>3, <1>7
  <2>4. said' > 0
    BY <1>1, <1>2 DEF chunk
  <2>5. \A x \in Writers \ {"rx"} : \A j \in DOMAIN doing'[x].lines : doing'[x].lines[j].by = x /\ x # "rx"
    BY <1>6 DEF Whole, Pending
  <2> QED BY <2>2, <2>3, <2>4, <2>5 DEF Pending
<1>12. NothingMissing' /\ SameSpan'
  <2> DEFINE p == [Present EXCEPT !.raw = @ \o one]
             l == [LinesLeft EXCEPT !["rx"] = new]
  <2>1. Present' = p
    <3> HIDE DEF one
    <3>1. Present' = [raw |-> files'.raw, lines |-> files'.lines]
          /\ Present = [raw |-> files.raw, lines |-> files.lines]
      BY DEF Present
    <3> DEFINE x == files.raw
               y == files.lines
               z == x \o one
    <3>2. Present' = [raw |-> z, lines |-> y] /\ p = [Present EXCEPT !.raw = @ \o one]
          /\ Present = [raw |-> x, lines |-> y]
      BY <1>8, <3>1
    <3>3. Present.raw \o one = z
      BY <3>2
    <3>4. p = [Present EXCEPT !.raw = z]
      BY <3>2, <3>3
    <3> HIDE DEF x, y, z, p
    <3> QED BY <3>2, <3>4
  <2>2. p \in PartRecs
    <3>1. Present \in PartRecs /\ files.raw \in Seq(Nat)
      BY WholeNow
    <3>2. files.raw \o one \in Seq(Nat)
      <4> DEFINE x == files.raw
      <4>1. x \in Seq(Nat)
        BY <3>1
      <4> HIDE DEF x, one
      <4>2. x \o one \in Seq(Nat)
        BY <1>2, <4>1, ConcatTyped
      <4> QED BY <4>2 DEF x
    <3> HIDE DEF one
    <3> QED BY <3>1, <3>2 DEF Present, PartRecs
  <2>3. LinesLeft' = l
    <3> HIDE DEF new
    <3>1. \A x \in Writers : doing'[x].lines = IF x = "rx" THEN new ELSE doing[x].lines
      BY <1>6, <1>7
    <3> QED BY <3>1 DEF LinesLeft
  <2>4. LinesLeft["rx"] = <<>>
    BY <1>1, <1>2 DEF LinesLeft, RecInv, RecTypes, DoingTyped
  <2>5. Complete(Old, p, said + 1, rows, LinesLeft)
    BY <1>2, WholeNow, CompleteSaid
  <2>6. rows \in Seq(LineRecs) /\ \A i \in DOMAIN rows : rows[i].n = i
    BY DEF RecInv, RecTypes, Whole, Pending
  <2>7. Old' = Old
    BY <1>1, <1>8, OldStays
  <2> HIDE DEF p, new
  <2>8. Complete(Old, p, said + 1, rows \o new, l)
    BY <1>2, <1>3, <2>2, <2>4, <2>5, <2>6, WholeNow, CompleteHanded
  <2> HIDE DEF l
  <2>9. Complete(Old, p, said', rows', LinesLeft')
    BY <1>1, <2>3, <2>8
  <2> QED BY <2>1, <2>2, <2>7, <2>9, WholeNow, CompleteIsNext
<1> QED BY <1>10, <1>11, <1>12 DEF Whole

LEMMA TypedWhole ==
  ASSUME RecInv, Whole, HandleTyped, handles \/ Between
  PROVE  Whole'
<1> DEFINE line == Line("tx", 0, Len(rows) + 1)
           new  == <<line>>
           d    == [Resting EXCEPT !.at = "lines", !.lines = new]
<1>1. /\ doing["tx"].at = "out" /\ rows' = Append(rows, line) /\ doing' = [doing EXCEPT !["tx"] = d]
      /\ UNCHANGED <<files, handles, parts, own, sizes, said, dropped>>
  BY DEF HandleTyped
<1>2. "tx" \in Writers /\ rows \in Seq(LineRecs) /\ doing \in [Writers -> Doings]
  BY DEF RecInv, RecTypes, DoingTyped, Writers
<1>3. line \in LineRecs
  BY <1>2 DEF Line, LineRecs
<1>4. /\ new \in Seq(LineRecs) /\ rows' = rows \o new
      /\ \A i \in DOMAIN new : i = 1 /\ new[i].by = "tx" /\ new[i].n = Len(rows) + i
  <2>1. line.by = "tx" /\ line.n = Len(rows) + 1
    BY DEF Line
  <2> HIDE DEF line
  <2>2. new \in Seq(LineRecs) /\ DOMAIN new = {1} /\ new[1] = line
    BY <1>3
  <2>3. rows' = rows \o new
    BY <1>1, <1>2, <1>3, AppendIs
  <2> HIDE DEF new
  <2> QED BY <2>1, <2>2, <2>3
<1>5. d.at = "lines" /\ d.lines = new
  <2> HIDE DEF new
  <2> QED BY DEF Resting
<1> HIDE DEF new, d, line
<1>6. doing'["tx"] = d /\ \A x \in Writers \ {"tx"} : doing'[x] = doing[x]
  BY <1>1, <1>2
<1>7. \A x \in Writers :
        \/ /\ doing'[x].at = doing[x].at
           /\ doing'[x].number = doing[x].number /\ doing'[x].had = doing[x].had
        \/ x = "tx" /\ doing'[x].at = "lines" /\ doing[x].at = "out"
  BY <1>1, <1>5, <1>6
<1>8. InTurn'
  <2>1. \A x \in Writers : Rotating(x)' <=> Rotating(x)
    BY <1>7 DEF Rotating
  <2>2. handles' \/ Between'
    BY <1>1, <1>7 DEF Between
  <2>3. \A x \in Writers :
          /\ doing'[x].at \in {"close", "rename"} =>
               doing'[x].had /\ files'.there /\ doing'[x].number \notin DOMAIN parts'
          /\ doing'[x].at \in {"open", "prune"} => files'.raw = <<>> /\ files'.lines = <<>>
    BY <1>1, <1>7 DEF Whole, InTurn
  <2>4. \A x \in Writers : Rotating(x)' => RotateAt > 0 /\ \A y \in Writers \ {x} : ~Rotating(y)'
    BY <2>1 DEF Whole, InTurn
  <2>5. handles' => Len(files'.raw) = sizes'.raw
    BY <1>1 DEF Whole, InTurn
  <2> QED BY <2>2, <2>3, <2>4, <2>5 DEF InTurn
<1>9. OwnThere' /\ PartsCapped' /\ PresentCapped'
  <2>1. OwnThere'
    BY <1>1 DEF Whole, OwnThere
  <2>2. PartsCapped'
    BY <1>1, <1>7 DEF Whole, PartsCapped
  <2>3. PresentCapped'
    BY <1>1, <1>7 DEF Whole, PresentCapped, Rotating
  <2> QED BY <2>1, <2>2, <2>3
<1>10. \A i \in DOMAIN rows : rows[i].n = i
  BY DEF Whole, Pending
<1>11. Pending'
  <2>1. \A i \in DOMAIN rows' : rows'[i].n = i
    <3> SUFFICES ASSUME NEW i \in DOMAIN rows' PROVE rows'[i].n = i
      OBVIOUS
    <3>1. i \in DOMAIN rows \/ \E j \in DOMAIN new : i = Len(rows) + j
      BY <1>2, <1>4, ConcatIs
    <3>2. CASE i \in DOMAIN rows
      BY <1>2, <1>4, <1>10, <3>2, ConcatIs
    <3>3. ASSUME NEW j \in DOMAIN new, i = Len(rows) + j PROVE rows'[i].n = i
      BY <1>2, <1>4, <3>3, ConcatIs
    <3> QED BY <3>1, <3>2, <3>3
  <2>2. \A j \in DOMAIN doing'["tx"].lines : doing'["tx"].lines[j].by = "tx"
    BY <1>4, <1>5, <1>6
  <2>3. \A x \in Writers \ {"tx"} : \A j \in DOMAIN doing'[x].lines :
          /\ doing'[x].lines[j].by = x
          /\ x = "rx" => doing'[x].lines[j].chunk = said' /\ said' > 0
    BY <1>1, <1>6 DEF Whole, Pending
  <2> QED BY <2>1, <2>2, <2>3 DEF Pending
<1>12. NothingMissing' /\ SameSpan'
  <2> DEFINE l == [LinesLeft EXCEPT !["tx"] = new]
  <2>1. Present' = Present
    BY <1>1 DEF Present
  <2>3. LinesLeft' = l
    <3>1. \A x \in Writers : doing'[x].lines = IF x = "tx" THEN new ELSE doing[x].lines
      BY <1>5, <1>6
    <3> QED BY <3>1 DEF LinesLeft
  <2>4. LinesLeft["tx"] = <<>>
    BY <1>1, <1>2 DEF LinesLeft, RecInv, RecTypes, DoingTyped
  <2>7. Old' = Old
    BY <1>1, OldStays
  <2>8. Complete(Old, Present, said, rows \o new, l)
    BY <1>2, <1>4, <1>10, <2>4, WholeNow, CompleteHanded
  <2> HIDE DEF l
  <2>9. Complete(Old, Present, said', rows', LinesLeft')
    BY <1>1, <1>4, <2>3, <2>8
  <2> QED BY <2>1, <2>7, <2>9, WholeNow, CompleteIsNext
<1> QED BY <1>8, <1>9, <1>11, <1>12 DEF Whole

LEMMA LineWhole ==
  ASSUME RecInv, Whole, ~deleted, ~overlap, ~overlap', handles, NEW t \in Writers, HandleLine(t)
  PROVE  Whole'
<1> DEFINE line == Head(doing[t].lines)
           left == Tail(doing[t].lines)
           one  == <<line>>
           size == [sizes EXCEPT !.text = @ + 1]
<1>1. /\ doing[t].at = "lines" /\ Puts(<<>>, one) /\ Wrote(t, size, TRUE, left)
      /\ Notes(t) /\ UNCHANGED <<handles, own, deleted, said, rows, dropped>>
  BY DEF HandleLine
<1>2. line \in LineRecs /\ left \in Seq(LineRecs) /\ one \in Seq(LineRecs) /\ <<>> \in Seq(Nat) /\ Len(one) = 1
  <2>1. doing[t].lines \in Seq(LineRecs) /\ doing[t].lines # <<>>
    BY <1>1 DEF RecInv, RecTypes, DoingTyped, Doings
  <2> QED BY <2>1
<1>3. /\ 1 \in DOMAIN doing[t].lines /\ line = doing[t].lines[1] /\ doing[t].lines # <<>>
      /\ \A j \in DOMAIN left : j + 1 \in DOMAIN doing[t].lines /\ left[j] = doing[t].lines[j + 1]
  <2>1. doing[t].lines \in Seq(LineRecs) /\ doing[t].lines # <<>>
    BY <1>1 DEF RecInv, RecTypes, DoingTyped, Doings
  <2> QED BY <2>1
<1>4. \A x \in Writers : ~Rotating(x)
  <2>1. \A x \in Writers \ {t} : doing[x].at # "out" => ~Rotating(x)
    BY <1>1, NotesIs DEF RecInv, RecTypes
  <2> QED BY <1>1, <2>1 DEF Rotating
<1>5. files.there /\ Len(files.lines) = sizes.text /\ Len(files.raw) = sizes.raw
  BY DEF RecInv, InStep, Whole, InTurn
<1> HIDE DEF line, left, one, size
<1>6. /\ sizes' = size /\ \A x \in Writers \ {t} : doing'[x] = doing[x]
      /\ doing'[t] = [Resting EXCEPT !.lines = left,
         !.at = IF MustRotate(size, TRUE) THEN "number" ELSE Idle(left)]
  <2>1. DoingTyped /\ Wrote(t, size, TRUE, left)
    BY <1>1 DEF RecInv, RecTypes
  <2> QED BY <1>2, <2>1, WroteIs, ZenonT(60)
<1>7. /\ doing'[t].at = IF MustRotate(size, TRUE) THEN "number" ELSE Idle(left)
      /\ doing'[t].lines = left
  BY <1>6 DEF Resting
<1>8. parts' = parts /\ files'.raw = files.raw /\ files'.lines = files.lines \o one
  <2>1. parts' = parts /\ files' = [files EXCEPT !.raw = @ \o <<>>, !.lines = @ \o one]
    BY <1>1, <1>2, <1>5, PutsIs DEF RecInv
  <2>2. files \in FileRecs /\ files.raw \o <<>> = files.raw
    <3>1. files.raw \in Seq(Nat)
      BY WholeNow
    <3> QED BY <3>1 DEF RecInv, RecTypes
  <2> QED BY <2>1, <2>2 DEF FileRecs
<1>9. size.raw = sizes.raw /\ size.text = sizes.text + 1 /\ Len(files'.raw) = size.raw
      /\ Len(files'.lines) = size.text
  <2>1. sizes \in [raw : Nat, text : Nat]
    BY DEF RecInv, RecTypes
  <2>2. size.raw = sizes.raw /\ size.text = sizes.text + 1
    BY <2>1 DEF size
  <2>3. Len(files.lines \o one) = Len(files.lines) + 1
    <3> DEFINE x == files.lines
    <3>1. x \in Seq(LineRecs)
      BY WholeNow
    <3> HIDE DEF x
    <3>2. Len(x \o one) = Len(x) + 1
      BY <1>2, <3>1, ConcatTyped
    <3> QED BY <3>2 DEF x
  <2> QED BY <1>5, <1>8, <2>2, <2>3
<1>10. InTurn' /\ OwnThere' /\ PartsCapped' /\ PresentCapped'
  <2>1. /\ UNCHANGED <<handles, own, parts>> /\ sizes' = size /\ \A x \in Writers \ {t} : doing'[x] = doing[x]
        /\ size.raw = Len(files.raw) /\ size.text = Len(files.lines) + 1
    BY <1>1, <1>5, <1>6, <1>8, <1>9
  <2>2. Len(files'.raw) = size.raw /\ Len(files'.lines) = size.text /\ TRUE \in BOOLEAN
    BY <1>9
  <2>3. doing'[t].at = IF MustRotate(size, TRUE) THEN "number" ELSE Idle(left)
    BY <1>7
  <2> QED BY <1>4, <2>1, <2>2, <2>3, WritesInTurn
<1>11. Pending'
  <2>1. \A i \in DOMAIN rows' : rows'[i].n = i
    BY <1>1 DEF Whole, Pending
  <2>2. \A j \in DOMAIN doing'[t].lines :
          /\ doing'[t].lines[j].by = t
          /\ t = "rx" => doing'[t].lines[j].chunk = said' /\ said' > 0
    BY <1>1, <1>3, <1>7 DEF Whole, Pending
  <2>3. \A x \in Writers \ {t} : \A j \in DOMAIN doing'[x].lines :
          /\ doing'[x].lines[j].by = x
          /\ x = "rx" => doing'[x].lines[j].chunk = said' /\ said' > 0
    BY <1>1, <1>6 DEF Whole, Pending
  <2> QED BY <2>1, <2>2, <2>3 DEF Pending
<1>12. NothingMissing' /\ SameSpan'
  <2> DEFINE p == [Present EXCEPT !.lines = @ \o one]
             l == [LinesLeft EXCEPT ![t] = left]
  <2>1. Present' = p /\ p \in PartRecs
    <3>1. Present' = [raw |-> files'.raw, lines |-> files'.lines]
          /\ Present = [raw |-> files.raw, lines |-> files.lines]
      BY DEF Present
    <3> DEFINE x == files.raw
               y == files.lines
               z == y \o one
    <3>2. Present' = [raw |-> x, lines |-> z] /\ p = [Present EXCEPT !.lines = @ \o one]
          /\ Present = [raw |-> x, lines |-> y]
      BY <1>8, <3>1
    <3>3. Present.lines \o one = z
      BY <3>2
    <3>4. p = [Present EXCEPT !.lines = z]
      BY <3>2, <3>3
    <3>5. x \in Seq(Nat) /\ y \in Seq(LineRecs)
      BY WholeNow
    <3> HIDE DEF x, y
    <3>6. z \in Seq(LineRecs)
      BY <1>2, <3>5, ConcatTyped
    <3> HIDE DEF z, p
    <3> QED BY <3>2, <3>4, <3>5, <3>6 DEF PartRecs
  <2>3. LinesLeft' = l
    <3>1. \A x \in Writers : doing'[x].lines = IF x = t THEN left ELSE doing[x].lines
      BY <1>6, <1>7
    <3> QED BY <3>1 DEF LinesLeft
  <2>4. LinesLeft[t] = doing[t].lines /\ said \in Nat
    BY DEF LinesLeft, RecInv, RecTypes
  <2>5. /\ LinesLeft[t] # <<>> /\ Head(LinesLeft[t]) = line /\ Tail(LinesLeft[t]) = left
        /\ line.by = t /\ (t = "rx" => line.chunk = said /\ said > 0)
    BY <1>3, <2>4 DEF line, left, Whole, Pending
  <2>7. Old' = Old
    BY <1>1, <1>8, OldStays
  <2>8. Complete(Old, [Present EXCEPT !.lines = @ \o <<Head(LinesLeft[t])>>], said, rows,
                 [LinesLeft EXCEPT ![t] = Tail(LinesLeft[t])])
    BY <2>4, <2>5, WholeNow, CompleteWritten
  <2>9. Complete(Old, p, said', rows', LinesLeft')
    BY <1>1, <2>3, <2>5, <2>8 DEF one
  <2> HIDE DEF p, l
  <2> QED BY <2>1, <2>7, <2>9, WholeNow, CompleteIsNext
<1> QED BY <1>10, <1>11, <1>12 DEF Whole

LEMMA TurnsTo ==
  ASSUME RecInv, NEW t \in Writers, NEW to, Turns(t, to)
  PROVE  /\ doing'[t].at = to /\ doing'[t].number = doing[t].number
         /\ doing'[t].had = doing[t].had /\ doing'[t].lines = doing[t].lines
         /\ \A x \in Writers \ {t} : doing'[x] = doing[x]
<1>0. doing \in [Writers -> Doings]
  BY DEF RecInv, RecTypes, DoingTyped
<1>1. doing' = [doing EXCEPT ![t] = [doing[t] EXCEPT !.at = to]]
  BY <1>0 DEF Turns
<1>2. doing[t] \in Doings
  BY <1>0
<1> QED BY <1>0, <1>1, <1>2 DEF Doings

\* A thread that rotates is alone in the recorder.
LEMMA AloneInThere ==
  ASSUME RecInv, Whole, ~overlap', NEW t \in Writers, Rotating(t), Notes(t)
  PROVE  RotateAt > 0 /\ \A x \in Writers \ {t} : doing[x].at = "out"
BY NotesIs DEF RecInv, RecTypes, Whole, InTurn

LEMMA RotatesInTurn ==
  ASSUME RotateAt > 0, NEW t \in Writers, \A x \in Writers \ {t} : doing[x].at = "out" /\ doing'[x] = doing[x],
         doing'[t].at # "out" => handles' \/ doing'[t].at \in {"rename", "open"},
         doing'[t].at \in {"close", "rename"} =>
           doing'[t].had /\ files'.there /\ doing'[t].number \notin DOMAIN parts',
         doing'[t].at \in {"open", "prune"} => files'.raw = <<>> /\ files'.lines = <<>>,
         handles' => Len(files'.raw) = sizes'.raw
  PROVE  InTurn'
<1>1. \A x \in Writers : doing'[x].at # "out" => x = t
  OBVIOUS
<1>2. \A x \in Writers : Rotating(x)' => x = t
  BY <1>1 DEF Rotating
<1> QED BY <1>1, <1>2 DEF InTurn, Between

LEMMA PendingStays ==
  ASSUME Pending, UNCHANGED <<rows, said>>, \A x \in Writers : doing'[x].lines = doing[x].lines
  PROVE  Pending'
BY DEF Pending

\* A rotation that leaves what is written where it is.
LEMMA RotationStays ==
  ASSUME RecInv, Whole, UNCHANGED <<own, parts, dropped, said, rows>>,
         files'.raw = files.raw, files'.lines = files.lines,
         \A x \in Writers : doing'[x].lines = doing[x].lines
  PROVE  OwnThere' /\ Pending' /\ NothingMissing' /\ SameSpan'
<1>1. OwnThere' /\ Pending'
  BY PendingStays DEF Whole, OwnThere
<1>2. Present' = Present
  BY DEF Present
<1> QED BY <1>1, <1>2, WholeNow, ContentStays DEF Whole

LEMMA NumberWhole ==
  ASSUME RecInv, Whole, ~deleted, ~overlap, ~overlap', NEW t \in Writers, Number(t)
  PROVE  Whole'
<1> DEFINE d == [doing[t] EXCEPT !.at = "close", !.number = NextPartNumber, !.had = handles]
<1>1. /\ doing[t].at = "number" /\ doing' = [doing EXCEPT ![t] = d] /\ Notes(t)
      /\ UNCHANGED <<files, handles, parts, own, sizes, deleted, said, rows, dropped>>
  BY DEF Number, RecInv, RecTypes, DoingTyped
<1>2. d.at = "close" /\ d.number = NextPartNumber /\ d.had = handles /\ d.lines = doing[t].lines
  <2>1. doing[t] \in Doings
    BY DEF RecInv, RecTypes, DoingTyped
  <2> QED BY <2>1 DEF Doings
<1> HIDE DEF d
<1>3. doing'[t] = d /\ \A x \in Writers \ {t} : doing'[x] = doing[x]
  BY <1>1 DEF RecInv, RecTypes, DoingTyped
<1>4. RotateAt > 0 /\ \A x \in Writers \ {t} : doing[x].at = "out"
  BY <1>1, AloneInThere DEF Rotating
<1>5. handles /\ files.there
  <2>1. ~Between
    BY <1>1, <1>4 DEF Between
  <2>2. handles
    BY <1>1, <2>1 DEF Whole, InTurn
  <2> QED BY <2>2 DEF RecInv, InStep
<1>6. InTurn'
  <2>1. NextPartNumber \notin DOMAIN parts
    BY NextIs DEF RecInv, RecTypes
  <2>2. Len(files'.raw) = sizes'.raw
    BY <1>1, <1>5 DEF Whole, InTurn
  <2> QED BY <1>1, <1>2, <1>3, <1>4, <1>5, <2>1, <2>2, RotatesInTurn
<1>7. OwnThere' /\ Pending' /\ NothingMissing' /\ SameSpan'
  <2>1. \A x \in Writers : doing'[x].lines = doing[x].lines
    BY <1>2, <1>3
  <2> QED BY <1>1, <2>1, RotationStays
<1>8. PartsCapped'
  <2>1. \A x \in Writers : doing[x].at \notin {"open", "prune"}
    BY <1>1, <1>4
  <2> QED BY <1>1, <2>1 DEF Whole, PartsCapped
<1>9. PresentCapped'
  <2>1. Rotating(t)'
    BY <1>2, <1>3 DEF Rotating
  <2> QED BY <1>1, <2>1 DEF Whole, PresentCapped
<1> QED BY <1>6, <1>7, <1>8, <1>9 DEF Whole

LEMMA CloseWhole ==
  ASSUME RecInv, Whole, ~deleted, ~overlap, ~overlap', NEW t \in Writers, CloseFiles(t)
  PROVE  Whole'
<1>1. /\ doing[t].at = "close" /\ Turns(t, "rename") /\ handles' = FALSE /\ Notes(t)
      /\ UNCHANGED <<files, parts, own, sizes, deleted, said, rows, dropped>>
  BY DEF CloseFiles
<1>3. /\ doing'[t].at = "rename" /\ doing'[t].number = doing[t].number
      /\ doing'[t].had = doing[t].had /\ doing'[t].lines = doing[t].lines
      /\ \A x \in Writers \ {t} : doing'[x] = doing[x]
  BY <1>1, TurnsTo
<1>4. RotateAt > 0 /\ \A x \in Writers \ {t} : doing[x].at = "out"
  BY <1>1, AloneInThere DEF Rotating
<1>6. InTurn'
  <2>1. doing[t].had /\ files.there /\ doing[t].number \notin DOMAIN parts
    BY <1>1 DEF Whole, InTurn
  <2> QED BY <1>1, <1>3, <1>4, <2>1, RotatesInTurn
<1>7. OwnThere' /\ Pending' /\ NothingMissing' /\ SameSpan'
  <2>1. \A x \in Writers : doing'[x].lines = doing[x].lines
    BY <1>3
  <2> QED BY <1>1, <2>1, RotationStays
<1>8. PartsCapped'
  <2>1. \A x \in Writers : doing[x].at \notin {"open", "prune"}
    BY <1>1, <1>4
  <2> QED BY <1>1, <2>1 DEF Whole, PartsCapped
<1>9. PresentCapped'
  <2>1. Rotating(t)'
    BY <1>3 DEF Rotating
  <2> QED BY <1>1, <2>1 DEF Whole, PresentCapped
<1> QED BY <1>6, <1>7, <1>8, <1>9 DEF Whole

LEMMA EmptyCapped ==
  ASSUME RotateAt > 0, files'.raw = <<>>, files'.lines = <<>>
  PROVE  PresentCapped'
<1>1. RotateAt \in Nat /\ Len(<<>>) = 0
  BY RecordingAssumption
<1>2. 0 < 2 * RotateAt /\ 0 <= 2 * RotateAt /\ 0 < RotateAt
  BY <1>1
<1> QED BY <1>1, <1>2 DEF PresentCapped

LEMMA OpenWhole ==
  ASSUME RecInv, Whole, ~deleted, ~overlap, ~overlap', NEW t \in Writers, OpenNext(t)
  PROVE  Whole'
<1>1. /\ doing[t].at = "open"
      /\ handles' = TRUE /\ files' = Empty /\ sizes' = NoSize
      /\ Turns(t, "prune") /\ Notes(t)
      /\ UNCHANGED <<parts, own, deleted, said, rows, dropped>>
  BY DEF OpenNext
<1>2. files'.raw = <<>> /\ files'.lines = <<>> /\ Len(files'.raw) = sizes'.raw
  BY <1>1 DEF Empty, NoSize
<1>3. /\ doing'[t].at = "prune" /\ doing'[t].lines = doing[t].lines
      /\ \A x \in Writers \ {t} : doing'[x] = doing[x]
  BY <1>1, TurnsTo
<1>4. RotateAt > 0 /\ \A x \in Writers \ {t} : doing[x].at = "out"
  BY <1>1, AloneInThere DEF Rotating
<1>6. InTurn'
  BY <1>1, <1>2, <1>3, <1>4, RotatesInTurn
<1>7. OwnThere' /\ Pending' /\ NothingMissing' /\ SameSpan'
  <2>1. \A x \in Writers : doing'[x].lines = doing[x].lines
    BY <1>3
  <2>2. files.raw = <<>> /\ files.lines = <<>>
    BY <1>1 DEF Whole, InTurn
  <2>3. files'.raw = files.raw /\ files'.lines = files.lines
    BY <1>2, <2>2
  <2> QED BY <1>1, <2>1, <2>3, RotationStays
<1>8. PartsCapped'
  BY <1>1, <1>3 DEF Whole, PartsCapped
<1>9. PresentCapped'
  BY <1>2, <1>4, EmptyCapped
<1> QED BY <1>6, <1>7, <1>8, <1>9 DEF Whole

\* Nothing goes wrong in the rotation of a thread that is alone.
LEMMA NothingRaised ==
  ASSUME RecInv, Whole, ~deleted, ~overlap, ~overlap', NEW t \in Writers
  PROVE  ~RotationRaises(t)
<1> SUFFICES ASSUME RotationRaises(t) PROVE FALSE
  OBVIOUS
<1>0. /\ Notes(t)
      /\ \/ doing[t].at = "number" /\ ~handles
         \/ doing[t].at = "rename" /\ ~files.there
         \/ doing[t].at = "open" /\ deleted
  BY DEF RotationRaises
<1>1. /\ Notes(t) /\ Rotating(t)
      /\ \/ doing[t].at = "number" /\ ~handles
         \/ doing[t].at = "rename" /\ ~files.there
  BY <1>0 DEF Rotating
<1>2. \A x \in Writers \ {t} : doing[x].at = "out"
  BY <1>1, AloneInThere
<1>3. doing[t].at # "rename"
  BY <1>1 DEF Whole, InTurn
<1>4. ~Between
  BY <1>1, <1>2, <1>3 DEF Between
<1> QED BY <1>1, <1>3, <1>4 DEF Whole, InTurn

LEMMA RenameWhole ==
  ASSUME RecInv, Whole, ~deleted, ~overlap, ~overlap', NEW t \in Writers, RenameFiles(t)
  PROVE  Whole'
<1> DEFINE number == doing[t].number
<1>1. /\ doing[t].at = "rename" /\ Turns(t, "open") /\ Notes(t)
      /\ UNCHANGED <<handles, sizes, deleted, said, rows, dropped>>
  BY DEF RenameFiles
<1>2. doing[t].had /\ files.there /\ number \notin DOMAIN parts
  BY <1>1 DEF Whole, InTurn
<1>3. /\ files' = NoFiles /\ own' = Append(own, number) /\ number \in Nat \ {0}
      /\ DOMAIN parts' = DOMAIN parts \union {number}
      /\ parts'[number] = Present
      /\ \A n \in DOMAIN parts \ {number} : parts'[n] = parts[n]
  BY <1>2, RenamedIs DEF Present
<1> HIDE DEF number
<1>4. /\ doing'[t].at = "open" /\ doing'[t].lines = doing[t].lines
      /\ \A x \in Writers \ {t} : doing'[x] = doing[x]
  BY <1>1, TurnsTo
<1>5. RotateAt > 0 /\ \A x \in Writers \ {t} : doing[x].at = "out"
  BY <1>1, AloneInThere DEF Rotating
<1>6. files'.raw = <<>> /\ files'.lines = <<>>
  BY <1>3 DEF NoFiles
<1>7. ~handles
  BY <1>1 DEF RecInv, InStep
<1>8. InTurn'
  BY <1>1, <1>4, <1>5, <1>6, <1>7, RotatesInTurn
<1>9. /\ own \in Seq(Nat) /\ Len(own) \in Nat /\ DOMAIN own = 1..Len(own) /\ Old \in Seq(PartRecs)
      /\ Present \in PartRecs /\ files.raw \in Seq(Nat) /\ files.lines \in Seq(LineRecs)
  BY WholeNow
<1>10. /\ Len(own') = Len(own) + 1 /\ DOMAIN own' = 1..Len(own) + 1
       /\ own'[Len(own) + 1] = number /\ \A i \in 1..Len(own) : own'[i] = own[i]
  BY <1>3, <1>9
<1>11. \A i \in 1..Len(own) : own[i] \in DOMAIN parts /\ own[i] # number /\ parts'[own[i]] = parts[own[i]]
  BY <1>2, <1>3, <1>9 DEF Whole, OwnThere
<1>12. \A i \in DOMAIN own' : i = Len(own) + 1 \/ i \in 1..Len(own)
  BY <1>9, <1>10
<1>13. OwnThere'
  <2> SUFFICES ASSUME NEW i \in DOMAIN own'
               PROVE  own'[i] \in DOMAIN parts' /\ \A j \in DOMAIN own' : own'[i] = own'[j] => i = j
    BY DEF OwnThere
  <2>1. own'[i] \in DOMAIN parts'
    BY <1>3, <1>10, <1>11, <1>12
  <2>2. ASSUME NEW j \in DOMAIN own', own'[i] = own'[j] PROVE i = j
    <3>1. CASE i \in 1..Len(own) /\ j \in 1..Len(own)
      BY <1>9, <1>10, <2>2, <3>1 DEF Whole, OwnThere
    <3>2. CASE i = Len(own) + 1 \/ j = Len(own) + 1
      BY <1>10, <1>11, <1>12, <2>2, <3>2
    <3> QED BY <1>12, <3>1, <3>2
  <2> QED BY <2>1, <2>2
<1>14. PartsCapped'
  <2>1. \A i \in DOMAIN own' :
          Len(parts'[own'[i]].raw) <= 2 * RotateAt /\ Len(parts'[own'[i]].lines) <= RotateAt
    <3> SUFFICES ASSUME NEW i \in DOMAIN own'
                 PROVE  Len(parts'[own'[i]].raw) <= 2 * RotateAt /\ Len(parts'[own'[i]].lines) <= RotateAt
      OBVIOUS
    <3>1. CASE i \in 1..Len(own)
      <4>1. parts'[own'[i]] = parts[own[i]] /\ i \in DOMAIN own
        BY <1>9, <1>10, <1>11, <3>1
      <4> QED BY <4>1 DEF Whole, PartsCapped
    <3>2. CASE i = Len(own) + 1
      <4>1. parts'[own'[i]].raw = files.raw /\ parts'[own'[i]].lines = files.lines
        BY <1>3, <1>10, <3>2 DEF Present
      <4> QED BY <1>5, <4>1 DEF Whole, PresentCapped
    <3> QED BY <1>12, <3>1, <3>2
  <2> QED BY <1>4, <2>1 DEF PartsCapped
<1>15. PresentCapped'
  BY <1>5, <1>6, EmptyCapped
<1>16. Pending'
  BY <1>1, <1>4, PendingStays DEF Whole
<1>17. NothingMissing' /\ SameSpan'
  <2> DEFINE a == [i \in 1..Len(own) |-> parts[own[i]]]
             b == [i \in 1..Len(own') |-> parts'[own'[i]]]
  <2>1. dropped \in Seq(PartRecs) /\ a \in Seq(PartRecs)
    <3>1. \A i \in 1..Len(own) : parts[own[i]] \in PartRecs
      BY <1>11 DEF RecInv, RecTypes, PartsTyped
    <3>2. Len(own) \in Nat
      BY <1>9
    <3>3. dropped \in Seq(PartRecs)
      BY DEF RecInv, RecTypes
    <3> QED BY <3>1, <3>2, <3>3
  <2>2. b = Append(a, Present)
    <3>1. Append(a, Present) = [i \in 1..Len(own) + 1 |-> IF i = Len(own) + 1 THEN Present ELSE parts[own[i]]]
      <4> HIDE DEF Present
      <4> QED BY <1>9
    <3>2. \A i \in 1..Len(own) + 1 : parts'[own'[i]] = IF i = Len(own) + 1 THEN Present ELSE parts[own[i]]
      BY <1>3, <1>10, <1>11, <1>12
    <3>3. b = [i \in 1..Len(own) + 1 |-> IF i = Len(own) + 1 THEN Present ELSE parts[own[i]]]
      BY <1>10, <3>2
    <3> QED BY <3>1, <3>3
  <2>3. Old' = dropped \o b /\ Old = dropped \o a
    BY <1>1 DEF Old
  <2> HIDE DEF a, b, Present
  <2>4. dropped \o Append(a, Present) = Append(dropped \o a, Present)
    BY <1>9, <2>1
  <2>5. Old' = Append(Old, Present)
    BY <2>2, <2>3, <2>4
  <2>6. Present' = NoPart /\ NoPart \in PartRecs
    <3>1. Present' = [raw |-> files'.raw, lines |-> files'.lines]
      BY DEF Present
    <3> QED BY <1>6, <3>1 DEF NoPart, PartRecs
  <2>7. LinesLeft' = LinesLeft
    BY <1>4 DEF LinesLeft
  <2>8. Complete(Append(Old, Present), NoPart, said, rows, LinesLeft)
    BY <1>9, WholeNow, CompleteMoved
  <2>9. Complete(Append(Old, Present), NoPart, said', rows', LinesLeft')
    BY <1>1, <2>7, <2>8
  <2>10. Append(Old, Present) \in Seq(PartRecs)
    BY <1>9
  <2> QED BY <2>5, <2>6, <2>9, <2>10, CompleteIsNext
<1> QED BY <1>8, <1>13, <1>14, <1>15, <1>16, <1>17 DEF Whole

\* The first k of s and the others are all of s.
LEMMA SplitIs ==
  ASSUME NEW S, NEW m \in Nat, NEW k \in 0..m, NEW f, \A i \in 1..m : f[i] \in S
  PROVE  [i \in 1..k |-> f[i]] \o [i \in 1..m - k |-> f[k + i]] = [i \in 1..m |-> f[i]]
<1> DEFINE a == [i \in 1..k |-> f[i]]
           b == [i \in 1..m - k |-> f[k + i]]
           c == [i \in 1..m |-> f[i]]
<1>1. m - k \in Nat /\ \A i \in 1..m - k : k + i \in 1..m
  OBVIOUS
<1>2. a \in Seq(S) /\ b \in Seq(S) /\ c \in Seq(S) /\ Len(a) = k /\ Len(b) = m - k /\ Len(c) = m
  BY <1>1
<1>3. /\ a \o b \in Seq(S) /\ Len(a \o b) = Len(a) + Len(b) /\ DOMAIN (a \o b) = 1..Len(a) + Len(b)
      /\ \A i \in DOMAIN a : (a \o b)[i] = a[i]
      /\ \A j \in DOMAIN b : (a \o b)[Len(a) + j] = b[j]
      /\ \A i \in DOMAIN (a \o b) : i \in DOMAIN a \/ \E j \in DOMAIN b : i = Len(a) + j
  <2>1. a \in Seq(S) /\ b \in Seq(S)
    BY <1>2
  <2> HIDE DEF a, b, c
  <2>2. ASSUME NEW x \in Seq(S), NEW y \in Seq(S)
        PROVE  /\ x \o y \in Seq(S) /\ Len(x \o y) = Len(x) + Len(y) /\ DOMAIN (x \o y) = 1..Len(x) + Len(y)
               /\ \A i \in DOMAIN x : (x \o y)[i] = x[i]
               /\ \A j \in DOMAIN y : (x \o y)[Len(x) + j] = y[j]
               /\ \A i \in DOMAIN (x \o y) : i \in DOMAIN x \/ \E j \in DOMAIN y : i = Len(x) + j
    BY ConcatIs
  <2> QED BY <2>1, <2>2
<1>4. Len(a) + Len(b) = m
  BY <1>2
<1>5. \A i \in 1..m : (a \o b)[i] = c[i]
  <2> SUFFICES ASSUME NEW i \in 1..m PROVE (a \o b)[i] = f[i]
    OBVIOUS
  <2>1. CASE i \in DOMAIN a
    <3>1. a[i] = f[i]
      BY <2>1
    <3> QED BY <1>3, <2>1, <3>1
  <2>2. ASSUME NEW j \in DOMAIN b, i = Len(a) + j PROVE (a \o b)[i] = f[i]
    <3>1. b[j] = f[k + j] /\ Len(a) = k
      BY <1>2
    <3> QED BY <1>3, <2>2, <3>1
  <2> QED BY <1>3, <1>4, <2>1, <2>2
<1>6. c = [i \in 1..m |-> c[i]]
  OBVIOUS
<1> DEFINE w == a \o b
<1>7. w \in Seq(S) /\ DOMAIN w = 1..m /\ \A i \in 1..m : w[i] = c[i]
  BY <1>3, <1>4, <1>5
<1> HIDE DEF a, b, c, w
<1>8. w = [i \in 1..m |-> w[i]]
  BY <1>7
<1>9. w = c
  BY <1>6, <1>7, <1>8
<1> QED BY <1>9 DEF a, b, c, w

\* What is left of s when its first k are gone.
LEMMA RestIs ==
  ASSUME NEW S, NEW s \in Seq(S), NEW k \in 0..Len(s), NEW r, r = SubSeq(s, k + 1, Len(s))
  PROVE  /\ Len(r) = Len(s) - k /\ Len(s) - k \in Nat /\ DOMAIN r = 1..Len(s) - k
         /\ \A i \in 1..Len(s) - k : k + i \in 1..Len(s) /\ r[i] = s[k + i]
<1>1. Len(s) \in Nat /\ Len(s) - k \in Nat /\ k \in Nat
  OBVIOUS
<1>2. r \in Seq(S) /\ Len(r) = Len(s) - k
  OBVIOUS
<1>3. DOMAIN r = 1..Len(s) - k
  BY <1>2
<1>4. \A i \in 1..Len(s) - k : k + i \in 1..Len(s)
  BY <1>1
<1>5. \A i \in 1..Len(s) - k : r[i] = s[k + i]
  <2> TAKE i \in 1..Len(s) - k
  <2>1. r[i] = s[k + 1 + i - 1]
    BY <1>1
  <2>2. k + 1 + i - 1 = k + i
    BY <1>1
  <2> QED BY <2>1, <2>2
<1> QED BY <1>1, <1>2, <1>3, <1>4, <1>5

LEMMA PruneWhole ==
  ASSUME RecInv, Whole, ~deleted, ~overlap, ~overlap', NEW t \in Writers, PruneParts(t)
  PROVE  Whole'
<1>1. /\ doing[t].at = "prune" /\ Extra \in 0..Len(own)
      /\ DOMAIN parts' = DOMAIN parts \ ToSet(Oldest)
      /\ \A n \in DOMAIN parts' : parts'[n] = parts[n]
      /\ own' = SubSeq(own, Extra + 1, Len(own))
      /\ dropped' = dropped \o [i \in 1..Extra |-> Held(Oldest[i])] /\ dropped' \in Seq(PartRecs)
      /\ Turns(t, Idle(doing[t].lines)) /\ Notes(t)
      /\ UNCHANGED <<files, handles, sizes, deleted, said, rows>>
  BY PrunedIs
<1>2. /\ own \in Seq(Nat) /\ Len(own) \in Nat /\ DOMAIN own = 1..Len(own) /\ Old \in Seq(PartRecs)
      /\ Present \in PartRecs
  BY WholeNow
<1>3. \A i \in 1..Len(own) : own[i] \in DOMAIN parts /\ \A j \in 1..Len(own) : own[i] = own[j] => i = j
  BY <1>2 DEF Whole, OwnThere
<1>4. DOMAIN Oldest = 1..Extra /\ \A i \in 1..Extra : i \in 1..Len(own) /\ Oldest[i] = own[i]
  BY <1>1, <1>2 DEF Oldest
<1>5. /\ Len(own') = Len(own) - Extra /\ Len(own) - Extra \in Nat /\ DOMAIN own' = 1..Len(own) - Extra
      /\ \A i \in 1..Len(own) - Extra : Extra + i \in 1..Len(own) /\ own'[i] = own[Extra + i]
  <2>1. own \in Seq(Nat) /\ Extra \in 0..Len(own) /\ own' = SubSeq(own, Extra + 1, Len(own))
    BY <1>1, <1>2
  <2> QED BY <2>1, RestIs
<1>6. \A i \in 1..Len(own) - Extra : own'[i] \in DOMAIN parts' /\ parts'[own'[i]] = parts[own[Extra + i]]
  <2> SUFFICES ASSUME NEW i \in 1..Len(own) - Extra PROVE own'[i] \in DOMAIN parts'
    BY <1>1, <1>5
  <2>1. own'[i] \notin ToSet(Oldest)
    <3> SUFFICES ASSUME NEW j \in 1..Extra, own[Extra + i] = own[j] PROVE FALSE
      BY <1>4, <1>5 DEF ToSet
    <3>1. Extra + i = j
      BY <1>3, <1>4, <1>5
    <3> QED BY <1>1, <3>1
  <2> QED BY <1>1, <1>3, <1>5, <2>1
<1>7. /\ doing'[t].at = Idle(doing[t].lines) /\ doing'[t].lines = doing[t].lines
      /\ \A x \in Writers \ {t} : doing'[x] = doing[x]
  BY <1>1, TurnsTo
<1>8. RotateAt > 0 /\ \A x \in Writers \ {t} : doing[x].at = "out"
  BY <1>1, AloneInThere DEF Rotating
<1>9. files'.raw = <<>> /\ files'.lines = <<>>
  BY <1>1 DEF Whole, InTurn
<1>10. InTurn'
  <2>1. handles
    <3>1. ~Between
      BY <1>1, <1>8 DEF Between
    <3> QED BY <1>1, <3>1 DEF Whole, InTurn
  <2>2. Len(files'.raw) = sizes'.raw
    BY <1>1, <2>1 DEF Whole, InTurn
  <2>3. doing'[t].at \in {"out", "lines"}
    BY <1>7 DEF Idle
  <2> QED BY <1>1, <1>7, <1>8, <2>1, <2>2, <2>3, RotatesInTurn
<1>11. OwnThere'
  <2> SUFFICES ASSUME NEW i \in DOMAIN own', NEW j \in DOMAIN own'
               PROVE  own'[i] \in DOMAIN parts' /\ (own'[i] = own'[j] => i = j)
    BY DEF OwnThere
  <2>1. own'[i] \in DOMAIN parts'
    BY <1>5, <1>6
  <2>2. own'[i] = own'[j] => Extra + i = Extra + j
    BY <1>3, <1>5
  <2> QED BY <1>1, <1>5, <2>1, <2>2
<1>12. PartsCapped'
  <2>1. \A i \in DOMAIN own' :
          Len(parts'[own'[i]].raw) <= 2 * RotateAt /\ Len(parts'[own'[i]].lines) <= RotateAt
    <3> SUFFICES ASSUME NEW i \in DOMAIN own'
                 PROVE  Len(parts'[own'[i]].raw) <= 2 * RotateAt /\ Len(parts'[own'[i]].lines) <= RotateAt
      OBVIOUS
    <3>1. parts'[own'[i]] = parts[own[Extra + i]] /\ Extra + i \in DOMAIN own
      BY <1>2, <1>5, <1>6
    <3> QED BY <3>1 DEF Whole, PartsCapped
  <2>2. KeepParts > 0 => Len(own) - Extra <= KeepParts
    BY <1>2, RecordingAssumption DEF Extra
  <2> QED BY <1>5, <2>1, <2>2 DEF PartsCapped
<1>13. PresentCapped'
  BY <1>8, <1>9, EmptyCapped
<1>14. Pending'
  BY <1>1, <1>7, PendingStays DEF Whole
<1>15. NothingMissing' /\ SameSpan'
  <2> DEFINE f == [i \in 1..Len(own) |-> parts[own[i]]]
             a == [i \in 1..Extra |-> f[i]]
             b == [i \in 1..Len(own) - Extra |-> f[Extra + i]]
  <2>1. \A i \in 1..Len(own) : f[i] = parts[own[i]] /\ f[i] \in PartRecs
    BY <1>3 DEF RecInv, RecTypes, PartsTyped
  <2>2. dropped' = dropped \o a
    <3>1. \A i \in 1..Extra : Held(Oldest[i]) = f[i]
      BY <1>3, <1>4, <2>1 DEF Held
    <3>2. [i \in 1..Extra |-> Held(Oldest[i])] = a
      BY <3>1
    <3> QED BY <1>1, <3>2
  <2>3. [i \in 1..Len(own') |-> parts'[own'[i]]] = b
    <3>1. \A i \in 1..Len(own) - Extra : parts'[own'[i]] = f[Extra + i]
      BY <1>5, <1>6, <2>1
    <3> QED BY <1>5, <3>1
  <2>4. dropped \in Seq(PartRecs) /\ a \in Seq(PartRecs) /\ b \in Seq(PartRecs)
    <3>1. Extra \in Nat /\ \A i \in 1..Extra : f[i] \in PartRecs
      BY <1>1, <1>4, <2>1
    <3>2. \A i \in 1..Len(own) - Extra : f[Extra + i] \in PartRecs
      BY <1>5, <2>1
    <3> HIDE DEF f
    <3> QED BY <1>5, <3>1, <3>2 DEF RecInv, RecTypes
  <2>5. a \o b = f
    <3>1. f = [i \in 1..Len(own) |-> f[i]]
      OBVIOUS
    <3> HIDE DEF f
    <3>2. [i \in 1..Extra |-> f[i]] \o [i \in 1..Len(own) - Extra |-> f[Extra + i]] = [i \in 1..Len(own) |-> f[i]]
      BY <1>1, <1>2, <2>1, SplitIs
    <3> QED BY <3>1, <3>2
  <2>6. Old' = dropped' \o [i \in 1..Len(own') |-> parts'[own'[i]]] /\ Old = dropped \o f
    BY DEF Old
  <2> HIDE DEF a, b, f
  <2>7. dropped \o (a \o b) = (dropped \o a) \o b
    BY <2>4, Associates
  <2>8. Old' = Old
    BY <2>2, <2>3, <2>5, <2>6, <2>7
  <2>9. Present' = Present
    BY <1>1 DEF Present
  <2>10. LinesLeft' = LinesLeft
    BY <1>7 DEF LinesLeft
  <2>11. Complete(Old, Present, said', rows', LinesLeft')
    BY <1>1, <2>10, WholeNow
  <2> QED BY <1>2, <2>8, <2>9, <2>11, CompleteIsNext
<1> QED BY <1>10, <1>11, <1>12, <1>13, <1>14, <1>15 DEF Whole

-----------------------------------------------------------------------------
(* The session goes on, and what is not a write of its recorder *)

\* No session is underway but by opening its recorder.
LEMMA UnderwayStays ==
  ASSUME RegistryInv, RegistryInv', UNCHANGED use, NEW p \in Procs, NEW r \in Procs,
         Retained(p) \/ RegistryStep(p) \/ RegistryFails(p) \/ Crash(p) \/ \E new \in Ports : MoveBegins(p, new)
  PROVE  Underway(r)' => Underway(r)
<1>1. /\ job' = job
      /\ \A q \in Procs : /\ IsSession(q)' = IsSession(q) /\ Starts(q)' = Starts(q) /\ Serves(q)' = Serves(q)
                          /\ (IsSession(q) <=> Starts(q) \/ Serves(q)) /\ ~(Starts(q) /\ Serves(q))
  <2>1. job' = job
    BY DEF RegistryInv, Types
  <2> QED BY <2>1 DEF IsSession, Starts, Serves
<1>2. PlaceOf(r) /\ PlaceOf(p) /\ PlaceOf(r)' /\ at \in [Procs -> Stages]
  BY DEF RegistryInv, PlaceInv, Types
<1>3. CASE at' = at
  BY <1>1, <1>3 DEF Underway, NotYet, Done
<1>4. CASE Signal(p) \/ StartTimesOut(p)
  <2>1. Killing(p) \/ Staying(p)
    BY <1>4, Signalling
  <2>2. at'[r] = at[r] \/ at'[r] \in {"killed", "wait"}
    BY <1>2, <2>1 DEF Killing, Staying
  <2>3. at'[r] = "wait" => ~IsSession(r)'
    BY <1>1, <1>2 DEF PlaceOf
  <2> QED BY <1>1, <2>2, <2>3 DEF Underway, NotYet, Done
<1>5. ASSUME NEW to, at' = [at EXCEPT ![p] = to],
             IsSession(p) => \/ to \in {"retain", "build", "remove", "ended", "killed"}
                             \/ Starts(p) /\ to \in {"look", "prune", "check", "holder", "write"}
                             \/ ~NotYet(p) /\ ~Done(p) /\ at[p] # "killed"
      PROVE  Underway(r)' => Underway(r)
  <2>1. CASE r = p
    <3>1. at'[r] = to
      BY <1>2, <1>5, <2>1
    <3> QED BY <1>1, <1>5, <2>1, <3>1 DEF Underway, NotYet, Done
  <2>2. CASE r # p
    <3>1. at'[r] = at[r]
      BY <1>2, <1>5, <2>2
    <3> QED BY <1>1, <3>1 DEF Underway, NotYet, Done
  <2> QED BY <2>1, <2>2
<1>6. CASE Crash(p)
  <2>1. at' = [at EXCEPT ![p] = "killed"]
    BY <1>6 DEF Crash
  <2> QED BY <1>5, <2>1
<1>7. CASE \/ Retained(p) \/ Bind(p) \/ ServeEnds(p) \/ RestoreTerm(p)
           \/ Unmirror(p) \/ StillRunning(p) \/ CheckHolder(p) \/ CannotWrite(p) \/ SetupFails(p)
  <2>1. PICK to : GoesOn(p, to) /\ at' = [at EXCEPT ![p] = to]
    BY <1>7, Goings DEF Going
  <2>2. at[p] # "build"
    BY <1>7 DEF Retained, Bind, ServeEnds, RestoreTerm, Unmirror, StillRunning, CheckHolder, CannotWrite,
     SetupFails
  <2> QED BY <1>1, <1>2, <1>5, <2>1, <2>2 DEF GoesOn, NotYet, Done, PlaceOf
<1>8. CASE Look(p) \/ Shows(p) \/ Find(p) \/ Check(p) \/ Connect(p)
  <2>1. PICK to : /\ at' = [at EXCEPT ![p] = to]
                  /\ \/ at[p] = "look" /\ to = "prune"
                     \/ at[p] = "check" /\ to \in {"holder", "ended"}
                     \/ at[p] \in {"find", "connect"} /\ to \in {"ended", "connect", "signal"}
    BY <1>8 DEF Look, Shows, Find, Check, Connect
  <2> QED BY <1>1, <1>2, <1>5, <2>1 DEF NotYet, Done, PlaceOf
<1>9. CASE Prune(p) \/ GoneAlready(p) \/ Stopped(p) \/ Clean(p) \/ Unregister(p)
  <2>1. PICK to : /\ at' = [at EXCEPT ![p] = to]
                  /\ \/ at[p] = "prune" /\ (Starts(p) => to = "check")
                     \/ at[p] \in {"signal", "wait", "remove"} /\ to = "ended"
                     \/ at[p] = "clean" /\ to = "restore"
    BY <1>9 DEF Prune, GoneAlready, Stopped, Clean, Unregister, Starts
  <2> QED BY <1>1, <1>2, <1>5, <2>1 DEF NotYet, Done, PlaceOf
<1>10. CASE WriteUnbound(p) \/ WriteServed(p) \/ Ready(p) \/ TakeName(p) \/ NotRegistered(p)
            \/ ReadyUnwritten(p)
  <2>1. PICK to : /\ at' = [at EXCEPT ![p] = to]
                  /\ \/ at[p] = "write" /\ Starts(p) /\ to = "retain"
                     \/ at[p] = "name"
                     \/ at[p] = "write" /\ Serves(p)
                     \/ at[p] = "ready"
    BY <1>10 DEF WriteUnbound, WriteServed, Ready, TakeName, NotRegistered, ReadyUnwritten, Starts, Serves
  <2> QED BY <1>1, <1>2, <1>5, <2>1 DEF NotYet, Done, PlaceOf
<1>11. CASE ClearLink(p) \/ MakeLink(p) \/ Unlink(p)
  <2>1. PICK to : at' = [at EXCEPT ![p] = to] /\ at[p] \in {"mirror", "link", "unlink"}
    BY <1>11 DEF ClearLink, MakeLink, Unlink
  <2> QED BY <1>1, <1>2, <1>5, <2>1 DEF NotYet, Done, PlaceOf
<1>12. CASE MoveWrites(p) \/ MoveUnwritten(p) \/ \E new \in Ports : MoveBegins(p, new)
  BY <1>3, <1>12 DEF MoveWrites, MoveUnwritten, MoveBegins
<1> QED BY <1>4, <1>6, <1>7, <1>8, <1>9, <1>10, <1>11, <1>12 DEF RegistryStep, RegistryFails

\* What is recorded stays whole when nothing is written, and when it is closed with nobody in it.
LEMMA WholeAside ==
  ASSUME RecInv, Whole, UNCHANGED <<files, parts, own, sizes, doing, said, rows, dropped>>,
         handles' = handles \/ (handles' = FALSE /\ \A t \in Writers : doing[t].at = "out")
  PROVE  Whole'
<1>1. InTurn'
  <2>1. InTurn
    BY DEF Whole
  <2>2. CASE handles' = handles
    BY <2>1, <2>2 DEF InTurn, Between, Rotating
  <2>3. CASE handles' = FALSE /\ \A t \in Writers : doing[t].at = "out"
    BY <2>1, <2>3 DEF InTurn, Between, Rotating
  <2> QED BY <2>2, <2>3
<1>2. OwnThere' /\ PartsCapped' /\ PresentCapped' /\ Pending'
  BY DEF Whole, OwnThere, PartsCapped, PresentCapped, Pending, Rotating
<1>3. NothingMissing' /\ SameSpan'
  <2>1. Present' = Present
    BY DEF Present
  <2> QED BY <2>1, WholeNow, ContentStays DEF Whole
<1> QED BY <1>1, <1>2, <1>3 DEF Whole

\* Nothing is missing from a recording that has not begun.
LEMMA WholeAtFirst == Untouched => Whole
<1> SUFFICES ASSUME Untouched PROVE Whole
  OBVIOUS
<1>1. /\ ~handles /\ files.raw = <<>> /\ files.lines = <<>> /\ own = <<>> /\ dropped = <<>>
      /\ said = 0 /\ rows = <<>> /\ \A t \in Writers : doing[t].at = "out" /\ doing[t].lines = <<>>
  BY DEF Untouched, NoFiles, Resting
<1>2. InTurn
  BY <1>1 DEF InTurn, Rotating
<1>3. OwnThere /\ Pending
  BY <1>1 DEF OwnThere, Pending
<1>4. PartsCapped
  <2>1. Len(own) = 0
    BY <1>1
  <2> QED BY <1>1, <2>1, RecordingAssumption DEF PartsCapped
<1>5. PresentCapped
  <2>1. Len(files.raw) = 0 /\ Len(files.lines) = 0
    BY <1>1
  <2>2. RotateAt > 0 => 0 <= 2 * RotateAt /\ 0 <= RotateAt /\ 0 < 2 * RotateAt /\ 0 < RotateAt
    BY RecordingAssumption
  <2> QED BY <2>1, <2>2 DEF PresentCapped
<1>6. NothingMissing /\ SameSpan
  <2>1. Old = <<>> /\ Old \in Seq(PartRecs)
    <3>1. Old = <<>> \o [i \in 1..Len(own) |-> parts[own[i]]] /\ Len(own) = 0
      BY <1>1 DEF Old
    <3>2. [i \in 1..0 |-> parts[own[i]]] = <<>>
      OBVIOUS
    <3> QED BY <3>1, <3>2
  <2>2. Present = NoPart /\ Present \in PartRecs
    BY <1>1 DEF Present, NoPart, PartRecs
  <2>3. \A t \in Writers : LinesLeft[t] = <<>>
    BY <1>1 DEF LinesLeft
  <2>4. Complete(<<>>, NoPart, 0, <<>>, LinesLeft)
    <3>1. NoPart.raw = <<>> /\ NoPart.lines = <<>>
      BY DEF NoPart
    <3>2. AllRaw(<<>>) \o NoPart.raw = <<>> /\ AllLines(<<>>) \o NoPart.lines = <<>>
      <4>1. <<>> \o <<>> = <<>>
        OBVIOUS
      <4> QED BY <3>1, <4>1, NothingAtFirst
    <3>3. <<>> = [i \in 1..0 |-> i]
      OBVIOUS
    <3>4. UNION {ToSet(LinesLeft[t]) : t \in Writers} = {} /\ ToSet(<<>>) = {}
      <4>1. ToSet(<<>>) = {}
        BY DEF ToSet
      <4> QED BY <2>3, <4>1
    <3>5. \A t \in Writers : InOrder(t, <<>> \o LinesLeft[t])
      <4>1. <<>> \o <<>> = <<>> /\ \A t : InOrder(t, <<>>)
        BY DEF InOrder
      <4> QED BY <2>3, <4>1
    <3>6. Fits(AllRaw(<<>>), NoPart)
      BY <3>1 DEF Fits
    <3> QED BY <3>2, <3>3, <3>4, <3>5, <3>6, NothingAtFirst DEF Complete
  <2>5. Complete(Old, Present, said, rows, LinesLeft)
    BY <1>1, <2>1, <2>2, <2>4
  <2> QED BY <2>1, <2>2, <2>5, CompleteIs
<1> QED BY <1>2, <1>3, <1>4, <1>5, <1>6 DEF Whole

\* Nor is there anything in it when its recorder has just been opened.
LEMMA WholeOpened ==
  ASSUME Untouched, handles', files' = Empty, sizes' = NoSize,
         UNCHANGED <<parts, own, doing, said, rows, dropped>>
  PROVE  Whole'
<1>1. /\ files'.raw = <<>> /\ files'.lines = <<>> /\ own' = <<>> /\ dropped' = <<>>
      /\ said' = 0 /\ rows' = <<>> /\ \A t \in Writers : doing'[t].at = "out" /\ doing'[t].lines = <<>>
  BY DEF Untouched, Empty, Resting
<1>2. InTurn'
  <2>1. Len(files'.raw) = sizes'.raw
    BY <1>1 DEF NoSize
  <2> QED BY <1>1, <2>1 DEF InTurn, Rotating
<1>3. OwnThere' /\ Pending'
  BY <1>1 DEF OwnThere, Pending
<1>4. PartsCapped'
  <2>1. Len(own') = 0
    BY <1>1
  <2> QED BY <1>1, <2>1, RecordingAssumption DEF PartsCapped
<1>5. PresentCapped'
  <2>1. Len(files'.raw) = 0 /\ Len(files'.lines) = 0
    BY <1>1
  <2>2. RotateAt > 0 => 0 <= 2 * RotateAt /\ 0 <= RotateAt /\ 0 < 2 * RotateAt /\ 0 < RotateAt
    BY RecordingAssumption
  <2> QED BY <2>1, <2>2 DEF PresentCapped
<1>6. NothingMissing' /\ SameSpan'
  <2>1. files.raw = <<>> /\ files.lines = <<>>
    BY DEF Untouched, NoFiles
  <2>2. Present' = Present
    BY <1>1, <2>1 DEF Present
  <2>3. own \in Seq(Nat) /\ NothingMissing /\ SameSpan
    <3>1. own = <<>>
      BY DEF Untouched
    <3> QED BY <3>1, WholeAtFirst DEF Whole
  <2> QED BY <2>2, <2>3, ContentStays
<1> QED BY <1>2, <1>3, <1>4, <1>5, <1>6 DEF Whole

-----------------------------------------------------------------------------
(* What the session's threads do *)

\* No step of theirs brings back a folder, or order.
LEMMA SpeakingIs ==
  ASSUME RecInv,
         \/ \E ends \in Nat : HandleChunk(ends)
         \/ HandleTyped
         \/ \E t \in Writers : HandleLine(t) \/ Rotate(t)
  PROVE  deleted' = deleted /\ (overlap => overlap')
<1>1. CASE \E ends \in Nat : HandleChunk(ends)
  <2>1. "rx" \in Writers /\ Notes("rx") /\ deleted' = deleted
    BY <1>1 DEF HandleChunk, Writers
  <2> QED BY <2>1, NotesIs DEF RecInv, RecTypes
<1>2. CASE HandleTyped
  BY <1>2 DEF HandleTyped
<1>3. CASE \E t \in Writers : HandleLine(t) \/ Rotate(t)
  <2>1. deleted' = deleted
    BY <1>3 DEF HandleLine, Rotate, Number, CloseFiles, RenameFiles, RotationRaises, OpenNext, PruneParts
  <2> QED BY <1>3, <2>1, InTheRecorder
<1> QED BY <1>1, <1>2, <1>3

\* While a session is underway something is open, or a thread is about to open it, and as long
\* as they take turns the one that writes finds it open.
LEMMA ChunkInTurn ==
  ASSUME RecInv, Whole, ~deleted, ~overlap, ~overlap', handles \/ Between, NEW ends \in Nat, HandleChunk(ends)
  PROVE  Whole' /\ handles'
<1>1. /\ "rx" \in Writers /\ Notes("rx") /\ doing["rx"].at = "out" /\ handles' = handles
  BY DEF HandleChunk, Writers
<1>2. \A x \in Writers \ {"rx"} : ~(doing[x].at # "out" /\ Rotating(x))
  BY <1>1, NotesIs DEF RecInv, RecTypes
<1>3. handles
  BY <1>1, <1>2 DEF Between, Rotating
<1> QED BY <1>1, <1>3, ChunkWhole

LEMMA LineInTurn ==
  ASSUME RecInv, Whole, ~deleted, ~overlap, ~overlap', NEW t \in Writers, HandleLine(t)
  PROVE  Whole' /\ handles'
<1>1. Notes(t) /\ doing[t].at = "lines" /\ handles' = handles
  BY DEF HandleLine
<1>2. \A x \in Writers \ {t} : ~(doing[x].at # "out" /\ Rotating(x))
  BY <1>1, NotesIs DEF RecInv, RecTypes
<1>3. handles
  BY <1>1, <1>2 DEF Between, Rotating, Whole, InTurn
<1> QED BY <1>1, <1>3, LineWhole

LEMMA RotateInTurn ==
  ASSUME RecInv, Whole, ~deleted, ~overlap, ~overlap', NEW t \in Writers, Rotate(t)
  PROVE  Whole' /\ (handles' \/ Between')
<1>1. CASE Number(t) \/ CloseFiles(t) \/ RenameFiles(t) \/ OpenNext(t)
  <2>1. Whole'
    BY <1>1, NumberWhole, CloseWhole, RenameWhole, OpenWhole
  <2>2. doing'[t].at # "out"
    <3>1. CASE Number(t)
      BY <3>1 DEF Number, RecInv, RecTypes, DoingTyped, Doings
    <3>2. CASE CloseFiles(t)
      BY <3>2, TurnsTo DEF CloseFiles
    <3>3. CASE RenameFiles(t)
      BY <3>3, TurnsTo DEF RenameFiles
    <3>4. CASE OpenNext(t)
      BY <3>4, TurnsTo DEF OpenNext
    <3> QED BY <1>1, <3>1, <3>2, <3>3, <3>4
  <2> QED BY <2>1, <2>2 DEF Whole, InTurn
<1>2. CASE PruneParts(t)
  <2>1. doing[t].at = "prune" /\ Notes(t) /\ handles' = handles
    BY <1>2 DEF PruneParts
  <2>2. \A x \in Writers \ {t} : doing[x].at = "out"
    BY <2>1, AloneInThere DEF Rotating
  <2>3. handles
    BY <2>1, <2>2 DEF Between, Whole, InTurn
  <2> QED BY <1>2, <2>1, <2>3, PruneWhole
<1> QED BY <1>1, <1>2, NothingRaised DEF Rotate

LEMMA SpeaksWhole ==
  ASSUME HostInv, WholeInv, UNCHANGED use, Speaks
  PROVE  WholeInv'
<1> DEFINE r == use.records
<1>1. /\ r \in Procs /\ r # 0 /\ UNCHANGED registryVars /\ use.ends \subseteq Nat /\ RecInv
      /\ \/ at[r] = "serve" /\ \E ends \in use.ends : HandleChunk(ends)
         \/ at[r] \in {"serve", "clean", "restore", "unmirror"} /\ HandleTyped
         \/ \E t \in Writers : HandleLine(t) \/ Rotate(t)
  BY UsesAssumption DEF Speaks, HostInv, RegistryInv, Types
<1>2. deleted' = deleted /\ (overlap => overlap')
  BY <1>1, SpeakingIs
<1>3. r' = r
  OBVIOUS
<1> SUFFICES ASSUME ~deleted', ~overlap' PROVE Whole' /\ (handles' \/ Between')
  BY DEF WholeInv
<1>4. Whole /\ (Underway(r) => handles \/ Between)
  BY <1>1, <1>2 DEF WholeInv
<1>5. at[r] \in {"serve", "clean", "restore", "unmirror"} => Underway(r)
  <2> HIDE DEF r
  <2>1. PlaceOf(r) /\ (IsSession(r) <=> Starts(r) \/ Serves(r))
    BY <1>1 DEF HostInv, RegistryInv, PlaceInv, IsSession, Starts, Serves
  <2> QED BY <2>1 DEF Underway, NotYet, Done, PlaceOf
<1>6. CASE at[r] = "serve" /\ \E ends \in use.ends : HandleChunk(ends)
  BY <1>1, <1>2, <1>4, <1>5, <1>6, ChunkInTurn
<1>7. CASE at[r] \in {"serve", "clean", "restore", "unmirror"} /\ HandleTyped
  <2>1. handles \/ Between
    BY <1>4, <1>5, <1>7
  <2>2. Whole'
    BY <1>1, <1>4, <1>7, <2>1, TypedWhole
  <2>3. handles' \/ \E t \in Writers : t # "tx" /\ doing[t].at \in {"rename", "open"} /\ doing'[t] = doing[t]
    BY <1>1, <1>7, <2>1 DEF HandleTyped, Between, RecInv, RecTypes, DoingTyped
  <2>4. handles' \/ Between'
    BY <2>3 DEF Between
  <2> QED BY <2>2, <2>4
<1>8. CASE \E t \in Writers : HandleLine(t) \/ Rotate(t)
  BY <1>1, <1>2, <1>4, <1>8, LineInTurn, RotateInTurn
<1> QED BY <1>1, <1>6, <1>7, <1>8

-----------------------------------------------------------------------------
(* The recording is whole *)

LEMMA WholeStarts == Init => EarlierKept /\ WholeInv
<1> SUFFICES ASSUME Init PROVE EarlierKept /\ WholeInv
  OBVIOUS
<1>1. Untouched
  BY DEF Init, RecordingInit, Untouched
<1>2. EarlierKept
  <2>1. parts = [n \in 1..use.earlier |-> Earlier]
    BY DEF Init, RecordingInit
  <2>2. own = <<>> /\ \A t \in Writers : doing[t].at = "out"
    BY <1>1 DEF Untouched, Resting
  <2> QED BY <2>1, <2>2 DEF EarlierKept, EarlierRunsKept
<1>3. ~Underway(use.records) \/ use.records = 0
  <2>1. job = use.jobs /\ use \in Uses
    BY DEF Init, RegistryInit
  <2>2. use.records = 0 \/ use.records \in Procs
    BY <2>1, UsesAssumption
  <2>3. ASSUME NEW r \in Procs PROVE ~Underway(r)
    <3>1. at[r] = CASE job[r].cmd = "none"  -> "ended"
                    [] job[r].cmd = "serve" -> "retain"
                    [] OTHER -> "look"
      BY <2>1 DEF Init, RegistryInit
    <3> QED BY <3>1, Zenon DEF Underway, NotYet, Done, IsSession, Starts, Serves
  <2> QED BY <2>2, <2>3
<1> QED BY <1>1, <1>2, <1>3, WholeAtFirst DEF WholeInv

\* Nothing of the recording but its age and what is deleted changes.
LEMMA AsideKeeps ==
  ASSUME HostInv, WholeInv, UNCHANGED use, UNCHANGED recordingVars \/ Retain \/ Day,
         use.records \in Procs => (Underway(use.records)' => Underway(use.records))
  PROVE  WholeInv'
<1>1. /\ (deleted => deleted') /\ overlap' = overlap
      /\ ~deleted' => UNCHANGED <<files, handles, parts, own, sizes, doing, said, rows, dropped>>
  <2>1. CASE UNCHANGED recordingVars
    BY <2>1 DEF recordingVars
  <2>2. CASE Retain
    BY <2>2, RetainIs
  <2>3. CASE Day
    BY <2>3 DEF Day
  <2> QED BY <2>1, <2>2, <2>3
<1> SUFFICES ASSUME ~deleted', ~overlap'
             PROVE  Whole' /\ (use.records # 0 /\ Underway(use.records)' => handles' \/ Between')
  BY DEF WholeInv, Underway, IsSession, NotYet, Done, Starts, Serves
<1>2. RecInv /\ Whole /\ (use.records # 0 /\ Underway(use.records) => handles \/ Between)
  BY <1>1 DEF WholeInv, HostInv
<1>3. Whole'
  BY <1>1, <1>2, WholeAside
<1>4. handles \/ Between => handles' \/ Between'
  BY <1>1 DEF Between
<1>5. use.records = 0 \/ use.records \in Procs
  BY UsesAssumption DEF HostInv, RegistryInv, Types
<1> QED BY <1>2, <1>3, <1>4, <1>5

LEMMA SameUse ==
  ASSUME UNCHANGED use, NEW r, r = use.records, Underway(r)' => Underway(r)
  PROVE  Underway(use.records)' => Underway(use.records)
BY DEF Underway, NotYet, Done, IsSession, Starts, Serves

LEMMA WholeKept ==
  ASSUME HostInv, HostInv', WholeInv, [Next]_vars
  PROVE  WholeInv'
<1>1. RegistryInv /\ RecInv /\ RegistryInv' /\ RecInv'
  BY DEF HostInv
<1>2. ASSUME UNCHANGED use, UNCHANGED registryVars, UNCHANGED recordingVars \/ Day
      PROVE  WholeInv'
  <2>1. Underway(use.records)' => Underway(use.records)
    BY <1>2 DEF registryVars, Underway, NotYet, Done, IsSession, Starts, Serves
  <2> QED BY <1>2, <2>1, AsideKeeps
<1>3. CASE UNCHANGED vars
  BY <1>2, <1>3 DEF vars
<1>4. ASSUME UNCHANGED use, NEW p \in Procs, UNCHANGED recordingVars \/ Retain,
             Retained(p) \/ RegistryStep(p) \/ RegistryFails(p) \/ Crash(p) \/ \E new \in Ports :
                 MoveBegins(p, new)
      PROVE  WholeInv'
  <2>1. ASSUME NEW r \in Procs, r = use.records PROVE Underway(use.records)' => Underway(use.records)
    <3>1. Underway(r)' => Underway(r)
      BY <1>1, <1>4, UnderwayStays
    <3> QED BY <1>4, <2>1, <3>1, SameUse
  <2>2. use.records \in Procs => (Underway(use.records)' => Underway(use.records))
    BY <2>1
  <2> QED BY <1>4, <2>2, AsideKeeps
<1>5. ASSUME UNCHANGED use, NEW p \in Procs, UNCHANGED recordingVars, Build(p) \/ Unrecord(p), p # use.records
      PROVE  WholeInv'
  <2>1. \A r \in Procs \ {p} : at'[r] = at[r]
    BY <1>5 DEF Build, Unrecord, HostInv, RegistryInv, Types
  <2>2. UNCHANGED job
    BY <1>5 DEF Build, Unrecord
  <2>3. use.records \in Procs => (Underway(use.records)' => Underway(use.records))
    BY <1>5, <2>1, <2>2 DEF Underway, NotYet, Done, IsSession, Starts, Serves
  <2> QED BY <1>5, <2>3, AsideKeeps
<1>6. ASSUME UNCHANGED use, use.records \in Procs, Build(use.records), OpenRecorder
      PROVE  WholeInv'
  <2> DEFINE r == use.records
  <2>1. r # 0 /\ at[r] = "build"
    BY <1>6, RegistryAssumption DEF Build
  <2>2. Untouched
    <3>1. PlaceOf(r) /\ (IsSession(r) <=> Starts(r) \/ Serves(r))
      BY <1>6 DEF HostInv, RegistryInv, PlaceInv, IsSession, Starts, Serves
    <3>2. NotYet(r)
      BY <2>1, <3>1 DEF NotYet, PlaceOf
    <3> QED BY <3>2 DEF HostInv, Recorded
  <2>3. /\ handles' /\ files' = Empty /\ sizes' = NoSize
        /\ UNCHANGED <<parts, own, doing, said, rows, dropped>>
    BY <1>6 DEF OpenRecorder
  <2>4. Whole'
    BY <2>2, <2>3, WholeOpened
  <2> QED BY <2>3, <2>4 DEF WholeInv
<1>7. ASSUME UNCHANGED use, use.records \in Procs, Unrecord(use.records), CloseRecorder
      PROVE  WholeInv'
  <2> DEFINE r == use.records
  <2>0. r' = r
    BY <1>7
  <2>1. at'[r] \in {"remove", "ended"} /\ job' = job
    BY <1>7 DEF Unrecord, HostInv, RegistryInv, Types
  <2>2. /\ doing["rx"].at = "out" /\ handles' = FALSE /\ (overlap' <=> overlap \/ doing["tx"].at # "out")
        /\ UNCHANGED <<files, parts, own, sizes, doing, deleted, said, rows, dropped>>
    BY <1>7 DEF CloseRecorder
  <2>3. ~deleted' /\ ~overlap' => Whole'
    <3> SUFFICES ASSUME ~deleted', ~overlap' PROVE Whole'
      OBVIOUS
    <3>1. Whole /\ \A t \in Writers : doing[t].at = "out"
      BY <2>2 DEF WholeInv, Writers
    <3> QED BY <1>1, <2>2, <3>1, WholeAside
  <2> HIDE DEF r
  <2>4. ~Underway(r)'
    BY <2>0, <2>1 DEF Underway, Done, IsSession
  <2>5. ~Underway(use.records)'
    BY <1>7, <2>0, <2>4 DEF Underway, NotYet, Done, IsSession, Starts, Serves, r
  <2> QED BY <2>3, <2>5 DEF WholeInv, Underway, NotYet, Done, IsSession, Starts, Serves
<1>8. ASSUME UNCHANGED use, Speaks PROVE WholeInv'
  BY <1>8, SpeaksWhole
<1>9. ASSUME UNCHANGED use, Passes PROVE WholeInv'
  BY <1>2, <1>9 DEF Passes
<1>10. CASE Next
  BY <1>4, <1>5, <1>6, <1>7, <1>8, <1>9, <1>10, Touching
<1> QED BY <1>3, <1>10

LEMMA EarlierIsKept ==
  ASSUME HostInv, EarlierKept, [Next]_vars
  PROVE  EarlierKept'
<1>1. RecInv /\ use.earlier \in Nat /\ use.ends \subseteq Nat
  BY UsesAssumption DEF HostInv, RegistryInv, Types
<1>2. CASE UNCHANGED vars
  BY <1>1, <1>2, EarlierElse DEF vars
<1>3. ASSUME UNCHANGED use, Speaks PROVE EarlierKept'
  <2>1. \/ \E ends \in Nat : HandleChunk(ends)
        \/ HandleTyped
        \/ \E t \in Writers : HandleLine(t) \/ Rotate(t)
    BY <1>1, <1>3 DEF Speaks
  <2>2. "rx" \in Writers /\ "tx" \in Writers
    BY DEF Writers
  <2> QED BY <1>1, <1>3, <2>1, <2>2, EarlierChunk, EarlierRotate
<1>4. CASE Next
  <2>1. UNCHANGED use /\ (Speaks \/ UNCHANGED recordingVars \/ OpenRecorder \/ CloseRecorder \/ Retain \/ Day)
    BY <1>4, Touching DEF Passes
  <2> QED BY <1>1, <1>3, <2>1, EarlierElse
<1> QED BY <1>2, <1>4

\* RecordingIsWhole: a recording never takes the place of an earlier run's part; and as long as
\* one thread at a time writes it and retention leaves the folder alone, nothing is missing from
\* its parts and nothing is there twice, and they keep to their limits (Recorder.rotate).
THEOREM RecordingsAreWhole == Spec => []RecordingIsWhole
<1>1. Init => HostInv /\ EarlierKept /\ WholeInv
  BY HostStarts, WholeStarts
<1>2. HostInv /\ EarlierKept /\ WholeInv /\ [Next]_vars => (HostInv /\ EarlierKept /\ WholeInv)'
  <2> SUFFICES ASSUME HostInv, EarlierKept, WholeInv, [Next]_vars PROVE (HostInv /\ EarlierKept /\ WholeInv)'
    OBVIOUS
  <2>1. HostInv'
    BY HostKept
  <2> QED BY <2>1, WholeKept, EarlierIsKept
<1>3. EarlierKept /\ WholeInv => RecordingIsWhole
  <2> SUFFICES ASSUME EarlierKept, WholeInv, ~deleted
               PROVE  /\ EarlierRunsKept(use.earlier)
                      /\ ~overlap => NothingMissing /\ SameSpan /\ SizesCapped
    BY DEF RecordingIsWhole
  <2>1. EarlierRunsKept(use.earlier)
    BY DEF EarlierKept
  <2>2. PartsCapped => SizesCapped
    BY DEF PartsCapped, SizesCapped, Rotating
  <2> QED BY <2>1, <2>2 DEF WholeInv, Whole
<1> QED BY <1>1, <1>2, <1>3, PTL DEF Spec
=============================================================================
