------------------------------ MODULE PtyMirrors ------------------------------
(***************************************************************************)
(* The local pty mirrors of a session (core/pty_proxy.py, SPEC S14).       *)
(*                                                                         *)
(* The session's read thread appends what the device says to the queue of  *)
(* each mirror; one serving thread moves it from there to the kernel, as   *)
(* much as the pty takes, and reads what the clients type.  A queue nobody *)
(* has taken from for MaxLag is thrown away, with what the kernel holds.   *)
(* A client is a program that opened the mirror: it reads when it likes,   *)
(* unless it is one of drains, which leave nothing unread for long.        *)
(*                                                                         *)
(* What the device says is numbered in chunks; what a client types is a    *)
(* sequence of units, some of which end what line mode holds back.  The    *)
(* wake-up pipe is left out: it makes select() return at once, which it    *)
(* does anyway within half a second.                                       *)
(***************************************************************************)
EXTENDS Naturals, Sequences, SequencesExt, FiniteSets

CONSTANTS
  Mirrors,
  QueueMax,   \* the chunks kept for a client that does not read
  MaxLag,     \* max_lag, in ticks of the clock
  LineMax,    \* line_max, in units
  PtyRoom,    \* what the kernel takes for a client that does not read
  MaxTyped    \* bound: units typed into a mirror

ASSUME MirrorAssumption ==
  /\ Mirrors # {}
  /\ QueueMax \in Nat \ {0} /\ PtyRoom \in Nat \ {0} /\ LineMax \in Nat \ {0}
  /\ MaxLag \in Nat /\ MaxTyped \in Nat

VARIABLES
  group,    \* the PtyProxyGroup: absent, running, stopping, off
  merge,    \* tx_merge: raw or line
  out,      \* PtyMirror.out: what waits for room in the pty
  idle,     \* ticks since _progress_at
  kernel,   \* what the pty holds for the client
  typed,    \* what the client typed and the group has not read
  txline,   \* PtyMirror.txline
  serve,    \* the serving thread: where it is, and what select() reported that it has yet to do
  drains,   \* the mirrors whose client reads all it can, all the time
  broadcast, \* ghost: chunks handed to the group so far
  got,      \* ghost: what the client has read
  lost,     \* ghost: what was dropped, thrown away as stale, or flushed from the kernel with it
  sentTx,   \* ghost: what of the client's typing was handed to on_tx
  pieces,   \* ghost: where in it a piece ended
  typedAll, \* ghost: how much each client typed
  moving,   \* ghost: mirrors that took something since the last tick, or had nothing waiting
  held      \* ghost: the serving thread has been kept in on_tx while the clock went on

mirrorVars ==
  <<group, merge, out, idle, kernel, typed, txline, serve, drains, broadcast, got, lost, sentTx,
    pieces, typedAll, moving, held>>

Unit     == [n : Nat, ends : BOOLEAN]
Event    == [m : Mirrors, is : {"read", "write"}]
Losses   == {"dropped", "stale", "flushed"}
At(step) == serve.at = step

MirrorTypeOK ==
  /\ group \in {"absent", "running", "stopping", "off"}
  /\ merge \in {"raw", "line"}
  /\ out \in [Mirrors -> Seq(Nat)] /\ kernel \in [Mirrors -> Seq(Nat)]
  /\ got \in [Mirrors -> Seq(Nat)]
  /\ typed \in [Mirrors -> Seq(Unit)] /\ txline \in [Mirrors -> Seq(Unit)]
  /\ \A m \in Mirrors :
       /\ Len(out[m]) <= QueueMax /\ Len(kernel[m]) <= PtyRoom
       /\ Len(txline[m]) < LineMax
  /\ idle \in [Mirrors -> 0..MaxLag]
  /\ serve \in [at : {"top", "select", "work", "written", "forward", "gone"}, todo : SUBSET Event,
                want : SUBSET Mirrors, m : Mirrors, wrote : 0..PtyRoom, ready : Seq(Unit)]
  /\ broadcast \in Nat /\ lost \in [Mirrors -> [Losses -> SUBSET Nat]]
  /\ sentTx \in [Mirrors -> Seq(Unit)] /\ pieces \in [Mirrors -> SUBSET Nat]
  /\ typedAll \in [Mirrors -> 0..MaxTyped]
  /\ drains \subseteq Mirrors /\ moving \subseteq Mirrors
  /\ held \in BOOLEAN

MirrorInit(state, mode, draining) ==
  /\ group  = state
  /\ merge  = mode
  /\ out    = [m \in Mirrors |-> <<>>]
  /\ idle   = [m \in Mirrors |-> 0]
  /\ kernel = [m \in Mirrors |-> <<>>]
  /\ typed  = [m \in Mirrors |-> <<>>]
  /\ txline = [m \in Mirrors |-> <<>>]
  /\ serve  = [at |-> IF state = "running" THEN "top" ELSE "gone", todo |-> {}, want |-> {},
               m |-> CHOOSE m \in Mirrors : TRUE, wrote |-> 0, ready |-> <<>>]
  /\ drains = draining
  /\ broadcast = 0
  /\ got    = [m \in Mirrors |-> <<>>]
  /\ lost   = [m \in Mirrors |-> [why \in Losses |-> {}]]
  /\ sentTx = [m \in Mirrors |-> <<>>]
  /\ pieces = [m \in Mirrors |-> {}]
  /\ typedAll = [m \in Mirrors |-> 0]
  /\ moving = Mirrors /\ held = FALSE

-----------------------------------------------------------------------------
(* The session's read thread *)

Lose(m, why, chunks) == [lost EXCEPT ![m][why] = @ \union chunks]

\* Bug: the limit is tested before the chunk is counted.
FitsOneMore(m) == Len(out[m]) <= QueueMax

Fits(m) == Len(out[m]) < QueueMax

\* broadcast(): each mirror takes the chunk, or drops it whole.  A backlog that starts now
\* is not stale yet.
Broadcast ==
  LET n == broadcast + 1
  IN /\ broadcast' = n
     /\ IF group \in {"running", "stopping"}
          THEN /\ out'  = [m \in Mirrors |-> IF Fits(m) THEN Append(out[m], n) ELSE out[m]]
               /\ idle' = [m \in Mirrors |-> IF out[m] = <<>> THEN 0 ELSE idle[m]]
               /\ lost' = [m \in Mirrors |-> IF Fits(m) THEN lost[m]
                                             ELSE [lost[m] EXCEPT !["dropped"] = @ \union {n}]]
          ELSE UNCHANGED <<out, idle, lost>>
     /\ UNCHANGED <<group, merge, kernel, typed, txline, serve, drains, got, sentTx, pieces,
                    typedAll, moving, held>>

-----------------------------------------------------------------------------
(* The serving thread *)

\* The client has taken nothing for too long.
Stale(m) == out[m] # <<>> /\ MaxLag > 0 /\ idle[m] = MaxLag

\* drop_if_stale(): the backlog goes, and what the kernel holds with it.
DropIfStale ==
  /\ out'    = [m \in Mirrors |-> IF Stale(m) THEN <<>> ELSE out[m]]
  /\ kernel' = [m \in Mirrors |-> IF Stale(m) THEN <<>> ELSE kernel[m]]
  /\ lost'   = [m \in Mirrors |-> IF Stale(m)
                  THEN [lost[m] EXCEPT !["stale"] = @ \union ToSet(out[m]),
                                       !["flushed"] = @ \union ToSet(kernel[m])]
                  ELSE lost[m]]

\* The head of the loop: stale backlogs go, and writing is asked for where something waits.
LoopTop ==
  /\ At("top") /\ group = "running"
  /\ DropIfStale
  /\ serve' = [serve EXCEPT !.at = "select", !.want = {m \in Mirrors : out'[m] # <<>>}]
  /\ UNCHANGED <<group, merge, idle, typed, txline, drains, broadcast, got, sentTx, pieces,
                 typedAll, moving, held>>

\* What select() would report now.
Ready == {[m |-> m, is |-> "read"] : m \in {x \in Mirrors : typed[x] # <<>>}}
         \union {[m |-> m, is |-> "write"] : m \in {x \in serve.want : Len(kernel[x]) < PtyRoom}}

Select ==
  /\ At("select")
  /\ serve' = [serve EXCEPT !.at = IF Ready = {} THEN "top" ELSE "work", !.todo = Ready]
  /\ UNCHANGED <<group, merge, out, idle, kernel, typed, txline, drains, broadcast, got, lost,
                 sentTx, pieces, typedAll, moving, held>>

\* The next key; of the two events of one mirror reading comes first.
Takes(e) ==
  /\ At("work")
  /\ e \in serve.todo
  /\ e.is = "write" => [m |-> e.m, is |-> "read"] \notin serve.todo

NextWork(todo) == IF todo = {} THEN "top" ELSE "work"
Back(e)        == NextWork(serve.todo \ {e})

\* _pump_rx(): the kernel takes as much of the queue as it has room for.  The lock is not held
\* while it does: the queue may grow.
PumpRx(e) ==
  /\ Takes(e) /\ e.is = "write" /\ group # "off"
  /\ LET room  == PtyRoom - Len(kernel[e.m])
         wrote == IF Len(out[e.m]) < room THEN Len(out[e.m]) ELSE room
     IN /\ kernel' = [kernel EXCEPT ![e.m] = @ \o SubSeq(out[e.m], 1, wrote)]
        /\ serve'  = [serve EXCEPT !.at = "written", !.m = e.m, !.wrote = wrote, !.todo = @ \ {e}]
  /\ UNCHANGED <<group, merge, out, idle, typed, txline, drains, broadcast, got, lost, sentTx,
                 pieces, typedAll, moving, held>>

Removes(m, left, taken) ==
  /\ At("written") /\ m = serve.m
  /\ out'    = [out EXCEPT ![m] = left]
  /\ idle'   = [idle EXCEPT ![m] = taken]
  /\ moving' = IF serve.wrote > 0 THEN moving \union {m} ELSE moving
  /\ serve'  = [serve EXCEPT !.at = NextWork(serve.todo), !.wrote = 0]
  /\ UNCHANGED <<group, merge, kernel, typed, txline, drains, broadcast, got, lost, sentTx, pieces,
                 typedAll, held>>

Left(m)  == SubSeq(out[m], serve.wrote + 1, Len(out[m]))
Taken(m) == IF serve.wrote > 0 THEN 0 ELSE idle[m]

\* Bug: the whole queue is taken for written.
RemovesAll == \E m \in Mirrors : Removes(m, <<>>, Taken(m))

\* Bug: that the client took something is not noted.
RemovesQuietly == \E m \in Mirrors : Removes(m, Left(m), idle[m])

\* The end of _pump_rx(): what was written leaves the queue, and is progress.
RemoveWritten == \E m \in Mirrors : Removes(m, Left(m), Taken(m))

\* Writing fails for another reason than a full pty: the queue is dropped.
PumpFails(e) ==
  /\ Takes(e) /\ e.is = "write"
  /\ out'   = [out EXCEPT ![e.m] = <<>>]
  /\ lost'  = Lose(e.m, "dropped", ToSet(out[e.m]))
  /\ serve' = [serve EXCEPT !.at = Back(e), !.todo = @ \ {e}]
  /\ UNCHANGED <<group, merge, idle, kernel, typed, txline, drains, broadcast, got, sentTx, pieces,
                 typedAll, moving, held>>

\* Where the last unit of a buffer is that ends a line; 0 if none does.
IsLastEnd(buf, k) ==
  /\ k > 0 => buf[k].ends
  /\ \A i \in (k+1)..Len(buf) : ~buf[i].ends

\* _pump_tx(): all the client typed is read; raw lets go of all of it, line mode of whole lines,
\* and of the rest too when that has become too long.
PumpTx(e) ==
  /\ Takes(e) /\ e.is = "read" /\ group # "off"
  /\ typed' = [typed EXCEPT ![e.m] = <<>>]
  /\ LET buf == txline[e.m] \o typed[e.m]
     IN \E k \in 0..Len(buf) :
          /\ IsLastEnd(buf, k)
          /\ LET cut == IF merge = "raw" \/ Len(buf) - k >= LineMax THEN Len(buf) ELSE k
             IN /\ txline' = [txline EXCEPT ![e.m] = SubSeq(buf, cut + 1, Len(buf))]
                /\ serve'  = [serve EXCEPT !.m = e.m, !.ready = SubSeq(buf, 1, cut),
                                           !.todo = @ \ {e},
                                           !.at = IF cut = 0 THEN Back(e) ELSE "forward"]
  /\ UNCHANGED <<group, merge, out, idle, kernel, drains, broadcast, got, lost, sentTx, pieces,
                 typedAll, moving, held>>

\* Reading or writing a descriptor that stop() has closed meanwhile.
PumpClosed(e) ==
  /\ Takes(e) /\ group = "off"
  /\ serve' = [serve EXCEPT !.at = Back(e), !.todo = @ \ {e}]
  /\ UNCHANGED <<group, merge, out, idle, kernel, typed, txline, drains, broadcast, got, lost,
                 sentTx, pieces, typedAll, moving, held>>

\* What is forwarded next: raw forwards all at once, line mode line by line.
IsPiece(buf, k) ==
  /\ k = Len(buf) \/ (merge = "line" /\ buf[k].ends)
  /\ merge = "line" => \A i \in 1..(k-1) : ~buf[i].ends

\* _forward(): on_tx has returned, or raised, which drops the piece and is only reported.
Forwarded ==
  /\ At("forward")
  /\ \E k \in 1..Len(serve.ready) :
       /\ IsPiece(serve.ready, k)
       /\ sentTx' = [sentTx EXCEPT ![serve.m] = @ \o SubSeq(serve.ready, 1, k)]
       /\ pieces' = [pieces EXCEPT ![serve.m] = @ \union {Len(sentTx[serve.m]) + k}]
       /\ serve'  = [serve EXCEPT
                       !.ready = SubSeq(@, k + 1, Len(@)),
                       !.at = IF k < Len(serve.ready) THEN "forward" ELSE NextWork(serve.todo)]
  /\ UNCHANGED <<group, merge, out, idle, kernel, typed, txline, drains, broadcast, got, lost,
                 typedAll, moving, held>>

ServeEnds ==
  /\ At("top") /\ group \in {"stopping", "off"}
  /\ serve' = [serve EXCEPT !.at = "gone"]
  /\ UNCHANGED <<group, merge, out, idle, kernel, typed, txline, drains, broadcast, got, lost,
                 sentTx, pieces, typedAll, moving, held>>

-----------------------------------------------------------------------------
(* stop(), the clients and the clock *)

StopMirrors ==
  /\ group = "running"
  /\ group' = "stopping"
  /\ UNCHANGED <<merge, out, idle, kernel, typed, txline, serve, drains, broadcast, got, lost,
                 sentTx, pieces, typedAll, moving, held>>

\* _teardown(), after the thread has ended or three seconds: it may be kept longer in on_tx.
CloseMirrors ==
  /\ group = "stopping"
  /\ At("gone") \/ At("forward")
  /\ group'  = "off"
  /\ kernel' = [m \in Mirrors |-> <<>>]
  /\ out'    = [m \in Mirrors |-> <<>>]
  /\ lost'   = [m \in Mirrors |-> [lost[m] EXCEPT
                  !["flushed"] = @ \union ToSet(out[m]) \union ToSet(kernel[m])]]
  /\ UNCHANGED <<merge, idle, typed, txline, serve, drains, broadcast, got, sentTx, pieces,
                 typedAll, moving, held>>

ClientReads(m) ==
  /\ kernel[m] # <<>>
  /\ got'    = [got EXCEPT ![m] = @ \o kernel[m]]
  /\ kernel' = [kernel EXCEPT ![m] = <<>>]
  /\ UNCHANGED <<group, merge, out, idle, typed, txline, serve, drains, broadcast, lost, sentTx,
                 pieces, typedAll, moving, held>>

ClientTypes(m, ends) ==
  /\ group = "running" /\ typedAll[m] < MaxTyped
  /\ typedAll' = [typedAll EXCEPT ![m] = @ + 1]
  /\ typed' = [typed EXCEPT ![m] = Append(@, [n |-> typedAll[m] + 1, ends |-> ends])]
  /\ UNCHANGED <<group, merge, out, idle, kernel, txline, serve, drains, broadcast, got, lost,
                 sentTx, pieces, moving, held>>

\* A tick is longer than a pass of the serving thread, which has given a client that drains
\* something of what waits for it, unless on_tx keeps the thread.
Tick ==
  /\ group = "running"
  /\ At("forward") \/ \A m \in drains : out[m] = <<>> \/ m \in moving
  /\ \E m \in Mirrors : out[m] # <<>> /\ idle[m] < MaxLag
  /\ idle'   = [m \in Mirrors |-> IF idle[m] < MaxLag THEN idle[m] + 1 ELSE MaxLag]
  /\ moving' = {m \in Mirrors : out[m] = <<>>}
  /\ held'   = (held \/ At("forward"))
  /\ UNCHANGED <<group, merge, out, kernel, typed, txline, serve, drains, broadcast, got, lost,
                 sentTx, pieces, typedAll>>

MirrorStep ==
  \/ LoopTop \/ Select \/ RemoveWritten \/ ServeEnds \/ CloseMirrors \/ Tick
  \/ \E m \in Mirrors, is \in {"read", "write"} :
       LET e == [m |-> m, is |-> is]
       IN PumpRx(e) \/ PumpFails(e) \/ PumpTx(e) \/ PumpClosed(e)
  \/ \E m \in Mirrors : ClientReads(m)

-----------------------------------------------------------------------------
(* What the mirrors promise *)

\* What waits, but for what the kernel has taken already.
Waiting(m) == IF At("written") /\ serve.m = m THEN Left(m) ELSE out[m]

Lost(m) == UNION {lost[m][why] : why \in Losses}

Rising(s) == \A i, j \in 1..Len(s) : i < j => s[i] < s[j]

Forwards(m) == IF At("forward") /\ serve.m = m THEN sentTx[m] \o serve.ready ELSE sentTx[m]

\* The chunks the client was shown, can read now, and will be shown.
Shown(m) == got[m] \o kernel[m] \o Waiting(m)

\* What was typed, wherever it is by now.
Typing(m) == Forwards(m) \o txline[m] \o typed[m]

\* A piece that no end of a line ends has the length of the longest line.
EndsPiece(m, i) ==
  \/ sentTx[m][i].ends
  \/ i >= LineMax /\ \A j \in (i + 1 - LineMax)..(i - 1) : j \notin pieces[m]

\* SPEC S14: a mirror shows the device's output in order, each chunk once, and what it does not
\* show was dropped whole, or thrown away by age.  What is typed into it leaves in order, and in
\* line mode in whole lines, or in pieces as long as a line may be.
MirrorsAccount ==
  \A m \in Mirrors :
    /\ Rising(Shown(m))
    /\ ToSet(Shown(m)) \intersect Lost(m) = {}
    /\ group # "off" => ToSet(Shown(m)) \union Lost(m) = 1..broadcast
    /\ Len(Typing(m)) = typedAll[m]
    /\ \A i \in 1..Len(Typing(m)) : Typing(m)[i].n = i
    /\ merge = "line" =>
         /\ \A i \in 1..Len(sentTx[m]) : sentTx[m][i].ends => i \in pieces[m]
         /\ \A i \in pieces[m] : EndsPiece(m, i)

\* pty_proxy.py:212: a reader that is merely slow but is draining must never have its backlog
\* thrown away - unless the serving thread was kept in on_tx that long, in which case nothing
\* could be given to it and the code takes it for one that does not read.
DrainingReaderLosesNothing ==
  \A m \in drains : ~held => lost[m]["stale"] \union lost[m]["flushed"] = {} \/ group = "off"
=============================================================================
