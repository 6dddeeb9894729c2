------------------------------ MODULE Recording ------------------------------
(***************************************************************************)
(* The recorder of a session (core/recorder.py) and the retention that     *)
(* prunes the store it writes to (core/retention.py).                      *)
(*                                                                         *)
(* A bus subscriber runs on the thread that publishes: what the device     *)
(* says is written by the session's read thread, and what is typed, when   *)
(* it is recorded too, by the threads that write.  There is no lock.       *)
(*                                                                         *)
(* A chunk is numbered and completes some lines; every file that holds     *)
(* lines gets the same, so they are one here, and so are the raw log and   *)
(* its timing.  A chunk counts one towards the limit, and so does a line.  *)
(* The files of a part are renamed in one step.                            *)
(***************************************************************************)
EXTENDS Naturals, Sequences, SequencesExt, FiniteSets, FiniteSetsExt

CONSTANTS
  RotateAt,   \* rotate_bytes, 0 for never
  KeepParts,  \* keep_parts, 0 for all
  MaxAge,     \* max_age_days, 0 for any age
  MaxTotal,   \* max_total_bytes, 0 for any size
  MaxChunks,  \* bound: chunks the device says
  MaxTyped    \* bound: lines typed

ASSUME RecordingAssumption ==
  /\ RotateAt \in Nat /\ KeepParts \in Nat /\ MaxAge \in Nat /\ MaxTotal \in Nat
  /\ MaxChunks \in Nat /\ MaxTyped \in Nat

Writers == {"rx", "tx"}

VARIABLES
  files,    \* the current part's files: whether they are there, and what they hold
  handles,  \* whether the recorder has files open
  parts,    \* the finished parts on disk, by number
  own,      \* Recorder.parts: the numbers of those this run finished, in order
  sizes,    \* _raw_bytes and _text_bytes
  doing,    \* each thread in handle(): where it is, the lines it has yet to write, its rotation
  age,      \* days since an entry of the session's folder last changed
  store,    \* another session's folder, finished: whether it is there, its age and size
  deleted,  \* whether retention has deleted this session's folder
  said,     \* ghost: chunks so far
  rows,     \* ghost: the lines handed to the recorder, in order
  dropped,  \* ghost: what the parts beyond keep_parts held, in order
  overlap   \* ghost: a thread was in handle() while another rotated

recordingVars ==
  <<files, handles, parts, own, sizes, doing, age, store, deleted, said, rows, dropped, overlap>>

NoFiles == [there |-> FALSE, raw |-> <<>>, lines |-> <<>>]
Empty   == [there |-> TRUE, raw |-> <<>>, lines |-> <<>>]
NoPart  == [raw |-> <<>>, lines |-> <<>>]
Earlier == [raw |-> <<0>>, lines |-> <<>>]   \* a part another run has written
NoSize  == [raw |-> 0, text |-> 0]
Resting == [at |-> "out", lines |-> <<>>, number |-> 0, had |-> FALSE]

\* Parts of earlier runs are there when a folder is used again.
RecordingInit(earlier) ==
  /\ files = NoFiles /\ handles = FALSE
  /\ parts = [n \in 1..earlier |-> Earlier] /\ own = <<>>
  /\ sizes = NoSize /\ age = 0
  /\ doing = [t \in Writers |-> Resting]
  /\ store = [there |-> TRUE, age |-> 0, size |-> 2] /\ deleted = FALSE
  /\ said = 0 /\ rows = <<>> /\ dropped = <<>>
  /\ overlap = FALSE

-----------------------------------------------------------------------------
(* The recorder *)

\* _open_files(): the current files of an earlier run are left out here.
OpenRecorder ==
  /\ ~handles
  /\ handles' = TRUE /\ files' = Empty
  /\ sizes' = NoSize /\ age' = 0
  /\ UNCHANGED <<parts, own, doing, store, deleted, said, rows, dropped, overlap>>

\* _maybe_rotate(): at the end of a line, or past twice the limit when no line ends.
MustRotate(size, atLineEnd) ==
  /\ RotateAt > 0
  /\ \/ atLineEnd /\ (size.raw >= RotateAt \/ size.text >= RotateAt)
     \/ size.raw >= 2 * RotateAt

Idle(left)   == IF left = <<>> THEN "out" ELSE "lines"
Turns(t, at) == doing' = [doing EXCEPT ![t].at = at]
Rotating(t)  == doing[t].at \notin {"out", "lines"}

\* What follows a write: a rotation, or the next line.
Wrote(t, size, atLineEnd, left) ==
  /\ sizes' = size
  /\ doing' = [doing EXCEPT ![t] =
                 [Resting EXCEPT !.lines = left,
                                 !.at = IF MustRotate(size, atLineEnd) THEN "number" ELSE Idle(left)]]

\* Nothing is open: another thread has closed it.
Skipped(t, left) ==
  /\ doing' = [doing EXCEPT ![t] = [Resting EXCEPT !.lines = left, !.at = Idle(left)]]
  /\ UNCHANGED <<files, parts, sizes>>

Notes(t) ==
  overlap' = (overlap \/ \E x \in Writers \ {t} : doing[x].at # "out" /\ (Rotating(x) \/ Rotating(t)))

\* Files that another thread has renamed under the open handles are a part's by now, and those
\* of a deleted folder are nowhere.
Puts(raw, lines) ==
  LET Add(f) == [f EXCEPT !.raw = @ \o raw, !.lines = @ \o lines] IN
  /\ files' = IF files.there THEN Add(files) ELSE files
  /\ parts' = IF files.there \/ own = <<>> \/ Last(own) \notin DOMAIN parts THEN parts
              ELSE [parts EXCEPT ![Last(own)] = Add(@)]

Line(by, chunk, n) == [by |-> by, chunk |-> chunk, n |-> n]

\* handle() of a DATA event: the raw chunk; the lines it completes are an event each.
HandleChunk(ends) ==
  LET chunk == said + 1
      new   == [i \in 1..ends |-> Line("rx", chunk, Len(rows) + i)]
  IN /\ doing["rx"].at = "out" /\ said < MaxChunks
     /\ said' = chunk /\ rows' = rows \o new
     /\ IF handles
          THEN Puts(<<chunk>>, <<>>) /\ Wrote("rx", [sizes EXCEPT !.raw = @ + 1], FALSE, new)
          ELSE Skipped("rx", new)
     /\ Notes("rx")
     /\ UNCHANGED <<handles, own, age, store, deleted, dropped>>

\* With include_tx, a line that was typed.
HandleTyped ==
  LET line == Line("tx", 0, Len(rows) + 1) IN
  /\ doing["tx"].at = "out"
  /\ Cardinality({i \in 1..Len(rows) : rows[i].by = "tx"}) < MaxTyped
  /\ rows' = Append(rows, line)
  /\ doing' = [doing EXCEPT !["tx"] = [Resting EXCEPT !.at = "lines", !.lines = <<line>>]]
  /\ UNCHANGED <<files, handles, parts, own, sizes, age, store, deleted, said, dropped, overlap>>

\* _write_line().
HandleLine(t) ==
  LET left == Tail(doing[t].lines) IN
  /\ doing[t].at = "lines"
  /\ IF handles
       THEN Puts(<<>>, <<Head(doing[t].lines)>>) /\ Wrote(t, [sizes EXCEPT !.text = @ + 1], TRUE, left)
       ELSE Skipped(t, left)
  /\ Notes(t)
  /\ UNCHANGED <<handles, own, age, store, deleted, said, rows, dropped>>

Highest(numbers) == IF numbers = {} THEN 0 ELSE Max(numbers)

\* Bug: a run counts its own parts.
CountsItsOwn == Len(own) + 1

\* Bug: the highest itself.
TheHighest == Highest(DOMAIN parts)

\* _next_part_number(): one past the highest on disk, whoever's that is.
NextPartNumber == Highest(DOMAIN parts) + 1

\* rotate(): its number, and the paths of the files that are open.
Number(t) ==
  /\ doing[t].at = "number"
  /\ doing' = [doing EXCEPT ![t].at = "close", ![t].number = NextPartNumber, ![t].had = handles]
  /\ Notes(t)
  /\ UNCHANGED <<files, handles, parts, own, sizes, age, store, deleted, said, rows, dropped>>

CloseFiles(t) ==
  /\ doing[t].at = "close"
  /\ Turns(t, "rename") /\ handles' = FALSE
  /\ Notes(t)
  /\ UNCHANGED <<files, parts, own, sizes, age, store, deleted, said, rows, dropped>>

\* os.replace() takes the place of a part that has the number already.
RenameFiles(t) ==
  LET number == doing[t].number IN
  /\ doing[t].at = "rename"
  /\ doing[t].had => files.there
  /\ IF doing[t].had
       THEN /\ parts' = [n \in DOMAIN parts \union {number} |->
                           IF n = number THEN [raw |-> files.raw, lines |-> files.lines] ELSE parts[n]]
            /\ files' = NoFiles /\ age' = 0
            /\ own' = Append(own, number)
       ELSE UNCHANGED <<parts, files, age, own>>
  /\ Turns(t, "open")
  /\ Notes(t)
  /\ UNCHANGED <<handles, sizes, store, deleted, said, rows, dropped>>

\* handle() raises, and the bus only reports it: a mark into a file another thread has just
\* closed, files that are not there to rename, or no folder to open the next ones in.
RotationRaises(t) ==
  /\ \/ doing[t].at = "number" /\ ~handles
     \/ doing[t].at = "rename" /\ doing[t].had /\ ~files.there
     \/ doing[t].at = "open" /\ deleted
  /\ Turns(t, Idle(doing[t].lines))
  /\ Notes(t)
  /\ UNCHANGED <<files, handles, parts, own, sizes, age, store, deleted, said, rows, dropped>>

OpenNext(t) ==
  /\ doing[t].at = "open" /\ ~deleted
  /\ handles' = TRUE /\ files' = Empty /\ sizes' = NoSize /\ age' = 0
  /\ Turns(t, "prune")
  /\ Notes(t)
  /\ UNCHANGED <<parts, own, store, deleted, said, rows, dropped>>

\* What is under a number: a part that somebody has removed meanwhile is passed over.
Held(number) == IF number \in DOMAIN parts THEN parts[number] ELSE NoPart

\* _prune_parts(): the oldest of this run beyond keep_parts.
PruneParts(t) ==
  LET extra  == IF KeepParts > 0 /\ Len(own) > KeepParts THEN Len(own) - KeepParts ELSE 0
      oldest == SubSeq(own, 1, extra)
  IN /\ doing[t].at = "prune"
     /\ parts' = [n \in DOMAIN parts \ ToSet(oldest) |-> parts[n]]
     /\ own'   = SubSeq(own, extra + 1, Len(own))
     /\ dropped' = dropped \o [i \in 1..Len(oldest) |-> Held(oldest[i])]
     /\ age' = IF ToSet(oldest) \intersect DOMAIN parts = {} THEN age ELSE 0
     /\ Turns(t, Idle(doing[t].lines))
     /\ Notes(t)
     /\ UNCHANGED <<files, handles, sizes, store, deleted, said, rows>>

\* close(), once the session's own thread has ended; one that types finds nothing open.
CloseRecorder ==
  /\ doing["rx"].at = "out"
  /\ handles' = FALSE
  /\ overlap' = (overlap \/ doing["tx"].at # "out")
  /\ UNCHANGED <<files, parts, own, sizes, doing, age, store, deleted, said, rows, dropped>>

Rotate(t) ==
  Number(t) \/ CloseFiles(t) \/ RenameFiles(t) \/ RotationRaises(t) \/ OpenNext(t) \/ PruneParts(t)

-----------------------------------------------------------------------------
(* Retention: another run starts, and prunes the store *)

SizeOf(part) == Len(part.raw) + Len(part.lines)

\* scan_sessions(), the other session first, being the older name.
Scan ==
  LET this == [name |-> 2, age |-> age,
               size |-> SizeOf(files) + MapThenSumSet(LAMBDA n : SizeOf(parts[n]), DOMAIN parts)]
  IN (IF deleted THEN {} ELSE {this})
     \union (IF store.there THEN {[name |-> 1, age |-> store.age, size |-> store.size]} ELSE {})

\* apply_retention(): those too old, and of the rest the oldest until the store fits.
Pruned(sessions) ==
  LET aged      == {s \in sessions : MaxAge > 0 /\ s.age > MaxAge}
      survivors == sessions \ aged
      Older(x, s)  == x.age > s.age \/ (x.age = s.age /\ x.name < s.name)
      Remaining(s) == MapThenSumSet(LAMBDA x : x.size, {x \in survivors : ~Older(x, s)})
  IN aged \union {s \in survivors : MaxTotal > 0 /\ Remaining(s) > MaxTotal}

\* Nobody passes `protect`, and the folder's time is not that of the files in it.
Retain ==
  LET gone == {s.name : s \in Pruned(Scan)} IN
  /\ store'   = [store EXCEPT !.there = @ /\ 1 \notin gone]
  /\ deleted' = (deleted \/ 2 \in gone)
  /\ IF 2 \in gone
       THEN files' = NoFiles /\ parts' = [n \in {} |-> Earlier]
       ELSE UNCHANGED <<files, parts>>
  /\ UNCHANGED <<handles, own, sizes, doing, age, said, rows, dropped, overlap>>

Day ==
  /\ age <= MaxAge
  /\ age' = age + 1 /\ store' = [store EXCEPT !.age = @ + 1]
  /\ UNCHANGED <<files, handles, parts, own, sizes, doing, deleted, said, rows, dropped, overlap>>

-----------------------------------------------------------------------------
RecordingTypeOK ==
  /\ files.there \in BOOLEAN /\ handles \in BOOLEAN /\ deleted \in BOOLEAN
  /\ DOMAIN parts \subseteq Nat \ {0} /\ ToSet(own) \subseteq Nat \ {0}
  /\ sizes \in [raw : 0..MaxChunks, text : Nat]
  /\ \A t \in Writers :
       /\ doing[t].at \in {"out", "lines", "number", "close", "rename", "open", "prune"}
       /\ (doing[t].at = "out") => (doing[t].lines = <<>>)
  /\ (handles /\ ~deleted /\ ~overlap) => (files.there /\ Len(files.lines) = sizes.text)
  /\ age \in Nat /\ store.there \in BOOLEAN

\* What this run has written, oldest first: the parts dropped, those kept, the current files.
Written ==
  dropped \o [i \in 1..Len(own) |-> parts[own[i]]] \o <<[raw |-> files.raw, lines |-> files.lines]>>

\* The chunks in the parts up to the k-th.
ChunksUpTo(k) == FlattenSeq([i \in 1..k |-> Written[i].raw])

EarlierRunsKept(earlier) == \A n \in 1..earlier : n \in DOMAIN parts /\ parts[n] = Earlier

Chunks == FlattenSeq([i \in DOMAIN Written |-> Written[i].raw])
Lines  == FlattenSeq([i \in DOMAIN Written |-> Written[i].lines])

InOrder(t, lines) ==
  \A i, j \in DOMAIN lines : i < j /\ lines[i].by = t /\ lines[j].by = t => lines[i].n < lines[j].n

\* Every chunk, in order; and every line that was handed over, on disk or yet to be written,
\* those of a thread in order, and so none twice.
NothingMissing ==
  /\ Chunks = [i \in 1..said |-> i]
  /\ ToSet(rows) = ToSet(Lines) \union UNION {ToSet(doing[t].lines) : t \in Writers}
  /\ \A t \in Writers : InOrder(t, Lines \o doing[t].lines)

\* A line is in the part that holds its chunk, or after the chunk that ended a part.
SameSpan ==
  \A k \in DOMAIN Written : \A i \in DOMAIN Written[k].lines :
    LET line == Written[k].lines[i] IN
      (line.by = "rx") =>
                        \/ line.chunk \in ToSet(Written[k].raw)
                        \/ /\ ChunksUpTo(k - 1) # <<>>
                           /\ Last(ChunksUpTo(k - 1)) = line.chunk

SizesCapped ==
  /\ \A i \in DOMAIN own : /\ Len(parts[own[i]].raw) <= 2 * RotateAt
                           /\ Len(parts[own[i]].lines) <= RotateAt
  /\ (KeepParts > 0 /\ \A t \in Writers : ~Rotating(t)) => Len(own) <= KeepParts
=============================================================================
