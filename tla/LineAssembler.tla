---------------------------- MODULE LineAssembler -----------------------------
(***************************************************************************)
(* The line assembler (core/line_assembler.py): a stream of bytes in any   *)
(* chunks, out come lines.  What a device says ends with \n, its trailing  *)
(* \r stripped; what a person types ends with \r, \n or both, also when    *)
(* the two come in different chunks.                                       *)
(*                                                                         *)
(* An assembler is [buf, after]: the partial line, and _after_cr.  The     *)
(* operators return it as it is afterwards, with the lines that ended.     *)
(***************************************************************************)
EXTENDS Naturals, Sequences, FiniteSets, FiniteSetsExt, SequencesExt

LF == 10
CR == 13
Byte == 0..255

New == [buf |-> <<>>, after |-> FALSE, lines |-> <<>>]

Assemblers == [buf : Seq(Byte), after : BOOLEAN, lines : Seq(Seq(Byte))]

\* rstrip(b"\r")
Stripped(raw) == SubSeq(raw, 1, Max({0} \union {i \in DOMAIN raw : raw[i] # CR}))

\* feed() of what a device says: the buffer is cut behind each \n there is in it by now.
Feed(a, data) ==
  LET held == a.buf \o data
      cuts == <<0>> \o SetToSortSeq({i \in DOMAIN held : held[i] = LF}, <)
  IN [a EXCEPT
       !.buf = SubSeq(held, Last(cuts) + 1, Len(held)),
       !.lines = a.lines \o [k \in 1..Len(cuts) - 1 |->
                              Stripped(SubSeq(held, cuts[k] + 1, cuts[k + 1] - 1))]]

\* One byte of what a person types: a byte of a line, or the end of one, or the rest of it.
Types(a, byte) ==
  IF byte = LF /\ a.after
    THEN [a EXCEPT !.after = FALSE]
    ELSE IF byte \in {CR, LF}
           THEN [buf |-> <<>>, after |-> byte = CR, lines |-> Append(a.lines, a.buf)]
           ELSE [a EXCEPT !.buf = Append(@, byte), !.after = FALSE]

\* _feed_cr()
FeedCr(a, data) == FoldLeft(Types, a, data)

\* flush(): what there is of a line goes out, if there is any.
Flush(a) ==
  IF a.buf = <<>> THEN a ELSE [buf |-> <<>>, after |-> FALSE, lines |-> Append(a.lines, Stripped(a.buf))]

-----------------------------------------------------------------------------
(* What the lines of a stream are, whatever the chunks *)

\* The positions that end a line typed: each terminator but the \n of an \r\n.
EndsTyped(stream) ==
  {i \in DOMAIN stream : stream[i] = CR \/ (stream[i] = LF /\ (i = 1 \/ stream[i - 1] # CR))}

\* The bytes between two ends, less the \n that belongs to the first.
TypedLines(stream) ==
  LET ends == <<0>> \o SetToSortSeq(EndsTyped(stream), <) IN
  [k \in 1..Len(ends) - 1 |->
     SelectSeq(SubSeq(stream, ends[k] + 1, ends[k + 1] - 1), LAMBDA b : b # LF)]

\* A device's lines: the buffer never holds a \n, and a line no \r at its end.
DeviceLines(stream) ==
  LET ends == <<0>> \o SetToSortSeq({i \in DOMAIN stream : stream[i] = LF}, <) IN
  [k \in 1..Len(ends) - 1 |->
     LET first == ends[k] + 1
         kept  == {i \in first..ends[k + 1] - 1 : \E j \in i..ends[k + 1] - 1 : stream[j] # CR}
     IN [i \in 1..Cardinality(kept) |-> stream[first + i - 1]]]

\* The lines do not depend on how the stream was cut into chunks, and are those of the stream.
ChunksDoNotMatter(stream) ==
  \A cut \in 0..Len(stream) :
    LET one == SubSeq(stream, 1, cut)
        two == SubSeq(stream, cut + 1, Len(stream))
    IN /\ FeedCr(FeedCr(New, one), two).lines = TypedLines(stream)
       /\ Feed(Feed(New, one), two).lines = DeviceLines(stream)

-----------------------------------------------------------------------------
\* What a typed line is made of: no terminator is in the buffer or in a line that was given out,
\* and behind an \r that ended a line the buffer is empty.
NoEnd(bytes) == \A i \in DOMAIN bytes : bytes[i] \notin {CR, LF}

Typed(a) ==
  /\ a \in Assemblers
  /\ NoEnd(a.buf)
  /\ \A k \in DOMAIN a.lines : NoEnd(a.lines[k])
  /\ a.after => a.buf = <<>>
===============================================================================
