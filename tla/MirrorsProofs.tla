----------------------------- MODULE MirrorsProofs -----------------------------
(***************************************************************************)
(* What holds of the path from the device to the mirrors for any number of *)
(* items and mirrors, any watermark and any age, and of the assembler that *)
(* makes lines of what is typed there for every byte and every state.      *)
(*                                                                         *)
(* A mirror's bytes lie in five places: what the thread shows it, its      *)
(* buffer, the pty, what its reader got and what was thrown away with the  *)
(* reader.  RxSteps says which of four ways a step of anybody leaves those *)
(* places for one mirror, TxSteps the same of what the program at the      *)
(* mirror types, and the invariants are kept case by case.                 *)
(***************************************************************************)
EXTENDS DevicePath, LineAssembler, SequenceTheorems, TLAPS

USE MirrorAssumption

-----------------------------------------------------------------------------
(* Sequences *)

LEMMA SetOfConcat ==
  ASSUME NEW S, NEW s \in Seq(S), NEW t \in Seq(S)
  PROVE  /\ s \o t \in Seq(S)
         /\ ToSet(s \o t) = ToSet(s) \union ToSet(t)
<1> DEFINE c == s \o t
<1>1. /\ c \in Seq(S) /\ Len(c) = Len(s) + Len(t)
      /\ \A i \in 1..(Len(s) + Len(t)) : c[i] = IF i <= Len(s) THEN s[i] ELSE t[i - Len(s)]
  BY ConcatProperties
<1>2. /\ DOMAIN s = 1..Len(s) /\ DOMAIN t = 1..Len(t) /\ DOMAIN c = 1..Len(c)
      /\ Len(s) \in Nat /\ Len(t) \in Nat
  BY <1>1
<1> HIDE DEF c
<1>3. ASSUME NEW i \in DOMAIN c PROVE c[i] \in ToSet(s) \union ToSet(t)
  <2>1. i <= Len(s) => i \in DOMAIN s /\ c[i] = s[i]
    BY <1>1, <1>2
  <2>2. ~(i <= Len(s)) => i - Len(s) \in DOMAIN t /\ c[i] = t[i - Len(s)]
    BY <1>1, <1>2
  <2> QED BY <2>1, <2>2 DEF ToSet
<1>4. ASSUME NEW i \in DOMAIN s PROVE s[i] \in ToSet(c)
  <2>1. i \in DOMAIN c /\ c[i] = s[i]
    BY <1>1, <1>2
  <2> QED BY <2>1 DEF ToSet
<1>5. ASSUME NEW i \in DOMAIN t PROVE t[i] \in ToSet(c)
  <2>1. i + Len(s) \in DOMAIN c /\ c[i + Len(s)] = t[i]
    BY <1>1, <1>2
  <2> QED BY <2>1 DEF ToSet
<1>6. ToSet(c) = ToSet(s) \union ToSet(t)
  BY <1>3, <1>4, <1>5 DEF ToSet
<1> QED BY <1>1, <1>6 DEF c

LEMMA SetsOfConcat == \A S : \A s, t \in Seq(S) : ToSet(s \o t) = ToSet(s) \union ToSet(t)
BY SetOfConcat

LEMMA SetOfOne == \A x : ToSet(<<x>>) = {x}
<1> TAKE x
<1>1. DOMAIN <<x>> = {1} /\ <<x>>[1] = x OBVIOUS
<1> QED BY <1>1 DEF ToSet

LEMMA SetsOfAppend ==
  \A S : \A s \in Seq(S), x \in S :
    Append(s, x) \in Seq(S) /\ ToSet(Append(s, x)) = ToSet(s) \union {x}
<1> TAKE S
<1> TAKE s \in Seq(S), x \in S
<1> DEFINE a == Append(s, x)
<1>1. /\ a \in Seq(S) /\ Len(a) = Len(s) + 1 /\ Len(s) \in Nat
      /\ a[Len(s) + 1] = x /\ \A i \in 1..Len(s) : a[i] = s[i]
  BY AppendProperties
<1>2. DOMAIN a = 1..(Len(s) + 1) /\ DOMAIN s = 1..Len(s)
  BY <1>1
<1> HIDE DEF a
<1>3. \A i \in DOMAIN a : i \in DOMAIN s \/ i = Len(s) + 1
  BY <1>1, <1>2
<1>4. DOMAIN s \subseteq DOMAIN a /\ Len(s) + 1 \in DOMAIN a
  BY <1>1, <1>2
<1>5. \A i \in DOMAIN s : a[i] = s[i]
  BY <1>1, <1>2
<1>6. ToSet(a) = ToSet(s) \union {x}
  BY <1>1, <1>3, <1>4, <1>5 DEF ToSet
<1> QED BY <1>1, <1>6 DEF a

LEMMA SetOfAppend ==
  ASSUME NEW S, NEW s \in Seq(S), NEW x \in S
  PROVE  /\ Append(s, x) \in Seq(S) /\ Append(s, x) = s \o <<x>>
         /\ ToSet(Append(s, x)) = ToSet(s) \union {x}
<1>1. Append(s, x) = s \o <<x>>
  BY AppendIsConcat
<1>2. Append(s, x) \in Seq(S) /\ ToSet(Append(s, x)) = ToSet(s) \union {x}
  BY SetsOfAppend, Zenon
<1> QED BY <1>1, <1>2

LEMMA SetIsOf == ASSUME NEW S, NEW s \in Seq(S) PROVE ToSet(s) \subseteq S
BY DEF ToSet

LEMMA SetOfNone == ToSet(<<>>) = {}
BY DEF ToSet

\* A sequence cut in two.
LEMMA Cut ==
  ASSUME NEW S, NEW s \in Seq(S), NEW k \in 0..Len(s)
  PROVE  /\ SubSeq(s, 1, k) \in Seq(S) /\ SubSeq(s, k + 1, Len(s)) \in Seq(S)
         /\ Len(SubSeq(s, 1, k)) = k /\ Len(SubSeq(s, k + 1, Len(s))) = Len(s) - k
         /\ \A i \in 1..k : SubSeq(s, 1, k)[i] = s[i]
         /\ \A i \in 1..(Len(s) - k) : SubSeq(s, k + 1, Len(s))[i] = s[k + i]
         /\ SubSeq(s, 1, k) \o SubSeq(s, k + 1, Len(s)) = s
<1> DEFINE n == Len(s)
           a == SubSeq(s, 1, k)
           b == SubSeq(s, k + 1, n)
<1>1. n \in Nat /\ k \in Nat /\ k <= n /\ \A i \in 1..n : s[i] \in S
  OBVIOUS
<1>2. a \in Seq(S) /\ Len(a) = (IF 1 <= k THEN k - 1 + 1 ELSE 0) /\ \A i \in 1..(k - 1 + 1) :
        a[i] = s[1 + i - 1]
  <2>1. 1 \in Int /\ k \in Int /\ \A i \in 1..k : s[i] \in S
    BY <1>1
  <2> HIDE DEF n
  <2> QED BY <2>1, SubSeqProperties
<1>3. b \in Seq(S) /\ Len(b) = (IF k + 1 <= n THEN n - (k + 1) + 1 ELSE 0)
      /\ \A i \in 1..(n - (k + 1) + 1) : b[i] = s[(k + 1) + i - 1]
  <2>1. k + 1 \in Int /\ n \in Int /\ \A i \in (k + 1)..n : s[i] \in S
    BY <1>1
  <2> HIDE DEF n
  <2> QED BY <2>1, SubSeqProperties
<1>4. a \o b = s
  <2>1. 1 \in 1..(n + 1) /\ k \in (1 - 1)..n /\ n \in k..n
    BY <1>1
  <2>2. a \o b = SubSeq(s, 1, n)
    BY <2>1, ConcatAdjacentSubSeq
  <2> QED BY <2>2, SubSeqFull
<1> HIDE DEF a, b, n
<1>5. Len(a) = k /\ \A i \in 1..k : a[i] = s[i]
  <2>1. k - 1 + 1 = k /\ \A i \in 1..k : 1 + i - 1 = i
    BY <1>1
  <2> QED BY <1>1, <1>2, <2>1
<1>6. Len(b) = n - k /\ \A i \in 1..(n - k) : b[i] = s[k + i]
  <2>1. n - (k + 1) + 1 = n - k /\ \A i \in 1..(n - k) : (k + 1) + i - 1 = k + i
    BY <1>1
  <2> QED BY <1>1, <1>3, <2>1
<1> QED BY <1>2, <1>3, <1>4, <1>5, <1>6 DEF a, b, n

LEMMA SetOfTail ==
  ASSUME NEW S, NEW s \in Seq(S), s # <<>>
  PROVE  /\ Head(s) \in S /\ Tail(s) \in Seq(S)
         /\ s = <<Head(s)>> \o Tail(s)
         /\ ToSet(s) = {Head(s)} \union ToSet(Tail(s))
<1>1. /\ Head(s) \in S /\ Tail(s) \in Seq(S) /\ Len(Tail(s)) = Len(s) - 1
      /\ \A i \in 1..Len(Tail(s)) : Tail(s)[i] = s[i + 1]
  BY HeadTailProperties
<1>2. <<Head(s)>> \in Seq(S) /\ Len(<<Head(s)>>) = 1 /\ <<Head(s)>>[1] = s[1]
  BY <1>1
<1>a. PICK h, t \in Seq(S) : h = <<Head(s)>> /\ t = Tail(s)
  BY <1>1, <1>2
<1>3. h \o t \in Seq(S) /\ Len(h \o t) = Len(s) /\ \A i \in 1..Len(s) : (h \o t)[i] = s[i]
  <2>1. /\ h \o t \in Seq(S) /\ Len(h \o t) = Len(h) + Len(t)
        /\ \A i \in 1..(Len(h) + Len(t)) : (h \o t)[i] = IF i <= Len(h) THEN h[i] ELSE t[i - Len(h)]
    BY ConcatProperties
  <2>2. Len(s) \in Nat /\ Len(h) = 1 /\ Len(t) = Len(s) - 1 /\ h[1] = s[1]
        /\ \A i \in 1..(Len(s) - 1) : t[i] = s[i + 1]
    BY <1>1, <1>2, <1>a
  <2>3. Len(h) + Len(t) = Len(s)
    BY <2>2
  <2>4. ASSUME NEW i \in 1..Len(s) PROVE (h \o t)[i] = s[i]
    <3>1. i = 1 => (h \o t)[i] = s[i]
      BY <2>1, <2>2, <2>3
    <3>2. i > 1 => i - 1 \in 1..(Len(s) - 1) /\ ~(i <= 1) /\ (i - 1) + 1 = i
      BY <2>2
    <3>3. i > 1 => (h \o t)[i] = t[i - 1] /\ t[i - 1] = s[i]
      BY <2>1, <2>2, <2>3, <3>2
    <3>4. i = 1 \/ i > 1
      BY <2>2
    <3> QED BY <3>1, <3>3, <3>4
  <2> QED BY <2>1, <2>3, <2>4
<1>4. s = h \o t
  BY <1>3, SeqEqual
<1>5. ToSet(h \o t) = ToSet(h) \union ToSet(t)
  BY SetsOfConcat
<1> QED BY <1>1, <1>a, <1>4, <1>5, SetOfOne

-----------------------------------------------------------------------------
(* What a step of the mirrors is, and their types *)

MirrorNext ==
  \/ MirrorStep
  \/ group # "absent" /\ Broadcast
  \/ Forwarded \/ StopMirrors
  \/ \E m \in Mirrors, ends \in BOOLEAN : ClientTypes(m, ends)

\* Every step is one of the mirrors, or leaves them alone.
LEMMA MirrorSteps ==
  ASSUME use \in Uses, [Next]_vars
  PROVE  use' = use /\ (MirrorNext \/ UNCHANGED mirrorVars)
<1>1. use.types \subseteq Mirrors
  BY UsesAssumption
<1>2. CASE Session \/ Writers \/ UiWrites \/ Far \/ ForwardBegins
  BY <1>2 DEF Session, Writers, UiWrites, Far, ForwardBegins
<1>3. CASE Hear
  BY <1>3 DEF Hear, MirrorNext
<1>4. CASE Clients
  BY <1>1, <1>4 DEF Clients, MirrorNext
<1>5. CASE ForwardFails \/ ForwardEnds
  BY <1>5 DEF ForwardFails, ForwardEnds, MirrorNext
<1>6. CASE UNCHANGED vars
  BY <1>6 DEF vars
<1> QED BY <1>2, <1>3, <1>4, <1>5, <1>6 DEF Next

\* What type the parts have, for one mirror.
LEMMA MirrorTypes ==
  ASSUME MirrorTypeOK, NEW m \in Mirrors
  PROVE  /\ out[m] \in Seq(Nat) /\ kernel[m] \in Seq(Nat) /\ got[m] \in Seq(Nat)
         /\ typed[m] \in Seq(Unit) /\ txline[m] \in Seq(Unit) /\ sentTx[m] \in Seq(Unit)
         /\ Len(out[m]) <= QueueMax /\ Len(kernel[m]) <= PtyRoom /\ Len(txline[m]) < LineMax
         /\ Len(out[m]) \in Nat /\ Len(kernel[m]) \in Nat
         /\ serve.m \in Mirrors /\ serve.todo \subseteq Event /\ serve.wrote \in 0..PtyRoom
         /\ serve.ready \in Seq(Unit) /\ serve.want \subseteq Mirrors
         /\ pieces[m] \subseteq Nat /\ typedAll[m] \in 0..MaxTyped /\ broadcast \in Nat
         /\ lost[m] \in [Losses -> SUBSET Nat] /\ idle[m] \in 0..MaxLag
<1>1. /\ out[m] \in Seq(Nat) /\ kernel[m] \in Seq(Nat) /\ got[m] \in Seq(Nat)
      /\ typed[m] \in Seq(Unit) /\ txline[m] \in Seq(Unit) /\ sentTx[m] \in Seq(Unit)
      /\ Len(out[m]) <= QueueMax /\ Len(kernel[m]) <= PtyRoom /\ Len(txline[m]) < LineMax
  BY DEF MirrorTypeOK
<1>2. Len(out[m]) \in Nat /\ Len(kernel[m]) \in Nat
  BY <1>1
<1>3. /\ serve.m \in Mirrors /\ serve.todo \subseteq Event /\ serve.wrote \in 0..PtyRoom
      /\ serve.ready \in Seq(Unit) /\ serve.want \subseteq Mirrors
  BY DEF MirrorTypeOK
<1>4. /\ pieces[m] \subseteq Nat /\ typedAll[m] \in 0..MaxTyped /\ broadcast \in Nat
      /\ lost[m] \in [Losses -> SUBSET Nat] /\ idle[m] \in 0..MaxLag
  BY DEF MirrorTypeOK
<1> QED BY <1>1, <1>2, <1>3, <1>4

LEMMA LeftTypes ==
  ASSUME MirrorTypeOK, NEW m \in Mirrors
  PROVE  /\ Left(m) \in Seq(Nat) /\ Len(Left(m)) <= Len(out[m])
         /\ serve.wrote <= Len(out[m]) =>
              /\ SubSeq(out[m], 1, serve.wrote) \o Left(m) = out[m]
              /\ SubSeq(out[m], 1, serve.wrote) \in Seq(Nat)
<1>1. out[m] \in Seq(Nat) /\ serve.wrote \in Nat /\ Len(out[m]) \in Nat
  BY MirrorTypes
<1>2. CASE serve.wrote <= Len(out[m])
  <2>1. serve.wrote \in 0..Len(out[m])
    BY <1>1, <1>2
  <2>a. PICK s \in Seq(Nat) : s = out[m]
    BY <1>1
  <2>2. PICK k \in 0..Len(s) : k = serve.wrote
    BY <2>1, <2>a
  <2>3. /\ SubSeq(s, 1, k) \in Seq(Nat) /\ SubSeq(s, k + 1, Len(s)) \in Seq(Nat)
        /\ Len(SubSeq(s, k + 1, Len(s))) = Len(s) - k
        /\ SubSeq(s, 1, k) \o SubSeq(s, k + 1, Len(s)) = s
    BY Cut
  <2>4. Len(s) - k <= Len(s)
    OBVIOUS
  <2> QED BY <2>a, <2>2, <2>3, <2>4 DEF Left
<1>3. CASE ~(serve.wrote <= Len(out[m]))
  <2>1. serve.wrote + 1 \in Int /\ Len(out[m]) \in Int /\ Len(out[m]) < serve.wrote + 1
    BY <1>1, <1>3
  <2>2. SubSeq(out[m], serve.wrote + 1, Len(out[m])) = <<>>
    BY <2>1, SubSeqEmpty
  <2> QED BY <1>1, <1>3, <2>2 DEF Left
<1> QED BY <1>2, <1>3

Serving == [at : {"top", "select", "work", "written", "forward", "gone"}, todo : SUBSET Event,
            want : SUBSET Mirrors, m : Mirrors, wrote : 0..PtyRoom, ready : Seq(Unit)]

LEMMA ServingTypes ==
  ASSUME MirrorTypeOK
  PROVE  /\ serve \in Serving
         /\ \A todo \in SUBSET Event : NextWork(todo) \in {"top", "work"}
         /\ \A e \in serve.todo : e \in Event /\ e.m \in Mirrors /\ Back(e) \in {"top", "work"}
                                  /\ serve.todo \ {e} \in SUBSET Event
BY DEF MirrorTypeOK, Serving, Event, NextWork, Back

LEMMA PumpRxTypes ==
  ASSUME MirrorTypeOK, NEW e \in serve.todo, PumpRx(e)
  PROVE  /\ serve' \in Serving /\ serve'.at = "written" /\ serve'.m = e.m
         /\ serve'.wrote <= Len(out[e.m]) /\ serve'.wrote <= PtyRoom - Len(kernel[e.m])
         /\ kernel' = [kernel EXCEPT ![e.m] = @ \o SubSeq(out[e.m], 1, serve'.wrote)]
         /\ SubSeq(out[e.m], 1, serve'.wrote) \in Seq(Nat) /\ kernel'[e.m] \in Seq(Nat)
         /\ Len(kernel'[e.m]) = Len(kernel[e.m]) + serve'.wrote
<1> DEFINE room  == PtyRoom - Len(kernel[e.m])
           wrote == IF Len(out[e.m]) < room THEN Len(out[e.m]) ELSE room
<1>1. /\ out[e.m] \in Seq(Nat) /\ kernel[e.m] \in Seq(Nat) /\ Len(kernel[e.m]) <= PtyRoom
      /\ Len(out[e.m]) \in Nat /\ Len(kernel[e.m]) \in Nat /\ e.m \in Mirrors /\ serve \in Serving
      /\ serve.todo \ {e} \in SUBSET Event
  BY MirrorTypes, ServingTypes
<1>2. wrote \in 0..Len(out[e.m]) /\ wrote \in 0..PtyRoom /\ wrote <= room
  <2>1. room \in 0..PtyRoom /\ PtyRoom \in Nat
    BY <1>1
  <2>2. Len(out[e.m]) \in Nat
    BY <1>1
  <2> HIDE DEF room
  <2> QED BY <2>1, <2>2
<1>3. /\ kernel' = [kernel EXCEPT ![e.m] = @ \o SubSeq(out[e.m], 1, wrote)]
      /\ serve'  = [serve EXCEPT !.at = "written", !.m = e.m, !.wrote = wrote, !.todo = @ \ {e}]
  BY DEF PumpRx
<1> HIDE DEF wrote
<1>4. SubSeq(out[e.m], 1, wrote) \in Seq(Nat) /\ Len(SubSeq(out[e.m], 1, wrote)) = wrote
  BY <1>1, <1>2, Cut, Zenon
<1>5. serve' \in Serving /\ serve'.at = "written" /\ serve'.m = e.m /\ serve'.wrote = wrote
  BY <1>1, <1>2, <1>3 DEF Serving
<1>6. kernel'[e.m] = kernel[e.m] \o SubSeq(out[e.m], 1, wrote)
  BY <1>1, <1>3 DEF MirrorTypeOK
<1>7. kernel'[e.m] \in Seq(Nat) /\ Len(kernel'[e.m]) = Len(kernel[e.m]) + wrote
  BY <1>1, <1>4, <1>6, ConcatProperties
<1>8. wrote <= Len(out[e.m]) /\ wrote <= PtyRoom - Len(kernel[e.m])
  BY <1>1, <1>2
<1> HIDE DEF room
<1>9. kernel' = [kernel EXCEPT ![e.m] = kernel[e.m] \o SubSeq(out[e.m], 1, serve'.wrote)]
  BY <1>3, <1>5
<1> QED BY <1>4, <1>5, <1>7, <1>8, <1>9

\* What line mode has cut off: up to the last unit that ends a line, or all if too much is left.
CutAt(buf, cut) ==
  /\ cut \in 0..Len(buf)
  /\ Len(buf) - cut < LineMax
  /\ merge = "line" /\ cut > 0 =>
       \/ buf[cut].ends
       \/ cut >= LineMax /\ \A j \in (cut + 1 - LineMax)..cut : ~buf[j].ends

LEMMA PumpTxIs ==
  ASSUME MirrorTypeOK, NEW e \in serve.todo, PumpTx(e)
  PROVE  \E buf \in Seq(Unit) : \E cut \in 0..Len(buf) :
           /\ buf = txline[e.m] \o typed[e.m] /\ CutAt(buf, cut)
           /\ txline' = [txline EXCEPT ![e.m] = SubSeq(buf, cut + 1, Len(buf))]
           /\ serve' = [serve EXCEPT !.m = e.m, !.ready = SubSeq(buf, 1, cut), !.todo = @ \ {e},
                                     !.at = IF cut = 0 THEN Back(e) ELSE "forward"]
           /\ serve' \in Serving
<1>0. e.m \in Mirrors /\ serve \in Serving /\ serve.todo \ {e} \in SUBSET Event /\ Back(e) \in {"top", "work"}
  BY ServingTypes
<1>1. txline[e.m] \in Seq(Unit) /\ typed[e.m] \in Seq(Unit)
  BY <1>0, MirrorTypes
<1>2. PICK buf \in Seq(Unit) : buf = txline[e.m] \o typed[e.m]
  BY <1>1, ConcatProperties
<1>a. \E k \in 0..Len(buf) :
        /\ IsLastEnd(buf, k)
        /\ LET cut == IF merge = "raw" \/ Len(buf) - k >= LineMax THEN Len(buf) ELSE k
           IN /\ txline' = [txline EXCEPT ![e.m] = SubSeq(buf, cut + 1, Len(buf))]
              /\ serve'  = [serve EXCEPT !.m = e.m, !.ready = SubSeq(buf, 1, cut), !.todo = @ \ {e},
                                         !.at = IF cut = 0 THEN Back(e) ELSE "forward"]
  BY <1>2, Zenon DEF PumpTx
<1>b. PICK k \in 0..Len(buf) :
        /\ IsLastEnd(buf, k)
        /\ LET cut == IF merge = "raw" \/ Len(buf) - k >= LineMax THEN Len(buf) ELSE k
           IN /\ txline' = [txline EXCEPT ![e.m] = SubSeq(buf, cut + 1, Len(buf))]
              /\ serve'  = [serve EXCEPT !.m = e.m, !.ready = SubSeq(buf, 1, cut), !.todo = @ \ {e},
                                         !.at = IF cut = 0 THEN Back(e) ELSE "forward"]
  BY <1>a, Zenon
<1>3. PICK cut :
        /\ IsLastEnd(buf, k)
        /\ cut = (IF merge = "raw" \/ Len(buf) - k >= LineMax THEN Len(buf) ELSE k)
        /\ txline' = [txline EXCEPT ![e.m] = SubSeq(buf, cut + 1, Len(buf))]
        /\ serve'  = [serve EXCEPT !.m = e.m, !.ready = SubSeq(buf, 1, cut), !.todo = @ \ {e},
                                   !.at = IF cut = 0 THEN Back(e) ELSE "forward"]
  BY <1>b, Zenon
<1>4. cut \in 0..Len(buf) /\ Len(buf) \in Nat
  BY <1>3
<1>5. CutAt(buf, cut)
  BY <1>3, <1>4 DEF CutAt, IsLastEnd
<1>6. SubSeq(buf, 1, cut) \in Seq(Unit)
  BY <1>4, Cut
<1>7. serve' \in Serving
  BY <1>0, <1>3, <1>6 DEF Serving
<1> QED BY <1>2, <1>3, <1>4, <1>5, <1>7

LEMMA ForwardedIs ==
  ASSUME MirrorTypeOK, Forwarded
  PROVE  \E ready \in Seq(Unit) : \E k \in 1..Len(ready) :
           /\ ready = serve.ready /\ IsPiece(ready, k)
           /\ sentTx' = [sentTx EXCEPT ![serve.m] = @ \o SubSeq(ready, 1, k)]
           /\ pieces' = [pieces EXCEPT ![serve.m] = @ \union {Len(sentTx[serve.m]) + k}]
           /\ serve' = [serve EXCEPT !.ready = SubSeq(ready, k + 1, Len(ready)),
                                     !.at = IF k < Len(ready) THEN "forward" ELSE NextWork(serve.todo)]
           /\ serve' \in Serving
<1>1. PICK ready \in Seq(Unit) : ready = serve.ready
  BY DEF MirrorTypeOK
<1>2. PICK k \in 1..Len(ready) :
        /\ IsPiece(ready, k)
        /\ sentTx' = [sentTx EXCEPT ![serve.m] = @ \o SubSeq(ready, 1, k)]
        /\ pieces' = [pieces EXCEPT ![serve.m] = @ \union {Len(sentTx[serve.m]) + k}]
        /\ serve'  = [serve EXCEPT !.ready = SubSeq(@, k + 1, Len(@)),
                                   !.at = IF k < Len(ready) THEN "forward" ELSE NextWork(serve.todo)]
  BY <1>1 DEF Forwarded
<1>3. k \in 0..Len(ready)
  BY <1>2
<1>4. SubSeq(ready, k + 1, Len(ready)) \in Seq(Unit)
  BY <1>3, Cut
<1>5. serve \in Serving /\ NextWork(serve.todo) \in {"top", "work"}
  BY ServingTypes DEF Serving
<1>6. serve' = [serve EXCEPT !.ready = SubSeq(ready, k + 1, Len(ready)),
                             !.at = IF k < Len(ready) THEN "forward" ELSE NextWork(serve.todo)]
  BY <1>1, <1>2, <1>5 DEF Serving
<1>7. serve' \in Serving
  BY <1>4, <1>5, <1>6 DEF Serving
<1> QED BY <1>1, <1>2, <1>6, <1>7

LEMMA LosesTypes ==
  ASSUME MirrorTypeOK
  PROVE  \A m \in Mirrors : \A why \in Losses : \A chunks \in SUBSET Nat :
           [lost[m] EXCEPT ![why] = @ \union chunks] \in [Losses -> SUBSET Nat]
<1> TAKE m \in Mirrors
<1> TAKE why \in Losses
<1> TAKE chunks \in SUBSET Nat
<1>1. PICK f \in [Losses -> SUBSET Nat] : f = lost[m]
  BY MirrorTypes
<1>2. f[why] \union chunks \in SUBSET Nat
  OBVIOUS
<1>3. [f EXCEPT ![why] = @ \union chunks] \in [Losses -> SUBSET Nat]
  BY <1>2
<1> QED BY <1>1, <1>3, Zenon

LEMMA PumpTyped ==
  ASSUME MirrorTypeOK, NEW e, PumpRx(e) \/ PumpFails(e) \/ PumpTx(e) \/ PumpClosed(e)
  PROVE  MirrorTypeOK'
<1>1. e \in serve.todo
  BY DEF PumpRx, PumpFails, PumpTx, PumpClosed, Takes
<1>2. /\ e.m \in Mirrors /\ serve \in Serving /\ serve.todo \ {e} \in SUBSET Event
      /\ Back(e) \in {"top", "work"}
  BY <1>1, ServingTypes
<1>3. CASE PumpRx(e)
  <2>1. kernel' \in [Mirrors -> Seq(Nat)] /\ \A m \in Mirrors : Len(kernel'[m]) <= PtyRoom
    <3>1. kernel'[e.m] \in Seq(Nat) /\ Len(kernel'[e.m]) <= PtyRoom
      <4>1. Len(kernel[e.m]) \in Nat /\ serve'.wrote \in Nat
        BY <1>1, <1>2, <1>3, PumpRxTypes, MirrorTypes DEF Serving
      <4> QED BY <1>1, <1>3, <4>1, PumpRxTypes
    <3>2. PICK x : kernel' = [kernel EXCEPT ![e.m] = x]
      BY <1>1, <1>3, PumpRxTypes
    <3> QED BY <1>2, <3>1, <3>2 DEF MirrorTypeOK
  <2>2. serve' \in Serving
    BY <1>1, <1>3, PumpRxTypes
  <2> QED BY <1>3, <2>1, <2>2 DEF PumpRx, MirrorTypeOK, Serving
<1>4. CASE PumpFails(e)
  <2>1. out[e.m] \in Seq(Nat) /\ ToSet(out[e.m]) \subseteq Nat
    BY <1>2, MirrorTypes, SetIsOf
  <2>2. lost' \in [Mirrors -> [Losses -> SUBSET Nat]]
    <3>1. [lost[e.m] EXCEPT !["dropped"] = @ \union ToSet(out[e.m])] \in [Losses -> SUBSET Nat]
      BY <1>2, <2>1, LosesTypes DEF Losses
    <3>2. lost' = [lost EXCEPT ![e.m] = [lost[e.m] EXCEPT !["dropped"] = @ \union ToSet(out[e.m])]]
      BY <1>2, <1>4 DEF PumpFails, Lose, MirrorTypeOK
    <3> QED BY <1>2, <3>1, <3>2 DEF MirrorTypeOK
  <2>3. out' \in [Mirrors -> Seq(Nat)] /\ \A m \in Mirrors : Len(out'[m]) <= QueueMax
    <3>1. <<>> \in Seq(Nat) /\ Len(<<>>) = 0 /\ 0 <= QueueMax
      OBVIOUS
    <3> QED BY <1>2, <1>4, <3>1 DEF PumpFails, MirrorTypeOK
  <2>4. serve' \in Serving
    BY <1>2, <1>4 DEF PumpFails, Serving
  <2> QED BY <1>4, <2>2, <2>3, <2>4 DEF PumpFails, MirrorTypeOK, Serving
<1>5. CASE PumpTx(e)
  <2>1. PICK buf \in Seq(Unit) : \E cut \in 0..Len(buf) :
           /\ CutAt(buf, cut)
           /\ txline' = [txline EXCEPT ![e.m] = SubSeq(buf, cut + 1, Len(buf))]
           /\ serve' \in Serving
    BY <1>1, <1>5, PumpTxIs
  <2>2. PICK cut \in 0..Len(buf) :
           /\ CutAt(buf, cut)
           /\ txline' = [txline EXCEPT ![e.m] = SubSeq(buf, cut + 1, Len(buf))]
           /\ serve' \in Serving
    BY <2>1
  <2>3. SubSeq(buf, cut + 1, Len(buf)) \in Seq(Unit) /\ Len(SubSeq(buf, cut + 1, Len(buf))) < LineMax
    <3>1. SubSeq(buf, cut + 1, Len(buf)) \in Seq(Unit) /\ Len(SubSeq(buf, cut + 1, Len(buf))) = Len(buf) - cut
      BY Cut
    <3> QED BY <2>2, <3>1 DEF CutAt
  <2>4. txline' \in [Mirrors -> Seq(Unit)] /\ \A m \in Mirrors : Len(txline'[m]) < LineMax
    BY <1>2, <2>2, <2>3 DEF MirrorTypeOK
  <2>5. typed' \in [Mirrors -> Seq(Unit)]
    <3>1. typed' = [typed EXCEPT ![e.m] = <<>>]
      BY <1>5, Zenon DEF PumpTx
    <3>2. <<>> \in Seq(Unit)
      OBVIOUS
    <3> QED BY <1>2, <3>1, <3>2 DEF MirrorTypeOK
  <2> QED BY <1>5, <2>2, <2>4, <2>5 DEF PumpTx, MirrorTypeOK, Serving
<1>6. CASE PumpClosed(e)
  <2>1. serve' \in Serving
    BY <1>2, <1>6 DEF PumpClosed, Serving
  <2> QED BY <1>6, <2>1 DEF PumpClosed, MirrorTypeOK, Serving
<1> QED BY <1>3, <1>4, <1>5, <1>6

LEMMA LostTypes ==
  ASSUME MirrorTypeOK
  PROVE  \A m \in Mirrors : ToSet(out[m]) \subseteq Nat /\ ToSet(kernel[m]) \subseteq Nat
BY MirrorTypes, SetIsOf

LEMMA MirrorTyped ==
  ASSUME MirrorTypeOK, MirrorNext
  PROVE  MirrorTypeOK'
<1>a. serve \in Serving /\ <<>> \in Seq(Nat) /\ Len(<<>>) = 0 /\ 0 <= QueueMax /\ 0 <= PtyRoom
      /\ 0 \in 0..MaxLag
  BY ServingTypes
<1>1. CASE Broadcast
  <2>1. \A m \in Mirrors : Append(out[m], broadcast + 1) \in Seq(Nat)
                           /\ Len(Append(out[m], broadcast + 1)) = Len(out[m]) + 1 /\ Len(out[m]) \in Nat
    BY MirrorTypes
  <2>2. broadcast' \in Nat
    BY <1>1 DEF Broadcast, MirrorTypeOK
  <2>3. out' \in [Mirrors -> Seq(Nat)] /\ \A m \in Mirrors : Len(out'[m]) <= QueueMax
    <3>1. ASSUME NEW m \in Mirrors
          PROVE  (IF Fits(m) THEN Append(out[m], broadcast + 1) ELSE out[m]) \in Seq(Nat)
                                      /\ Len(IF Fits(m) THEN Append(out[m],
                                         broadcast + 1) ELSE out[m]) <= QueueMax
      BY <2>1, MirrorTypes DEF Fits
    <3>2. CASE group \in {"running", "stopping"}
      <4>1. out' = [m \in Mirrors |-> IF Fits(m) THEN Append(out[m], broadcast + 1) ELSE out[m]]
        BY <1>1, <3>2 DEF Broadcast
      <4> QED BY <3>1, <4>1
    <3>3. CASE group \notin {"running", "stopping"}
      BY <1>1, <3>3 DEF Broadcast, MirrorTypeOK
    <3> QED BY <3>2, <3>3
  <2>4. idle' \in [Mirrors -> 0..MaxLag]
    BY <1>1, <1>a DEF Broadcast, MirrorTypeOK
  <2>5. lost' \in [Mirrors -> [Losses -> SUBSET Nat]]
    <3>1. ASSUME NEW m \in Mirrors
          PROVE  [lost[m] EXCEPT !["dropped"] = @ \union {broadcast + 1}] \in [Losses -> SUBSET Nat]
      <4>1. {broadcast + 1} \in SUBSET Nat
        BY MirrorTypes
      <4> QED BY <4>1, LosesTypes DEF Losses
    <3>2. CASE group \in {"running", "stopping"}
      <4>1. lost' = [m \in Mirrors |-> IF Fits(m) THEN lost[m]
                                      ELSE [lost[m] EXCEPT !["dropped"] = @ \union {broadcast + 1}]]
        BY <1>1, <3>2 DEF Broadcast
      <4> QED BY <3>1, <4>1 DEF MirrorTypeOK
    <3>3. CASE group \notin {"running", "stopping"}
      BY <1>1, <3>3 DEF Broadcast, MirrorTypeOK
    <3> QED BY <3>2, <3>3
  <2> QED BY <1>1, <2>2, <2>3, <2>4, <2>5 DEF Broadcast, MirrorTypeOK
<1>2. CASE Forwarded
  <2>1. PICK ready \in Seq(Unit) : \E k \in 1..Len(ready) :
           /\ sentTx' = [sentTx EXCEPT ![serve.m] = @ \o SubSeq(ready, 1, k)]
           /\ pieces' = [pieces EXCEPT ![serve.m] = @ \union {Len(sentTx[serve.m]) + k}]
           /\ serve' \in Serving
    BY <1>2, ForwardedIs
  <2>2. PICK k \in 1..Len(ready) :
           /\ sentTx' = [sentTx EXCEPT ![serve.m] = @ \o SubSeq(ready, 1, k)]
           /\ pieces' = [pieces EXCEPT ![serve.m] = @ \union {Len(sentTx[serve.m]) + k}]
           /\ serve' \in Serving
    BY <2>1
  <2>3. k \in 0..Len(ready) /\ k \in Nat
    BY <2>2
  <2>4. SubSeq(ready, 1, k) \in Seq(Unit)
    BY <2>3, Cut
  <2>5. sentTx[serve.m] \o SubSeq(ready, 1, k) \in Seq(Unit) /\ Len(sentTx[serve.m]) + k \in Nat
    <3>1. serve.m \in Mirrors
      BY DEF MirrorTypeOK
    <3>2. sentTx[serve.m] \in Seq(Unit)
      BY <3>1, MirrorTypes
    <3>3. Len(sentTx[serve.m]) \in Nat
      BY <3>2
    <3> QED BY <2>3, <2>4, <3>2, <3>3, ConcatProperties
  <2>6. sentTx' \in [Mirrors -> Seq(Unit)] /\ pieces' \in [Mirrors -> SUBSET Nat]
    BY <2>2, <2>5 DEF MirrorTypeOK
  <2> QED BY <1>2, <2>2, <2>6 DEF Forwarded, MirrorTypeOK, Serving
<1>3. CASE StopMirrors
  BY <1>3 DEF StopMirrors, MirrorTypeOK
<1>4. ASSUME NEW m \in Mirrors, NEW ends \in BOOLEAN, ClientTypes(m, ends) PROVE MirrorTypeOK'
  <2>1. typedAll[m] + 1 \in 0..MaxTyped /\ [n |-> typedAll[m] + 1, ends |-> ends] \in Unit
    BY <1>4, MirrorTypes DEF ClientTypes, Unit
  <2>2. Append(typed[m], [n |-> typedAll[m] + 1, ends |-> ends]) \in Seq(Unit)
    BY <2>1, MirrorTypes, AppendProperties
  <2>3. typed' \in [Mirrors -> Seq(Unit)] /\ typedAll' \in [Mirrors -> 0..MaxTyped]
    BY <1>4, <2>1, <2>2 DEF ClientTypes, MirrorTypeOK
  <2> QED BY <1>4, <2>3 DEF ClientTypes, MirrorTypeOK
<1>5. ASSUME NEW m \in Mirrors, ClientReads(m) PROVE MirrorTypeOK'
  <2>1. got[m] \o kernel[m] \in Seq(Nat)
    BY MirrorTypes, ConcatProperties
  <2>2. got' \in [Mirrors -> Seq(Nat)]
    BY <1>5, <2>1 DEF ClientReads, MirrorTypeOK
  <2>3. kernel' \in [Mirrors -> Seq(Nat)] /\ \A x \in Mirrors : Len(kernel'[x]) <= PtyRoom
    BY <1>5, <1>a DEF ClientReads, MirrorTypeOK
  <2> QED BY <1>5, <2>2, <2>3 DEF ClientReads, MirrorTypeOK
<1>6. CASE MirrorStep
  <2>1. CASE LoopTop
    <3>1. out' \in [Mirrors -> Seq(Nat)] /\ \A x \in Mirrors : Len(out'[x]) <= QueueMax
      BY <2>1, <1>a DEF LoopTop, DropIfStale, MirrorTypeOK
    <3>2. kernel' \in [Mirrors -> Seq(Nat)] /\ \A x \in Mirrors : Len(kernel'[x]) <= PtyRoom
      BY <2>1, <1>a DEF LoopTop, DropIfStale, MirrorTypeOK
    <3>3. lost' \in [Mirrors -> [Losses -> SUBSET Nat]]
      <4>1. ASSUME NEW m \in Mirrors
            PROVE  [lost[m] EXCEPT !["stale"] = @ \union ToSet(out[m]),
 !["flushed"] = @ \union ToSet(kernel[m])]
                     \in [Losses -> SUBSET Nat]
        BY MirrorTypes, LostTypes DEF Losses
      <4> QED BY <2>1, <4>1 DEF LoopTop, DropIfStale, MirrorTypeOK
    <3>4. serve' \in Serving
      BY <2>1, <1>a DEF LoopTop, Serving
    <3> QED BY <2>1, <3>1, <3>2, <3>3, <3>4 DEF LoopTop, MirrorTypeOK, Serving
  <2>2. CASE Select
    <3>1. Ready \subseteq Event
      BY <1>a DEF Ready, Event, Serving
    <3>2. serve' \in Serving
      BY <2>2, <1>a, <3>1 DEF Select, Serving
    <3> QED BY <2>2, <3>2 DEF Select, MirrorTypeOK, Serving
  <2>3. ASSUME NEW m \in Mirrors, Removes(m, Left(m), Taken(m)) PROVE MirrorTypeOK'
    <3>1. /\ Left(m) \in Seq(Nat) /\ Len(Left(m)) <= QueueMax
          /\ Taken(m) \in 0..MaxLag
      <4>1. Left(m) \in Seq(Nat) /\ Len(Left(m)) <= Len(out[m]) /\ Len(out[m]) <= QueueMax
            /\ Len(out[m]) \in Nat
        BY LeftTypes, MirrorTypes
      <4>2. Len(Left(m)) \in Nat
        BY <4>1
      <4>3. Taken(m) \in 0..MaxLag
        BY MirrorTypes, <1>a DEF Taken
      <4> QED BY <4>1, <4>2, <4>3
    <3>2. out' \in [Mirrors -> Seq(Nat)] /\ \A x \in Mirrors : Len(out'[x]) <= QueueMax
      BY <2>3, <3>1 DEF Removes, MirrorTypeOK
    <3>3. idle' \in [Mirrors -> 0..MaxLag] /\ moving' \subseteq Mirrors
      BY <2>3, <3>1 DEF Removes, MirrorTypeOK
    <3>4. serve' \in Serving
      <4>1. NextWork(serve.todo) \in {"top", "work"} /\ 0 \in 0..PtyRoom
        BY <1>a, ServingTypes DEF Serving
      <4> QED BY <2>3, <1>a, <4>1 DEF Removes, Serving
    <3> QED BY <2>3, <3>2, <3>3, <3>4 DEF Removes, MirrorTypeOK, Serving
  <2>4. CASE ServeEnds
    <3>1. serve' \in Serving
      BY <2>4, <1>a DEF ServeEnds, Serving
    <3> QED BY <2>4, <3>1 DEF ServeEnds, MirrorTypeOK, Serving
  <2>5. CASE CloseMirrors
    <3>1. out' \in [Mirrors -> Seq(Nat)] /\ \A x \in Mirrors : Len(out'[x]) <= QueueMax
      BY <2>5, <1>a DEF CloseMirrors, MirrorTypeOK
    <3>2. kernel' \in [Mirrors -> Seq(Nat)] /\ \A x \in Mirrors : Len(kernel'[x]) <= PtyRoom
      BY <2>5, <1>a DEF CloseMirrors, MirrorTypeOK
    <3>3. lost' \in [Mirrors -> [Losses -> SUBSET Nat]]
      <4>1. ASSUME NEW m \in Mirrors
            PROVE  [lost[m] EXCEPT !["flushed"] = @ \union ToSet(out[m]) \union ToSet(kernel[m])]
                     \in [Losses -> SUBSET Nat]
        BY MirrorTypes, LostTypes DEF Losses
      <4> QED BY <2>5, <4>1 DEF CloseMirrors, MirrorTypeOK
    <3> QED BY <2>5, <3>1, <3>2, <3>3 DEF CloseMirrors, MirrorTypeOK
  <2>6. CASE Tick
    <3>1. idle' \in [Mirrors -> 0..MaxLag]
      <4>1. \A m \in Mirrors : (IF idle[m] < MaxLag THEN idle[m] + 1 ELSE MaxLag) \in 0..MaxLag
        BY MirrorTypes
      <4> QED BY <2>6, <4>1 DEF Tick
    <3> QED BY <2>6, <3>1 DEF Tick, MirrorTypeOK
  <2>7. CASE \E m \in Mirrors : ClientReads(m)
    BY <2>7, <1>5
  <2>8. CASE \E m \in Mirrors, is \in {"read", "write"} :
               LET e == [m |-> m, is |-> is] IN PumpRx(e) \/ PumpFails(e) \/ PumpTx(e) \/ PumpClosed(e)
    BY <2>8, PumpTyped
  <2>9. CASE RemoveWritten
    BY <2>3, <2>9 DEF RemoveWritten
  <2> QED BY <1>6, <2>1, <2>2, <2>4, <2>5, <2>6, <2>7, <2>8, <2>9 DEF MirrorStep
<1> QED BY <1>1, <1>2, <1>3, <1>4, <1>6 DEF MirrorNext

-----------------------------------------------------------------------------
(* From the device to the clients: every chunk is shown once, in order, or was lost *)

Account(shown, missed, n) ==
  /\ Rising(shown)
  /\ ToSet(shown) \subseteq 1..n /\ missed \subseteq 1..n
  /\ ToSet(shown) \intersect missed = {}

\* Concatenation, kept from being expanded.
Cat(s, t) == s \o t

Joins(s, a, b) == s = Cat(a, b)

LEMMA AccountAppends ==
  ASSUME NEW n \in Nat, NEW s \in Seq(Nat), NEW missed, Account(s, missed, n)
  PROVE  /\ Account(Append(s, n + 1), missed, n + 1)
         /\ ToSet(Append(s, n + 1)) = ToSet(s) \union {n + 1}
<1>0. PICK x \in Nat : x = n + 1
  OBVIOUS
<1>b. Append(s, x) \in Seq(Nat) /\ ToSet(Append(s, x)) = ToSet(s) \union {x}
  BY SetsOfAppend, Zenon
<1>a. Append(s, n + 1) \in Seq(Nat) /\ ToSet(Append(s, n + 1)) = ToSet(s) \union {n + 1}
  BY <1>0, <1>b, Zenon
<1>1. PICK t \in Seq(Nat) : t = Append(s, n + 1)
  BY <1>a, Zenon
<1>2. /\ Len(t) = Len(s) + 1 /\ t[Len(s) + 1] = n + 1 /\ Len(s) \in Nat
      /\ \A i \in 1..Len(s) : t[i] = s[i]
  BY <1>1, AppendProperties
<1>3. ToSet(t) = ToSet(s) \union {n + 1}
  BY <1>1, <1>a
<1>4. ASSUME NEW i \in 1..Len(s) PROVE s[i] \in 1..n
  BY DEF Account, ToSet
<1>5. ASSUME NEW i \in 1..Len(t), NEW j \in 1..Len(t), i < j PROVE t[i] < t[j]
  <2>1. i \in 1..Len(s) /\ t[i] = s[i] /\ s[i] \in 1..n
    BY <1>2, <1>4, <1>5
  <2>2. CASE j = Len(s) + 1
    BY <1>2, <2>1, <2>2
  <2>3. CASE j # Len(s) + 1
    <3>1. j \in 1..Len(s) /\ t[j] = s[j]
      BY <1>2, <2>3
    <3> QED BY <1>5, <2>1, <3>1 DEF Account, Rising
  <2> QED BY <2>2, <2>3
<1>6. Rising(t)
  BY <1>5 DEF Rising
<1> QED BY <1>1, <1>3, <1>6 DEF Account

LEMMA AccountCut ==
  ASSUME NEW n \in Nat, NEW a \in Seq(Nat), NEW b \in Seq(Nat), NEW s \in Seq(Nat), NEW missed, NEW more,
         more = missed \union ToSet(b), Joins(s, a, b), Account(s, missed, n)
  PROVE  Account(a, more, n)
<1>2. /\ Len(s) = Len(a) + Len(b) /\ Len(a) \in Nat /\ Len(b) \in Nat
      /\ \A i \in 1..(Len(a) + Len(b)) : s[i] = IF i <= Len(a) THEN a[i] ELSE b[i - Len(a)]
  BY ConcatProperties DEF Joins, Cat
<1>3. ToSet(s) = ToSet(a) \union ToSet(b)
  BY SetOfConcat DEF Joins, Cat
<1>4. \A i \in 1..Len(a) : i \in 1..Len(s) /\ s[i] = a[i]
  BY <1>2
<1>5. Rising(a)
  BY <1>2, <1>4 DEF Rising, Account
<1>6. ToSet(a) \intersect ToSet(b) = {}
  <2> SUFFICES ASSUME NEW x \in ToSet(a), x \in ToSet(b) PROVE FALSE
    OBVIOUS
  <2>1. PICK i \in 1..Len(a) : a[i] = x
    BY DEF ToSet
  <2>2. PICK j \in 1..Len(b) : b[j] = x
    BY DEF ToSet
  <2>3. i \in 1..Len(s) /\ s[i] = x
    BY <1>4, <2>1
  <2>c. Len(s) = Len(a) + Len(b) /\ Len(a) \in Nat /\ Len(b) \in Nat
    BY <1>2
  <2>a. j + Len(a) \in 1..(Len(a) + Len(b)) /\ i < j + Len(a)
        /\ ~(j + Len(a) <= Len(a)) /\ (j + Len(a)) - Len(a) = j
    <3>1. j \in Nat /\ 1 <= j /\ j <= Len(b) /\ i \in Nat /\ i <= Len(a)
      BY <2>c
    <3>2. PICK la, lb \in Nat : la = Len(a) /\ lb = Len(b)
      BY <2>c
    <3> QED BY <3>1, <3>2
  <2>b. \A l \in 1..(Len(a) + Len(b)) : s[l] = IF l <= Len(a) THEN a[l] ELSE b[l - Len(a)]
    BY <1>2
  <2>4. s[j + Len(a)] = x
    BY <2>2, <2>a, <2>b
  <2>5. s[i] < s[j + Len(a)]
    <3>1. Rising(s)
      BY DEF Account
    <3>2. j + Len(a) \in 1..Len(s)
      BY <2>a, <2>c
    <3> QED BY <2>3, <2>a, <3>1, <3>2 DEF Rising
  <2>6. x \in Nat
    BY SetIsOf
  <2> QED BY <2>3, <2>4, <2>5, <2>6
<1> QED BY <1>3, <1>5, <1>6 DEF Account

LEMMA AccountMore ==
  ASSUME NEW n \in Nat, NEW s, NEW missed, Account(s, missed, n)
  PROVE  Account(s, missed, n + 1) /\ Account(s, missed \union {n + 1}, n + 1)
BY DEF Account

\* What was written has not been taken out of the queue meanwhile.
WrittenInv == At("written") => serve.wrote <= Len(out[serve.m])

RxInv(m) ==
  /\ Account(Shown(m), Lost(m), broadcast)
  /\ group # "off" => ToSet(Shown(m)) \union Lost(m) = 1..broadcast

LEMMA ShownTypes ==
  ASSUME MirrorTypeOK, NEW m \in Mirrors
  PROVE  /\ Waiting(m) \in Seq(Nat) /\ kernel[m] \o Waiting(m) \in Seq(Nat)
         /\ got[m] \o kernel[m] \in Seq(Nat)
         /\ Shown(m) \in Seq(Nat)
         /\ Shown(m) = got[m] \o (kernel[m] \o Waiting(m))
<1>1. Waiting(m) \in Seq(Nat)
  BY MirrorTypes, LeftTypes DEF Waiting
<1>2. got[m] \in Seq(Nat) /\ kernel[m] \in Seq(Nat)
  BY MirrorTypes
<1>3. PICK g, k, w \in Seq(Nat) : g = got[m] /\ k = kernel[m] /\ w = Waiting(m)
  BY <1>1, <1>2
<1>a. k \o w \in Seq(Nat) /\ g \o k \in Seq(Nat)
  BY ConcatProperties, SMTT(30)
<1>4. k \o w \in Seq(Nat) /\ g \o k \in Seq(Nat) /\ (g \o k) \o w = g \o (k \o w)
  BY <1>a, ConcatAssociative, SMTT(30)
<1>5. (g \o k) \o w \in Seq(Nat)
  BY <1>a, ConcatProperties, SMTT(30)
<1> QED BY <1>3, <1>4, <1>5 DEF Shown

LEMMA LeftGrows ==
  ASSUME NEW s \in Seq(Nat), NEW k \in 0..Len(s), NEW x \in Nat
  PROVE  SubSeq(Append(s, x), k + 1, Len(Append(s, x))) = Append(SubSeq(s, k + 1, Len(s)), x)
<1>1. PICK t \in Seq(Nat) : t = Append(s, x)
  BY AppendProperties
<1>2. Len(t) = Len(s) + 1 /\ t[Len(s) + 1] = x /\ \A i \in 1..Len(s) : t[i] = s[i]
  BY <1>1, AppendProperties
<1>3. /\ SubSeq(s, k + 1, Len(s)) \in Seq(Nat) /\ Len(SubSeq(s, k + 1, Len(s))) = Len(s) - k
      /\ \A i \in 1..(Len(s) - k) : SubSeq(s, k + 1, Len(s))[i] = s[k + i]
  BY Cut
<1>4. PICK b \in Seq(Nat) : b = SubSeq(s, k + 1, Len(s))
  BY <1>3
<1>5. k \in 0..Len(t) /\ Len(s) \in Nat
  BY <1>2
<1>6. /\ SubSeq(t, k + 1, Len(t)) \in Seq(Nat) /\ Len(SubSeq(t, k + 1, Len(t))) = Len(t) - k
      /\ \A i \in 1..(Len(t) - k) : SubSeq(t, k + 1, Len(t))[i] = t[k + i]
  BY <1>5, Cut
<1>7. PICK c \in Seq(Nat) : c = SubSeq(t, k + 1, Len(t))
  BY <1>6
<1>8. PICK d \in Seq(Nat) : d = Append(b, x)
  BY AppendProperties
<1>9. Len(d) = Len(b) + 1 /\ d[Len(b) + 1] = x /\ \A i \in 1..Len(b) : d[i] = b[i]
  BY <1>8, AppendProperties
<1>10. Len(b) = Len(s) - k /\ Len(c) = Len(t) - k /\ \A i \in 1..(Len(s) - k) : b[i] = s[k + i]
  BY <1>3, <1>4, <1>6, <1>7
<1>11. \A i \in 1..(Len(t) - k) : c[i] = t[k + i]
  BY <1>6, <1>7
<1>12. Len(c) = Len(d)
  BY <1>2, <1>5, <1>9, <1>10
<1>13. ASSUME NEW i \in 1..Len(c) PROVE c[i] = d[i]
  <2>1. c[i] = t[k + i]
    BY <1>10, <1>11
  <2>2. CASE i <= Len(b)
    <3>1. i \in 1..Len(b) /\ i \in 1..(Len(s) - k) /\ k + i \in 1..Len(s)
      BY <1>5, <1>10, <2>2
    <3> QED BY <1>2, <1>9, <1>10, <2>1, <3>1
  <2>3. CASE ~(i <= Len(b))
    <3>1. i = Len(b) + 1 /\ k + i = Len(s) + 1
      BY <1>2, <1>5, <1>10, <2>3
    <3> QED BY <1>2, <1>9, <2>1, <3>1
  <2> QED BY <2>2, <2>3
<1>14. c = d
  BY <1>12, <1>13, SeqEqual
<1> QED BY <1>1, <1>4, <1>7, <1>8, <1>14

LEMMA ConcatAppend ==
  ASSUME NEW S, NEW s \in Seq(S), NEW t \in Seq(S), NEW x \in S
  PROVE  s \o Append(t, x) = Append(s \o t, x)
<1>a. <<x>> \in Seq(S)
  OBVIOUS
<1>1. PICK o \in Seq(S) : o = <<x>>
  BY <1>a, Zenon
<1>2. Append(t, x) = t \o o
  BY <1>1, SetOfAppend
<1>3. s \o t \in Seq(S)
  BY ConcatProperties
<1>4. Append(s \o t, x) = (s \o t) \o o
  BY <1>1, <1>3, SetOfAppend
<1>5. (s \o t) \o o = s \o (t \o o)
  BY ConcatAssociative
<1> QED BY <1>2, <1>4, <1>5

\* What a step does to what one client is shown, and to what it has lost: nothing; a chunk more
\* is to be shown; a chunk is missed; the end of what was to be shown is thrown away.
Keeps(m)  == Shown(m)' = Shown(m) /\ Lost(m)' = Lost(m) /\ broadcast' = broadcast
Shows(m)  == /\ Shown(m)' = Append(Shown(m), broadcast + 1) /\ Lost(m)' = Lost(m)
             /\ broadcast' = broadcast + 1
Misses(m) == /\ Shown(m)' = Shown(m) /\ broadcast' = broadcast + 1
             /\ \/ Lost(m)' = Lost(m) \union {broadcast + 1}
                \/ Lost(m)' = Lost(m) /\ group = "off"
Throws(m) == /\ broadcast' = broadcast
             /\ \E a, b \in Seq(Nat) :
                  Shown(m) = Cat(a, b) /\ Shown(m)' = a /\ Lost(m)' = Lost(m) \union ToSet(b)

LEMMA KeepsAside ==
  ASSUME NEW m \in Mirrors, UNCHANGED <<out, kernel, broadcast, got, lost>>,
         serve' = serve \/ (~At("written") /\ ~At("written")')
  PROVE  Keeps(m)
<1>1. Waiting(m)' = Waiting(m)
  BY DEF Waiting, Left, At
<1> QED BY <1>1 DEF Keeps, Shown, Lost

LEMMA BroadcastSteps ==
  ASSUME MirrorTypeOK, WrittenInv, group # "absent", Broadcast, NEW m \in Mirrors
  PROVE  Shows(m) \/ Misses(m)
<1>1. /\ broadcast' = broadcast + 1 /\ got' = got /\ kernel' = kernel /\ serve' = serve
      /\ group \in {"running", "stopping", "off"}
  BY DEF Broadcast, MirrorTypeOK
<1>2. CASE group = "off"
  <2>1. out' = out /\ lost' = lost
    BY <1>2 DEF Broadcast
  <2>2. Waiting(m)' = Waiting(m)
    BY <1>1, <2>1 DEF Waiting, Left, At
  <2>3. Shown(m)' = Shown(m) /\ Lost(m)' = Lost(m)
    BY <1>1, <2>1, <2>2 DEF Shown, Lost
  <2> QED BY <1>1, <1>2, <2>3 DEF Misses
<1>3. CASE group # "off" /\ ~Fits(m)
  <2>1. out'[m] = out[m] /\ lost'[m] = [lost[m] EXCEPT !["dropped"] = @ \union {broadcast + 1}]
    BY <1>1, <1>3 DEF Broadcast
  <2>2. Waiting(m)' = Waiting(m)
    BY <1>1, <2>1 DEF Waiting, Left, At
  <2>3. /\ lost'[m]["dropped"] = lost[m]["dropped"] \union {broadcast + 1}
        /\ lost'[m]["stale"] = lost[m]["stale"] /\ lost'[m]["flushed"] = lost[m]["flushed"]
    BY <2>1, MirrorTypes DEF Losses
  <2>4. Lost(m)' = Lost(m) \union {broadcast + 1}
    BY <2>3 DEF Lost, Losses
  <2>5. Shown(m)' = Shown(m)
    BY <1>1, <2>2 DEF Shown
  <2> QED BY <1>1, <2>4, <2>5 DEF Misses
<1>4. CASE group # "off" /\ Fits(m)
  <2>0. PICK x \in Nat : x = broadcast + 1
    BY MirrorTypes
  <2>1. out'[m] = Append(out[m], x) /\ lost'[m] = lost[m]
    BY <1>1, <1>4, <2>0 DEF Broadcast
  <2>2. Waiting(m)' = Append(Waiting(m), x)
    <3>1. CASE At("written") /\ serve.m = m
      <4>1. out[m] \in Seq(Nat) /\ serve.wrote \in 0..Len(out[m])
        BY <3>1, MirrorTypes DEF WrittenInv
      <4>2. PICK s \in Seq(Nat) : s = out[m]
        BY <4>1
      <4>3. PICK k \in 0..Len(s) : k = serve.wrote
        BY <4>1, <4>2
      <4>4. SubSeq(Append(s, x), k + 1, Len(Append(s, x))) = Append(SubSeq(s, k + 1, Len(s)), x)
        BY LeftGrows
      <4>5. Left(m)' = Append(Left(m), x)
        BY <1>1, <2>1, <4>2, <4>3, <4>4 DEF Left
      <4> QED BY <1>1, <3>1, <4>5 DEF Waiting, At
    <3>2. CASE ~(At("written") /\ serve.m = m)
      BY <1>1, <2>1, <3>2 DEF Waiting, At
    <3> QED BY <3>1, <3>2
  <2>3. Shown(m)' = Append(Shown(m), x)
    <3>1. PICK a, w \in Seq(Nat) : a = got[m] \o kernel[m] /\ w = Waiting(m)
      BY ShownTypes
    <3>2. a \o Append(w, x) = Append(a \o w, x)
      BY ConcatAppend
    <3>3. Shown(m)' = a \o Append(w, x) /\ Shown(m) = a \o w
      BY <1>1, <2>2, <3>1 DEF Shown
    <3> QED BY <3>2, <3>3
  <2>4. Lost(m)' = Lost(m)
    BY <2>1 DEF Lost
  <2> QED BY <1>1, <2>0, <2>3, <2>4 DEF Shows
<1> QED BY <1>2, <1>3, <1>4

\* The queue goes, and what the kernel holds or not.
LEMMA ThrownIs ==
  ASSUME MirrorTypeOK, NEW m \in Mirrors, ~At("written"), ~At("written")',
         got'[m] = got[m], out'[m] = <<>>, broadcast' = broadcast,
         \/ kernel'[m] = <<>> /\ Lost(m)' = Lost(m) \union ToSet(kernel[m]) \union ToSet(out[m])
         \/ kernel'[m] = kernel[m] /\ Lost(m)' = Lost(m) \union ToSet(out[m])
  PROVE  Throws(m)
<1>1. PICK g, k, w \in Seq(Nat) : g = got[m] /\ k = kernel[m] /\ w = out[m]
  BY MirrorTypes
<1>2. Shown(m) = (g \o k) \o w
  BY <1>1 DEF Shown, Waiting
<1>c. (g \o k) \in Seq(Nat) /\ (k \o w) \in Seq(Nat)
  BY ConcatProperties
<1>d. ToSet(k \o w) = ToSet(k) \union ToSet(w)
  BY SetsOfConcat
<1>e. (g \o k) \o w = g \o (k \o w)
  BY ConcatAssociative
<1>a. (g \o k) \in Seq(Nat) /\ (k \o w) \in Seq(Nat) /\ (g \o k) \o w = g \o (k \o w)
      /\ ToSet(k \o w) = ToSet(k) \union ToSet(w)
  BY <1>c, <1>d, <1>e
<1>b. Waiting(m)' = <<>>
  BY DEF Waiting
<1>3. CASE kernel'[m] = <<>> /\ Lost(m)' = Lost(m) \union ToSet(kernel[m]) \union ToSet(out[m])
  <2>1. Shown(m)' = (g \o <<>>) \o <<>>
    BY <1>1, <1>3, <1>b DEF Shown
  <2>2. g \o <<>> = g
    BY ConcatEmptySeq
  <2>3. Shown(m)' = g
    BY <2>1, <2>2
  <2>4. Lost(m)' = Lost(m) \union ToSet(k \o w)
    BY <1>1, <1>3, <1>a
  <2>5. PICK b \in Seq(Nat) : b = k \o w
    BY <1>a
  <2>6. Shown(m) = g \o b /\ Lost(m)' = Lost(m) \union ToSet(b)
    BY <1>2, <1>a, <2>4, <2>5
  <2> QED BY <2>3, <2>6 DEF Throws, Cat
<1>4. CASE kernel'[m] = kernel[m] /\ Lost(m)' = Lost(m) \union ToSet(out[m])
  <2>1. PICK a \in Seq(Nat) : a = g \o k
    BY <1>a
  <2>2. Shown(m)' = a \o <<>>
    BY <1>1, <1>4, <1>b, <2>1 DEF Shown
  <2>3. Shown(m)' = a
    BY <2>2, ConcatEmptySeq
  <2> QED BY <1>1, <1>2, <1>4, <2>1, <2>3 DEF Throws, Cat
<1> QED BY <1>3, <1>4

LEMMA CatIs ==
  \A S : \A s, t, u \in Seq(S) : Cat(s, t) \in Seq(S) /\ Cat(Cat(s, t), u) = Cat(s, Cat(t, u))
<1> TAKE S
<1> TAKE s, t, u \in Seq(S)
<1>1. (s \o t) \o u = s \o (t \o u)
  BY ConcatAssociative
<1>2. s \o t \in Seq(S)
  BY ConcatProperties
<1> QED BY <1>1, <1>2, Zenon DEF Cat

LEMMA Regroup ==
  \A S : \A g, k, a, b \in Seq(S) : Cat(Cat(g, k), Cat(a, b)) = Cat(Cat(g, Cat(k, a)), b)
<1> TAKE S
<1> TAKE g, k, a, b \in Seq(S)
<1>1. Cat(g, k) \in Seq(S)
  BY CatIs
<1>2. Cat(Cat(Cat(g, k), a), b) = Cat(Cat(g, k), Cat(a, b))
  BY <1>1, CatIs
<1>3. Cat(Cat(g, k), a) = Cat(g, Cat(k, a))
  BY CatIs
<1> QED BY <1>2, <1>3

LEMMA PumpSteps ==
  ASSUME MirrorTypeOK, NEW e, PumpRx(e) \/ PumpFails(e) \/ PumpTx(e) \/ PumpClosed(e),
         NEW m \in Mirrors
  PROVE  Keeps(m) \/ Throws(m)
<1>0. e \in serve.todo /\ At("work")
  BY DEF PumpRx, PumpFails, PumpTx, PumpClosed, Takes
<1>a. /\ e.m \in Mirrors /\ serve \in Serving /\ Back(e) \in {"top", "work"} /\ ~At("written")
      /\ <<>> \in Seq(Nat)
  BY <1>0, ServingTypes DEF At
<1>1. CASE PumpRx(e)
  <2>1. UNCHANGED <<out, broadcast, got, lost>>
    BY <1>1 DEF PumpRx
  <2>2. serve'.at = "written" /\ serve'.m = e.m
    BY <1>0, <1>1, PumpRxTypes
  <2>3. CASE m # e.m
    <3>1. kernel'[m] = kernel[m]
      BY <1>1, <1>a, <2>3 DEF PumpRx, MirrorTypeOK
    <3>2. Waiting(m) = out[m] /\ Waiting(m)' = out[m]
      BY <1>a, <2>1, <2>2, <2>3 DEF Waiting, At
    <3> QED BY <2>1, <3>1, <3>2 DEF Keeps, Shown, Lost
  <2>4. CASE m = e.m
    <3>1. PICK g, k, s \in Seq(Nat) : g = got[m] /\ k = kernel[m] /\ s = out[m]
      BY MirrorTypes
    <3>2. serve'.wrote \in 0..Len(s)
      <4>1. serve'.wrote \in Nat /\ serve'.wrote <= Len(out[e.m])
        BY <1>0, <1>1, PumpRxTypes DEF Serving
      <4> QED BY <2>4, <3>1, <4>1
    <3>3. PICK n \in 0..Len(s) : n = serve'.wrote
      BY <3>2
    <3>a. /\ SubSeq(s, 1, n) \in Seq(Nat) /\ SubSeq(s, n + 1, Len(s)) \in Seq(Nat)
          /\ SubSeq(s, 1, n) \o SubSeq(s, n + 1, Len(s)) = s
      BY Cut
    <3>4. PICK a, b \in Seq(Nat) : a = SubSeq(s, 1, n) /\ b = SubSeq(s, n + 1, Len(s)) /\ a \o b = s
      BY <3>a, Zenon
    <3>5. kernel'[m] = k \o a
      <4>1. kernel' = [kernel EXCEPT ![e.m] = @ \o SubSeq(out[e.m], 1, serve'.wrote)]
        BY <1>0, <1>1, PumpRxTypes
      <4> QED BY <1>a, <2>4, <3>1, <3>3, <3>4, <4>1 DEF MirrorTypeOK
    <3>6. Waiting(m) = s /\ Waiting(m)' = b
      BY <1>a, <2>1, <2>2, <2>4, <3>1, <3>3, <3>4 DEF Waiting, Left, At
    <3>7. Shown(m) = Cat(Cat(g, k), Cat(a, b)) /\ Shown(m)' = Cat(Cat(g, Cat(k, a)), b)
      BY <2>1, <3>1, <3>4, <3>5, <3>6 DEF Shown, Cat
    <3>8. Cat(Cat(g, k), Cat(a, b)) = Cat(Cat(g, Cat(k, a)), b)
      BY Regroup
    <3> QED BY <2>1, <3>7, <3>8 DEF Keeps, Lost
  <2> QED BY <2>3, <2>4
<1>2. CASE PumpFails(e)
  <2>1. UNCHANGED <<kernel, broadcast, got>> /\ ~At("written")'
    BY <1>2, <1>a DEF PumpFails, At, Serving
  <2>2. CASE m # e.m
    <3>1. out'[m] = out[m] /\ lost'[m] = lost[m]
      BY <1>2, <1>a, <2>2 DEF PumpFails, Lose, MirrorTypeOK
    <3>2. Waiting(m)' = Waiting(m)
      BY <1>a, <2>1, <3>1 DEF Waiting
    <3> QED BY <2>1, <3>1, <3>2 DEF Keeps, Shown, Lost
  <2>3. CASE m = e.m
    <3>1. out'[m] = <<>>
      BY <1>2, <1>a, <2>3 DEF PumpFails, MirrorTypeOK
    <3>2. lost'[m] = [lost[m] EXCEPT !["dropped"] = @ \union ToSet(out[m])]
      BY <1>2, <1>a, <2>3 DEF PumpFails, Lose, MirrorTypeOK
    <3>3. /\ lost'[m]["dropped"] = lost[m]["dropped"] \union ToSet(out[m])
          /\ lost'[m]["stale"] = lost[m]["stale"] /\ lost'[m]["flushed"] = lost[m]["flushed"]
      BY <3>2, MirrorTypes DEF Losses
    <3>4. Lost(m)' = Lost(m) \union ToSet(out[m])
      BY <3>3 DEF Lost, Losses
    <3> QED BY <1>a, <2>1, <3>1, <3>4, ThrownIs
  <2> QED BY <2>2, <2>3
<1>3. CASE PumpTx(e)
  <2>1. serve'.at \in {"top", "work", "forward"}
    <3>1. PICK buf \in Seq(Unit) : \E cut \in 0..Len(buf) :
             serve' = [serve EXCEPT !.m = e.m, !.ready = SubSeq(buf, 1, cut), !.todo = @ \ {e},
                                    !.at = IF cut = 0 THEN Back(e) ELSE "forward"]
      BY <1>0, <1>3, PumpTxIs, Zenon
    <3>2. PICK cut \in 0..Len(buf) :
             serve' = [serve EXCEPT !.m = e.m, !.ready = SubSeq(buf, 1, cut), !.todo = @ \ {e},
                                    !.at = IF cut = 0 THEN Back(e) ELSE "forward"]
      BY <3>1
    <3> QED BY <1>a, <3>2 DEF Serving
  <2> QED BY <1>3, <1>a, <2>1, KeepsAside DEF PumpTx, At
<1>4. CASE PumpClosed(e)
  <2>1. serve'.at \in {"top", "work"}
    BY <1>4, <1>a DEF PumpClosed, Serving
  <2> QED BY <1>4, <1>a, <2>1, KeepsAside DEF PumpClosed, At
<1> QED BY <1>1, <1>2, <1>3, <1>4

LEMMA RxSteps ==
  ASSUME MirrorTypeOK, WrittenInv, MirrorNext, NEW m \in Mirrors
  PROVE  Keeps(m) \/ Shows(m) \/ Misses(m) \/ Throws(m)
<1>a. serve \in Serving /\ NextWork(serve.todo) \in {"top", "work"}
  BY ServingTypes DEF Serving
<1>1. CASE group # "absent" /\ Broadcast
  BY <1>1, BroadcastSteps
<1>2. CASE Forwarded
  <2>1. At("forward") /\ serve'.at \in {"forward", "top", "work"}
    BY <1>2, <1>a DEF Forwarded, Serving
  <2> QED BY <1>2, <2>1, KeepsAside DEF Forwarded, At
<1>3. CASE StopMirrors \/ Tick \/ \E x \in Mirrors, ends \in BOOLEAN : ClientTypes(x, ends)
  BY <1>3, KeepsAside DEF StopMirrors, Tick, ClientTypes
<1>4. CASE LoopTop
  <2>1. ~At("written") /\ ~At("written")' /\ UNCHANGED <<got, broadcast>>
    BY <1>4, <1>a DEF LoopTop, At, Serving
  <2>2. CASE Stale(m)
    <3>1. /\ out'[m] = <<>> /\ kernel'[m] = <<>>
          /\ lost'[m] = [lost[m] EXCEPT !["stale"] = @ \union ToSet(out[m]),
                                        !["flushed"] = @ \union ToSet(kernel[m])]
      BY <1>4, <2>2 DEF LoopTop, DropIfStale
    <3>2. /\ lost'[m]["dropped"] = lost[m]["dropped"]
          /\ lost'[m]["stale"] = lost[m]["stale"] \union ToSet(out[m])
          /\ lost'[m]["flushed"] = lost[m]["flushed"] \union ToSet(kernel[m])
      BY <3>1, MirrorTypes DEF Losses
    <3>3. Lost(m)' = Lost(m) \union ToSet(kernel[m]) \union ToSet(out[m])
      BY <3>2 DEF Lost, Losses
    <3> QED BY <2>1, <3>1, <3>3, ThrownIs
  <2>3. CASE ~Stale(m)
    <3>1. out'[m] = out[m] /\ kernel'[m] = kernel[m] /\ lost'[m] = lost[m]
      BY <1>4, <2>3 DEF LoopTop, DropIfStale
    <3>2. Waiting(m)' = Waiting(m)
      BY <2>1, <3>1 DEF Waiting
    <3> QED BY <2>1, <3>1, <3>2 DEF Keeps, Shown, Lost
  <2> QED BY <2>2, <2>3
<1>5. CASE Select \/ ServeEnds
  <2>1. ~At("written") /\ ~At("written")'
    BY <1>5, <1>a DEF Select, ServeEnds, At, Serving
  <2> QED BY <1>5, <2>1, KeepsAside DEF Select, ServeEnds
<1>6. CASE RemoveWritten
  <2>1. PICK x \in Mirrors : Removes(x, Left(x), Taken(x))
    BY <1>6 DEF RemoveWritten
  <2>2. At("written") /\ x = serve.m /\ UNCHANGED <<got, kernel, broadcast, lost>>
    BY <2>1 DEF Removes
  <2>3. ~At("written")'
    BY <2>1, <1>a DEF Removes, At, Serving
  <2>4. out'[m] = IF m = x THEN Left(m) ELSE out[m]
    BY <2>1 DEF Removes, MirrorTypeOK
  <2>5. Waiting(m)' = Waiting(m)
    BY <2>2, <2>3, <2>4 DEF Waiting
  <2> QED BY <2>2, <2>5 DEF Keeps, Shown, Lost
<1>7. CASE CloseMirrors
  <2>1. ~At("written") /\ ~At("written")' /\ UNCHANGED <<got, broadcast>>
    BY <1>7 DEF CloseMirrors, At
  <2>2. /\ out'[m] = <<>> /\ kernel'[m] = <<>>
        /\ lost'[m] = [lost[m] EXCEPT !["flushed"] = @ \union ToSet(out[m]) \union ToSet(kernel[m])]
    BY <1>7 DEF CloseMirrors
  <2>3. /\ lost'[m]["dropped"] = lost[m]["dropped"] /\ lost'[m]["stale"] = lost[m]["stale"]
        /\ lost'[m]["flushed"] = lost[m]["flushed"] \union ToSet(out[m]) \union ToSet(kernel[m])
    BY <2>2, MirrorTypes DEF Losses
  <2>4. Lost(m)' = Lost(m) \union ToSet(kernel[m]) \union ToSet(out[m])
    BY <2>3 DEF Lost, Losses
  <2> QED BY <2>1, <2>2, <2>4, ThrownIs
<1>8. ASSUME NEW x \in Mirrors, ClientReads(x) PROVE Keeps(m)
  <2>1. UNCHANGED <<out, broadcast, lost, serve>>
    BY <1>8 DEF ClientReads
  <2>2. Waiting(m)' = Waiting(m) /\ Lost(m)' = Lost(m)
    BY <2>1 DEF Waiting, Left, At, Lost
  <2>3. got'[m] \o kernel'[m] = got[m] \o kernel[m]
    <3>1. CASE m # x
      BY <1>8, <3>1 DEF ClientReads, MirrorTypeOK
    <3>2. CASE m = x
      <4>1. got'[m] = got[m] \o kernel[m] /\ kernel'[m] = <<>>
        BY <1>8, <3>2 DEF ClientReads, MirrorTypeOK
      <4>2. PICK a \in Seq(Nat) : a = got[m] \o kernel[m]
        BY ShownTypes
      <4>3. a \o <<>> = a
        BY ConcatEmptySeq
      <4> QED BY <4>1, <4>2, <4>3
    <3> QED BY <3>1, <3>2
  <2> QED BY <2>1, <2>2, <2>3 DEF Keeps, Shown
<1>9. ASSUME NEW x \in Mirrors, NEW is \in {"read", "write"},
             LET e == [m |-> x, is |-> is] IN PumpRx(e) \/ PumpFails(e) \/ PumpTx(e) \/ PumpClosed(e)
      PROVE  Keeps(m) \/ Throws(m)
  BY <1>9, PumpSteps
<1>10. CASE MirrorStep
  BY <1>3, <1>4, <1>5, <1>6, <1>7, <1>8, <1>9, <1>10 DEF MirrorStep
<1> QED BY <1>1, <1>2, <1>3, <1>10 DEF MirrorNext

LEMMA NeverBack ==
  ASSUME MirrorNext
  PROVE  group = "off" => group' = "off"
<1>1. CASE Broadcast \/ Forwarded \/ StopMirrors \/ \E x \in Mirrors, ends \in BOOLEAN : ClientTypes(x, ends)
  BY <1>1 DEF Broadcast, Forwarded, StopMirrors, ClientTypes
<1>2. CASE LoopTop \/ Select \/ RemoveWritten \/ ServeEnds \/ CloseMirrors \/ Tick \/ \E x \in Mirrors :
             ClientReads(x)
  BY <1>2 DEF LoopTop, Select, RemoveWritten, Removes, ServeEnds, CloseMirrors, Tick, ClientReads
<1>3. ASSUME NEW e, PumpRx(e) \/ PumpFails(e) \/ PumpTx(e) \/ PumpClosed(e) PROVE group' = group
  BY <1>3 DEF PumpRx, PumpFails, PumpTx, PumpClosed
<1> QED BY <1>1, <1>2, <1>3 DEF MirrorNext, MirrorStep

LEMMA RxKept ==
  ASSUME MirrorTypeOK, WrittenInv, MirrorNext, NEW m \in Mirrors, RxInv(m)
  PROVE  RxInv(m)'
<1>1. /\ broadcast \in Nat /\ Shown(m) \in Seq(Nat) /\ (group = "off" => group' = "off")
      /\ Account(Shown(m), Lost(m), broadcast)
      /\ group # "off" => ToSet(Shown(m)) \union Lost(m) = 1..broadcast
  BY MirrorTypes, ShownTypes, NeverBack DEF RxInv
<1>2. CASE Keeps(m)
  BY <1>1, <1>2 DEF Keeps, RxInv
<1>3. CASE Shows(m)
  <2>1. /\ Account(Append(Shown(m), broadcast + 1), Lost(m), broadcast + 1)
        /\ ToSet(Append(Shown(m), broadcast + 1)) = ToSet(Shown(m)) \union {broadcast + 1}
    BY <1>1, AccountAppends
  <2>2. 1..(broadcast + 1) = (1..broadcast) \union {broadcast + 1}
    BY <1>1
  <2> QED BY <1>1, <1>3, <2>1, <2>2 DEF Shows, RxInv
<1>4. CASE Misses(m)
  <2>1. /\ Account(Shown(m), Lost(m), broadcast + 1)
        /\ Account(Shown(m), Lost(m) \union {broadcast + 1}, broadcast + 1)
    BY <1>1, AccountMore
  <2>2. 1..(broadcast + 1) = (1..broadcast) \union {broadcast + 1}
    BY <1>1
  <2> QED BY <1>1, <1>4, <2>1, <2>2 DEF Misses, RxInv
<1>5. CASE Throws(m)
  <2>1. PICK a, b \in Seq(Nat) : Shown(m) = Cat(a, b) /\ Shown(m)' = a /\ Lost(m)' = Lost(m) \union ToSet(b)
    BY <1>5 DEF Throws
  <2>2. /\ Account(a, Lost(m) \union ToSet(b), broadcast)
        /\ ToSet(Shown(m)) = ToSet(a) \union ToSet(b)
    <3>1. PICK s \in Seq(Nat), n \in Nat : s = Shown(m) /\ n = broadcast
      BY <1>1
    <3>a. PICK missed, more : missed = Lost(m) /\ more = Lost(m) \union ToSet(b)
      OBVIOUS
    <3>2. Joins(s, a, b) /\ Account(s, missed, n)
      BY <1>1, <2>1, <3>1, <3>a DEF Joins
    <3>b. more = missed \union ToSet(b)
      BY <3>a
    <3>3. Account(a, more, n)
      BY <3>2, <3>b, AccountCut
    <3>4. ToSet(s) = ToSet(a) \union ToSet(b)
      BY <3>2, SetOfConcat DEF Joins, Cat
    <3> QED BY <2>1, <3>1, <3>a, <3>3, <3>4
  <2> QED BY <1>1, <1>5, <2>1, <2>2 DEF Throws, RxInv
<1> QED BY <1>2, <1>3, <1>4, <1>5, RxSteps

LEMMA WrittenKept ==
  ASSUME MirrorTypeOK, WrittenInv, MirrorNext
  PROVE  WrittenInv'
<1>a. serve \in Serving /\ NextWork(serve.todo) \in {"top", "work"}
  BY ServingTypes DEF Serving
<1>1. CASE Broadcast
  <2>1. SUFFICES ASSUME At("written") PROVE serve.wrote <= Len(out'[serve.m])
    BY <1>1 DEF Broadcast, WrittenInv, At
  <2>2. PICK m \in Mirrors : m = serve.m
    BY <1>a DEF Serving
  <2>3. PICK s \in Seq(Nat), n \in Nat : s = out[m] /\ n = broadcast + 1
    BY MirrorTypes
  <2>4. out'[m] = s \/ out'[m] = Append(s, n)
    BY <1>1, <2>3 DEF Broadcast
  <2>5. Len(Append(s, n)) = Len(s) + 1 /\ Len(s) \in Nat
    BY AppendProperties
  <2>6. serve.wrote <= Len(s) /\ serve.wrote \in Nat
    BY <1>a, <2>1, <2>2, <2>3 DEF WrittenInv, Serving
  <2> QED BY <2>2, <2>4, <2>5, <2>6
<1>2. CASE Forwarded \/ StopMirrors \/ Tick \/ \E x \in Mirrors, ends \in BOOLEAN : ClientTypes(x, ends)
  <2>1. CASE Forwarded
    BY <2>1, <1>a DEF Forwarded, WrittenInv, At, Serving
  <2> QED BY <1>2, <2>1 DEF StopMirrors, Tick, ClientTypes, WrittenInv, At
<1>3. CASE LoopTop \/ Select \/ ServeEnds \/ RemoveWritten
  <2>1. serve'.at # "written"
    BY <1>3, <1>a DEF LoopTop, Select, ServeEnds, RemoveWritten, Removes, Serving
  <2> QED BY <2>1 DEF WrittenInv, At
<1>4. CASE CloseMirrors
  BY <1>4 DEF CloseMirrors, WrittenInv, At
<1>5. CASE \E x \in Mirrors : ClientReads(x)
  BY <1>5 DEF ClientReads, WrittenInv, At
<1>6. ASSUME NEW e, PumpRx(e) \/ PumpFails(e) \/ PumpTx(e) \/ PumpClosed(e) PROVE WrittenInv'
  <2>0. e \in serve.todo
    BY <1>6 DEF PumpRx, PumpFails, PumpTx, PumpClosed, Takes
  <2>a. Back(e) \in {"top", "work"}
    BY <2>0, ServingTypes
  <2>1. CASE PumpRx(e)
    <3>1. out' = out /\ serve'.m = e.m /\ serve'.wrote <= Len(out[e.m])
      BY <2>0, <2>1, PumpRxTypes DEF PumpRx
    <3> QED BY <3>1 DEF WrittenInv
  <2>2. CASE PumpFails(e) \/ PumpClosed(e)
    <3>1. serve'.at # "written"
      BY <1>a, <2>2, <2>a DEF PumpFails, PumpClosed, Serving
    <3> QED BY <3>1 DEF WrittenInv, At
  <2>3. CASE PumpTx(e)
    <3>1. PICK buf \in Seq(Unit) : \E cut \in 0..Len(buf) :
             serve' = [serve EXCEPT !.m = e.m, !.ready = SubSeq(buf, 1, cut), !.todo = @ \ {e},
                                    !.at = IF cut = 0 THEN Back(e) ELSE "forward"]
      BY <2>0, <2>3, PumpTxIs, Zenon
    <3>2. PICK cut \in 0..Len(buf) :
             serve' = [serve EXCEPT !.m = e.m, !.ready = SubSeq(buf, 1, cut), !.todo = @ \ {e},
                                    !.at = IF cut = 0 THEN Back(e) ELSE "forward"]
      BY <3>1
    <3>3. serve'.at # "written"
      BY <1>a, <2>a, <3>2 DEF Serving
    <3> QED BY <3>3 DEF WrittenInv, At
  <2> QED BY <1>6, <2>1, <2>2, <2>3
<1> QED BY <1>1, <1>2, <1>3, <1>4, <1>5, <1>6 DEF MirrorNext, MirrorStep

-----------------------------------------------------------------------------
(* A client that drains *)

\* What waits for it has waited for one tick at most, and not at all if it took something since.
DrainInv(m) ==
  m \in drains /\ ~held =>
    /\ lost[m]["stale"] \union lost[m]["flushed"] = {} \/ group = "off"
    /\ out[m] # <<>> => idle[m] <= 1 /\ (m \in moving => idle[m] = 0)

LEMMA DrainKept ==
  ASSUME MirrorTypeOK, MirrorNext, NEW m \in Mirrors, DrainInv(m), MaxLag # 1
  PROVE  DrainInv(m)'
<1>a. /\ lost[m] \in [Losses -> SUBSET Nat] /\ idle[m] \in 0..MaxLag /\ serve \in Serving
      /\ group = "off" => group' = "off"
  BY MirrorTypes, ServingTypes, NeverBack
<1>1. CASE Broadcast
  <2>1. /\ UNCHANGED <<drains, held, moving, group>>
        /\ lost'[m]["stale"] = lost[m]["stale"] /\ lost'[m]["flushed"] = lost[m]["flushed"]
    BY <1>1, <1>a DEF Broadcast, Losses
  <2>2. CASE group \in {"running", "stopping"}
    BY <1>1, <2>1, <2>2 DEF Broadcast, DrainInv
  <2>3. CASE group \notin {"running", "stopping"}
    BY <1>1, <2>1, <2>3 DEF Broadcast, DrainInv
  <2> QED BY <2>2, <2>3
<1>2. CASE Forwarded \/ StopMirrors \/ \E x \in Mirrors, ends \in BOOLEAN : ClientTypes(x, ends)
  BY <1>2 DEF Forwarded, StopMirrors, ClientTypes, DrainInv
<1>3. CASE LoopTop
  <2>1. UNCHANGED <<drains, held, moving, group, idle>>
    BY <1>3 DEF LoopTop
  <2>2. CASE Stale(m)
    <3>1. out[m] # <<>> /\ idle[m] = MaxLag /\ MaxLag > 1
      BY <2>2 DEF Stale
    <3>2. m \in drains /\ ~held => FALSE
      BY <1>a, <3>1 DEF DrainInv
    <3> QED BY <2>1, <3>2 DEF DrainInv
  <2>3. CASE ~Stale(m)
    <3>1. out'[m] = out[m] /\ lost'[m] = lost[m]
      BY <1>3, <2>3 DEF LoopTop, DropIfStale
    <3> QED BY <2>1, <3>1 DEF DrainInv
  <2> QED BY <2>2, <2>3
<1>4. CASE Select \/ ServeEnds \/ \E x \in Mirrors : ClientReads(x)
  BY <1>4 DEF Select, ServeEnds, ClientReads, DrainInv
<1>5. CASE RemoveWritten
  <2>1. PICK x \in Mirrors : Removes(x, Left(x), Taken(x))
    BY <1>5 DEF RemoveWritten
  <2>2. UNCHANGED <<drains, held, group, lost>> /\ At("written") /\ x = serve.m
    BY <2>1 DEF Removes
  <2>3. CASE m # x
    <3>1. out'[m] = out[m] /\ idle'[m] = idle[m] /\ (m \in moving' <=> m \in moving)
      BY <2>1, <2>3 DEF Removes, MirrorTypeOK
    <3> QED BY <2>2, <3>1 DEF DrainInv
  <2>4. CASE m = x
    <3>1. out'[m] = Left(m) /\ idle'[m] = Taken(m)
      BY <2>1, <2>4 DEF Removes, MirrorTypeOK
    <3>2. CASE serve.wrote > 0
      BY <2>2, <3>1, <3>2 DEF DrainInv, Taken
    <3>3. CASE ~(serve.wrote > 0)
      <4>1. serve.wrote = 0 /\ out[m] \in Seq(Nat)
        BY <1>a, <3>3, MirrorTypes DEF Serving
      <4>2. SubSeq(out[m], 1, Len(out[m])) = out[m]
        BY <4>1, SubSeqFull
      <4>3. out'[m] = out[m]
        BY <3>1, <4>1, <4>2 DEF Left
      <4>4. idle'[m] = idle[m] /\ moving' = moving
        BY <2>1, <3>1, <3>3 DEF Taken, Removes
      <4> QED BY <2>2, <4>3, <4>4 DEF DrainInv
    <3> QED BY <3>2, <3>3
  <2> QED BY <2>3, <2>4
<1>6. CASE CloseMirrors
  <2>1. out'[m] = <<>> /\ group' = "off"
    BY <1>6 DEF CloseMirrors
  <2> QED BY <2>1 DEF DrainInv
<1>7. CASE Tick
  <2>1. UNCHANGED <<drains, group, lost, out>> /\ held' = (held \/ At("forward"))
    BY <1>7 DEF Tick
  <2>2. SUFFICES ASSUME m \in drains, ~held, ~At("forward"), out[m] # <<>>
                 PROVE  idle'[m] <= 1 /\ (m \in moving' => idle'[m] = 0)
    BY <2>1 DEF DrainInv
  <2>3. m \in moving /\ idle[m] = 0
    BY <1>7, <2>2 DEF Tick, DrainInv
  <2>4. m \notin moving' /\ idle'[m] = IF idle[m] < MaxLag THEN idle[m] + 1 ELSE MaxLag
    BY <1>7, <2>2 DEF Tick
  <2> QED BY <2>3, <2>4
<1>8. ASSUME NEW e, PumpRx(e) \/ PumpFails(e) \/ PumpTx(e) \/ PumpClosed(e) PROVE DrainInv(m)'
  <2>1. CASE PumpRx(e) \/ PumpTx(e) \/ PumpClosed(e)
    BY <2>1 DEF PumpRx, PumpTx, PumpClosed, DrainInv
  <2>2. CASE PumpFails(e)
    <3>1. UNCHANGED <<drains, held, moving, group, idle>> /\ (out'[m] = out[m] \/ out'[m] = <<>>)
      BY <2>2 DEF PumpFails, MirrorTypeOK
    <3>2. lost'[m]["stale"] = lost[m]["stale"] /\ lost'[m]["flushed"] = lost[m]["flushed"]
      BY <2>2, <1>a DEF PumpFails, Lose, Losses, MirrorTypeOK
    <3> QED BY <3>1, <3>2 DEF DrainInv
  <2> QED BY <1>8, <2>1, <2>2
<1> QED BY <1>1, <1>2, <1>3, <1>4, <1>5, <1>6, <1>7, <1>8 DEF MirrorNext, MirrorStep

-----------------------------------------------------------------------------
(* From the clients to the device: what was typed leaves in order, in whole lines *)

TxInv(m) ==
  /\ Len(Typing(m)) = typedAll[m]
  /\ \A i \in 1..Len(Typing(m)) : Typing(m)[i].n = i

LEMMA TypingTypes ==
  ASSUME MirrorTypeOK, NEW m \in Mirrors
  PROVE  /\ Forwards(m) \in Seq(Unit) /\ Forwards(m) \o txline[m] \in Seq(Unit)
         /\ Typing(m) \in Seq(Unit)
<1>1. PICK f, r, x, y \in Seq(Unit) : f = sentTx[m] /\ r = serve.ready /\ x = txline[m] /\ y = typed[m]
  BY MirrorTypes
<1>2. f \o r \in Seq(Unit)
  BY ConcatProperties
<1>3. Forwards(m) \in Seq(Unit)
  BY <1>1, <1>2 DEF Forwards
<1>4. PICK g \in Seq(Unit) : g = Forwards(m)
  BY <1>3
<1>5. g \o x \in Seq(Unit)
  BY ConcatProperties
<1>6. PICK h \in Seq(Unit) : h = g \o x
  BY <1>5
<1>7. h \o y \in Seq(Unit)
  BY ConcatProperties
<1> QED BY <1>1, <1>3, <1>4, <1>5, <1>6, <1>7 DEF Typing

TypesOn(m) == Typing(m)' = Typing(m) /\ typedAll'[m] = typedAll[m]
TypesMore(m) == \E u \in Unit : /\ u.n = typedAll[m] + 1
                              /\ Typing(m)' = Append(Typing(m), u)
                              /\ typedAll'[m] = typedAll[m] + 1

LEMMA TypesAside ==
  ASSUME NEW m \in Mirrors, UNCHANGED <<sentTx, txline, typed, typedAll>>,
         serve' = serve \/ (~At("forward") /\ ~At("forward")')
  PROVE  TypesOn(m)
<1>1. Forwards(m)' = Forwards(m)
  BY DEF Forwards, At
<1> QED BY <1>1 DEF TypesOn, Typing

LEMMA PumpTxTypes ==
  ASSUME MirrorTypeOK, NEW e, PumpTx(e), NEW m \in Mirrors
  PROVE  TypesOn(m)
<1>0. e \in serve.todo /\ ~At("forward")
  BY DEF PumpTx, Takes, At
<1>a. e.m \in Mirrors /\ serve \in Serving /\ Back(e) \in {"top", "work"}
  BY <1>0, ServingTypes
<1>1. PICK buf \in Seq(Unit) : \E cut \in 0..Len(buf) :
           /\ buf = txline[e.m] \o typed[e.m]
           /\ txline' = [txline EXCEPT ![e.m] = SubSeq(buf, cut + 1, Len(buf))]
           /\ serve' = [serve EXCEPT !.m = e.m, !.ready = SubSeq(buf, 1, cut), !.todo = @ \ {e},
                                     !.at = IF cut = 0 THEN Back(e) ELSE "forward"]
  BY <1>0, PumpTxIs, Zenon
<1>2. PICK cut \in 0..Len(buf) :
           /\ buf = txline[e.m] \o typed[e.m]
           /\ txline' = [txline EXCEPT ![e.m] = SubSeq(buf, cut + 1, Len(buf))]
           /\ serve' = [serve EXCEPT !.m = e.m, !.ready = SubSeq(buf, 1, cut), !.todo = @ \ {e},
                                     !.at = IF cut = 0 THEN Back(e) ELSE "forward"]
  BY <1>1
<1>3. UNCHANGED <<sentTx, typedAll>> /\ typed' = [typed EXCEPT ![e.m] = <<>>]
  BY Zenon DEF PumpTx
<1>4. /\ serve'.m = e.m /\ serve'.ready = SubSeq(buf, 1, cut)
      /\ serve'.at = IF cut = 0 THEN Back(e) ELSE "forward"
  <2> DEFINE sub == SubSeq(buf, 1, cut)
  <2>1. serve' = [serve EXCEPT !.m = e.m, !.ready = sub, !.todo = @ \ {e},
                               !.at = IF cut = 0 THEN Back(e) ELSE "forward"]
    BY <1>2
  <2> HIDE DEF sub
  <2>2. serve'.m = e.m /\ serve'.ready = sub /\ serve'.at = IF cut = 0 THEN Back(e) ELSE "forward"
    BY <1>a, <2>1 DEF Serving
  <2> QED BY <2>2 DEF sub
<1>5. CASE m # e.m
  <2>1. Forwards(m)' = Forwards(m)
    BY <1>0, <1>3, <1>4, <1>5 DEF Forwards, At
  <2>2. txline'[m] = txline[m] /\ typed'[m] = typed[m]
    BY <1>2, <1>3, <1>5 DEF MirrorTypeOK
  <2> QED BY <1>3, <2>1, <2>2 DEF TypesOn, Typing
<1>6. CASE m = e.m
  <2>1. PICK f, x, y \in Seq(Unit) : f = sentTx[m] /\ x = txline[m] /\ y = typed[m]
    BY MirrorTypes
  <2>a. /\ SubSeq(buf, 1, cut) \in Seq(Unit) /\ SubSeq(buf, cut + 1, Len(buf)) \in Seq(Unit)
        /\ SubSeq(buf, 1, cut) \o SubSeq(buf, cut + 1, Len(buf)) = buf /\ Len(SubSeq(buf, 1, cut)) = cut
    BY Cut
  <2>2. PICK a, b \in Seq(Unit) : /\ a = SubSeq(buf, 1, cut) /\ b = SubSeq(buf, cut + 1, Len(buf))
                                  /\ a \o b = buf /\ Len(a) = cut
    BY <2>a, Zenon
  <2>3. Typing(m) = Cat(Cat(f, x), y) /\ buf = Cat(x, y) /\ buf = Cat(a, b)
    BY <1>0, <1>2, <1>6, <2>1, <2>2 DEF Typing, Forwards, Cat
  <2>4. Typing(m) = Cat(f, Cat(a, b))
    <3>1. Cat(Cat(f, x), y) = Cat(f, Cat(x, y))
      BY CatIs
    <3> QED BY <2>3, <3>1, Zenon
  <2>5. txline'[m] = b /\ typed'[m] = <<>>
    BY <1>2, <1>3, <1>6, <2>2 DEF MirrorTypeOK
  <2>6. Forwards(m)' = Cat(f, a)
    <3>1. CASE cut = 0
      <4>1. a = <<>>
        BY <2>2, <3>1
      <4>2. f \o <<>> = f
        BY ConcatEmptySeq
      <4>3. Forwards(m)' = f
        BY <1>3, <1>4, <1>a, <2>1, <3>1 DEF Forwards, At
      <4> QED BY <4>1, <4>2, <4>3 DEF Cat
    <3>2. CASE cut # 0
      BY <1>3, <1>4, <1>6, <2>1, <2>2, <3>2 DEF Forwards, At, Cat
    <3> QED BY <3>1, <3>2
  <2>7. Typing(m)' = Cat(Cat(f, a), b) \o <<>>
    BY <2>5, <2>6 DEF Typing, Cat
  <2>8. Cat(Cat(f, a), b) = Cat(f, Cat(a, b)) /\ Cat(Cat(f, a), b) \in Seq(Unit)
    <3>1. Cat(f, a) \in Seq(Unit)
      BY CatIs
    <3> QED BY <3>1, CatIs
  <2>9. Typing(m)' = Cat(f, Cat(a, b))
    BY <2>7, <2>8, ConcatEmptySeq
  <2> QED BY <1>3, <2>4, <2>9 DEF TypesOn
<1> QED BY <1>5, <1>6

LEMMA ForwardedTypes ==
  ASSUME MirrorTypeOK, Forwarded, NEW m \in Mirrors
  PROVE  TypesOn(m)
<1>a. serve \in Serving /\ NextWork(serve.todo) \in {"top", "work"} /\ serve.m \in Mirrors
  BY ServingTypes DEF Serving
<1>0. At("forward") /\ UNCHANGED <<txline, typed, typedAll>>
  BY DEF Forwarded
<1>1. PICK ready \in Seq(Unit) : \E k \in 1..Len(ready) :
           /\ ready = serve.ready
           /\ sentTx' = [sentTx EXCEPT ![serve.m] = @ \o SubSeq(ready, 1, k)]
           /\ serve' = [serve EXCEPT !.ready = SubSeq(ready, k + 1, Len(ready)),
                                     !.at = IF k < Len(ready) THEN "forward" ELSE NextWork(serve.todo)]
  BY ForwardedIs, Zenon
<1>2. PICK k \in 1..Len(ready) :
           /\ ready = serve.ready
           /\ sentTx' = [sentTx EXCEPT ![serve.m] = @ \o SubSeq(ready, 1, k)]
           /\ serve' = [serve EXCEPT !.ready = SubSeq(ready, k + 1, Len(ready)),
                                     !.at = IF k < Len(ready) THEN "forward" ELSE NextWork(serve.todo)]
  BY <1>1
<1>3. k \in 0..Len(ready)
  BY <1>2
<1>b. /\ SubSeq(ready, 1, k) \in Seq(Unit) /\ SubSeq(ready, k + 1, Len(ready)) \in Seq(Unit)
      /\ SubSeq(ready, 1, k) \o SubSeq(ready, k + 1, Len(ready)) = ready
      /\ Len(SubSeq(ready, k + 1, Len(ready))) = Len(ready) - k
  BY <1>3, Cut
<1>4. PICK a, b \in Seq(Unit) : /\ a = SubSeq(ready, 1, k) /\ b = SubSeq(ready, k + 1, Len(ready))
                                /\ a \o b = ready /\ Len(b) = Len(ready) - k
  BY <1>b, Zenon
<1>5. /\ serve'.ready = b /\ serve'.m = serve.m
      /\ serve'.at = IF k < Len(ready) THEN "forward" ELSE NextWork(serve.todo)
  <2>1. serve' = [serve EXCEPT !.ready = b,
                               !.at = IF k < Len(ready) THEN "forward" ELSE NextWork(serve.todo)]
    BY <1>2, <1>4
  <2> QED BY <1>a, <2>1 DEF Serving
<1>6. sentTx'[m] = IF m = serve.m THEN sentTx[m] \o a ELSE sentTx[m]
  BY <1>2, <1>4, <1>a DEF MirrorTypeOK
<1>7. CASE m # serve.m
  BY <1>0, <1>5, <1>6, <1>7 DEF TypesOn, Typing, Forwards
<1>8. CASE m = serve.m
  <2>1. PICK f \in Seq(Unit) : f = sentTx[m]
    BY MirrorTypes
  <2>2. Forwards(m) = Cat(f, Cat(a, b))
    BY <1>0, <1>2, <1>4, <1>8, <2>1 DEF Forwards, Cat
  <2>3. Forwards(m)' = Cat(Cat(f, a), b)
    <3>1. CASE k < Len(ready)
      BY <1>5, <1>6, <1>8, <2>1, <3>1 DEF Forwards, At, Cat
    <3>2. CASE ~(k < Len(ready))
      <4>1. b = <<>>
        BY <1>4, <3>2
      <4>2. f \o a \in Seq(Unit)
        BY ConcatProperties
      <4>3. PICK g \in Seq(Unit) : g = f \o a
        BY <4>2
      <4>4. g \o <<>> = g
        BY ConcatEmptySeq
      <4>5. Forwards(m)' = g
        BY <1>5, <1>6, <1>8, <1>a, <2>1, <3>2, <4>3 DEF Forwards, At
      <4> QED BY <4>1, <4>3, <4>4, <4>5 DEF Cat
    <3> QED BY <3>1, <3>2
  <2>4. Cat(Cat(f, a), b) = Cat(f, Cat(a, b))
    BY CatIs
  <2> QED BY <1>0, <2>2, <2>3, <2>4 DEF TypesOn, Typing
<1> QED BY <1>7, <1>8

LEMMA TxSteps ==
  ASSUME MirrorTypeOK, MirrorNext, NEW m \in Mirrors
  PROVE  TypesOn(m) \/ TypesMore(m)
<1>a. serve \in Serving /\ NextWork(serve.todo) \in {"top", "work"}
  BY ServingTypes DEF Serving
<1>1. CASE Broadcast \/ StopMirrors \/ Tick \/ CloseMirrors \/ \E x \in Mirrors : ClientReads(x)
  BY <1>1, TypesAside DEF Broadcast, StopMirrors, Tick, CloseMirrors, ClientReads
<1>2. CASE LoopTop \/ Select \/ ServeEnds
  <2>1. ~At("forward") /\ ~At("forward")'
    BY <1>2, <1>a DEF LoopTop, Select, ServeEnds, At, Serving
  <2> QED BY <1>2, <2>1, TypesAside DEF LoopTop, Select, ServeEnds
<1>3. CASE RemoveWritten
  <2>1. ~At("forward") /\ ~At("forward")'
    BY <1>3, <1>a DEF RemoveWritten, Removes, At, Serving
  <2> QED BY <1>3, <2>1, TypesAside DEF RemoveWritten, Removes
<1>4. ASSUME NEW e, PumpRx(e) \/ PumpFails(e) \/ PumpClosed(e) PROVE TypesOn(m)
  <2>0. e \in serve.todo /\ ~At("forward")
    BY <1>4 DEF PumpRx, PumpFails, PumpClosed, Takes, At
  <2>a. Back(e) \in {"top", "work"}
    BY <2>0, ServingTypes
  <2>1. ~At("forward")'
    <3>1. CASE PumpRx(e)
      BY <2>0, <3>1, PumpRxTypes DEF At
    <3>2. CASE PumpFails(e) \/ PumpClosed(e)
      BY <1>a, <2>a, <3>2 DEF PumpFails, PumpClosed, Serving, At
    <3> QED BY <1>4, <3>1, <3>2
  <2> QED BY <1>4, <2>0, <2>1, TypesAside DEF PumpRx, PumpFails, PumpClosed
<1>5. ASSUME NEW e, PumpTx(e) PROVE TypesOn(m)
  BY <1>5, PumpTxTypes
<1>6. CASE Forwarded
  BY <1>6, ForwardedTypes
<1>7. ASSUME NEW x \in Mirrors, NEW ends \in BOOLEAN, ClientTypes(x, ends) PROVE TypesOn(m) \/ TypesMore(m)
  <2>1. UNCHANGED <<sentTx, txline, serve>>
    BY <1>7 DEF ClientTypes
  <2>2. Forwards(m)' = Forwards(m)
    BY <2>1 DEF Forwards, At
  <2>3. CASE m # x
    <3>1. typed'[m] = typed[m] /\ typedAll'[m] = typedAll[m]
      BY <1>7, <2>3 DEF ClientTypes, MirrorTypeOK
    <3> QED BY <2>1, <2>2, <3>1 DEF TypesOn, Typing
  <2>4. CASE m = x
    <3>1. [n |-> typedAll[m] + 1, ends |-> ends] \in Unit
      BY MirrorTypes DEF Unit
    <3>2. PICK u \in Unit : u = [n |-> typedAll[m] + 1, ends |-> ends]
      BY <3>1
    <3>3. typed'[m] = Append(typed[m], u) /\ typedAll'[m] = typedAll[m] + 1
      BY <1>7, <2>4, <3>2 DEF ClientTypes, MirrorTypeOK
    <3>4. PICK g, y \in Seq(Unit) : g = Forwards(m) \o txline[m] /\ y = typed[m]
      BY TypingTypes, MirrorTypes
    <3>5. g \o Append(y, u) = Append(g \o y, u)
      BY ConcatAppend
    <3>6. Typing(m)' = Append(Typing(m), u)
      BY <2>1, <2>2, <3>3, <3>4, <3>5 DEF Typing
    <3> QED BY <3>2, <3>3, <3>6 DEF TypesMore
  <2> QED BY <2>3, <2>4
<1> QED BY <1>1, <1>2, <1>3, <1>4, <1>5, <1>6, <1>7 DEF MirrorNext, MirrorStep

LEMMA TxKept ==
  ASSUME MirrorTypeOK, MirrorNext, NEW m \in Mirrors, TxInv(m)
  PROVE  TxInv(m)'
<1>1. CASE TypesOn(m)
  BY <1>1 DEF TypesOn, TxInv
<1>2. CASE TypesMore(m)
  <2>1. PICK u \in Unit : /\ u.n = typedAll[m] + 1 /\ Typing(m)' = Append(Typing(m), u)
                          /\ typedAll'[m] = typedAll[m] + 1
    BY <1>2 DEF TypesMore
  <2>2. PICK s \in Seq(Unit) : s = Typing(m)
    BY TypingTypes
  <2>3. PICK t \in Seq(Unit) : t = Append(s, u)
    BY AppendProperties
  <2>4. Len(t) = Len(s) + 1 /\ t[Len(s) + 1] = u /\ Len(s) \in Nat /\ \A i \in 1..Len(s) : t[i] = s[i]
    BY <2>3, AppendProperties
  <2>5. Len(s) = typedAll[m] /\ \A i \in 1..Len(s) : s[i].n = i
    BY <2>2 DEF TxInv
  <2>6. ASSUME NEW i \in 1..Len(t) PROVE t[i].n = i
    <3>1. i \in 1..Len(s) \/ i = Len(s) + 1
      BY <2>4
    <3> QED BY <2>1, <2>4, <2>5, <3>1
  <2>7. Len(t) = typedAll'[m]
    BY <2>1, <2>4, <2>5
  <2>8. Typing(m)' = t
    BY <2>1, <2>2, <2>3
  <2> QED BY <2>6, <2>7, <2>8 DEF TxInv
<1> QED BY <1>1, <1>2, TxSteps

\* Where the pieces handed over ended; and that what the serving thread has yet to hand over ends
\* a line, or in as much without an end of a line as a line may be long.
EndsReady(ready) ==
  /\ Len(ready) > 0
  /\ \/ ready[Len(ready)].ends
     \/ /\ Len(ready) >= LineMax
        /\ \A j \in (Len(ready) + 1 - LineMax)..Len(ready) : ~ready[j].ends

PieceInv(m) ==
  /\ pieces[m] \subseteq 1..Len(sentTx[m])
  /\ merge = "line" =>
       /\ \A i \in 1..Len(sentTx[m]) : sentTx[m][i].ends => i \in pieces[m]
       /\ \A i \in pieces[m] : EndsPiece(m, i)
       /\ At("forward") /\ serve.m = m => EndsReady(serve.ready)

LEMMA PieceAside ==
  ASSUME NEW m \in Mirrors, PieceInv(m), UNCHANGED <<merge, sentTx, pieces>>,
         serve' = serve \/ ~At("forward")'
  PROVE  PieceInv(m)'
<1>1. \A i : EndsPiece(m, i)' <=> EndsPiece(m, i)
  BY DEF EndsPiece
<1> QED BY <1>1 DEF PieceInv, At

LEMMA PumpTxPieces ==
  ASSUME MirrorTypeOK, NEW e, PumpTx(e), NEW m \in Mirrors, PieceInv(m)
  PROVE  PieceInv(m)'
<1>0. e \in serve.todo
  BY DEF PumpTx, Takes
<1>a. e.m \in Mirrors /\ serve \in Serving /\ Back(e) \in {"top", "work"}
  BY <1>0, ServingTypes
<1>1. PICK buf \in Seq(Unit) : \E cut \in 0..Len(buf) :
           /\ CutAt(buf, cut)
           /\ serve' = [serve EXCEPT !.m = e.m, !.ready = SubSeq(buf, 1, cut), !.todo = @ \ {e},
                                     !.at = IF cut = 0 THEN Back(e) ELSE "forward"]
  BY <1>0, PumpTxIs, Zenon
<1>2. PICK cut \in 0..Len(buf) :
           /\ CutAt(buf, cut)
           /\ serve' = [serve EXCEPT !.m = e.m, !.ready = SubSeq(buf, 1, cut), !.todo = @ \ {e},
                                     !.at = IF cut = 0 THEN Back(e) ELSE "forward"]
  BY <1>1
<1>3. UNCHANGED <<merge, sentTx, pieces>>
  BY DEF PumpTx
<1>4. /\ SubSeq(buf, 1, cut) \in Seq(Unit) /\ Len(SubSeq(buf, 1, cut)) = cut
      /\ \A i \in 1..cut : SubSeq(buf, 1, cut)[i] = buf[i]
  BY Cut
<1>5. PICK ready \in Seq(Unit) : ready = SubSeq(buf, 1, cut)
  BY <1>4, Zenon
<1>6. Len(ready) = cut /\ \A i \in 1..cut : ready[i] = buf[i]
  BY <1>4, <1>5
<1>7. /\ serve'.ready = ready /\ serve'.at = IF cut = 0 THEN Back(e) ELSE "forward"
  <2>1. serve' = [serve EXCEPT !.m = e.m, !.ready = ready, !.todo = @ \ {e},
                               !.at = IF cut = 0 THEN Back(e) ELSE "forward"]
    BY <1>2, <1>5
  <2> QED BY <1>a, <2>1 DEF Serving
<1>8. merge = "line" /\ cut # 0 => EndsReady(ready)
  <2> SUFFICES ASSUME merge = "line", cut # 0 PROVE EndsReady(ready)
    OBVIOUS
  <2>1. cut \in 1..cut /\ cut > 0
    OBVIOUS
  <2>2. CASE buf[cut].ends
    BY <1>6, <2>1, <2>2 DEF EndsReady
  <2>3. CASE cut >= LineMax /\ \A j \in (cut + 1 - LineMax)..cut : ~buf[j].ends
    <3>1. ASSUME NEW j \in (cut + 1 - LineMax)..cut PROVE ~ready[j].ends
      <4>1. j \in 1..cut
        BY <2>3
      <4> QED BY <1>6, <2>3, <4>1
    <3> QED BY <1>6, <2>1, <2>3, <3>1 DEF EndsReady
  <2> QED BY <1>2, <2>1, <2>2, <2>3 DEF CutAt
<1>9. \A i : EndsPiece(m, i)' <=> EndsPiece(m, i)
  BY <1>3 DEF EndsPiece
<1>10. At("forward")' => cut # 0
  BY <1>7, <1>a DEF At
<1> QED BY <1>3, <1>7, <1>8, <1>9, <1>10 DEF PieceInv

LEMMA ForwardedPieces ==
  ASSUME MirrorTypeOK, Forwarded, NEW m \in Mirrors, PieceInv(m)
  PROVE  PieceInv(m)'
<1>a. serve \in Serving /\ NextWork(serve.todo) \in {"top", "work"} /\ serve.m \in Mirrors
  BY ServingTypes DEF Serving
<1>0. At("forward") /\ merge' = merge
  BY DEF Forwarded
<1>1. PICK ready \in Seq(Unit) : \E k \in 1..Len(ready) :
           /\ ready = serve.ready /\ IsPiece(ready, k)
           /\ sentTx' = [sentTx EXCEPT ![serve.m] = @ \o SubSeq(ready, 1, k)]
           /\ pieces' = [pieces EXCEPT ![serve.m] = @ \union {Len(sentTx[serve.m]) + k}]
           /\ serve' = [serve EXCEPT !.ready = SubSeq(ready, k + 1, Len(ready)),
                                     !.at = IF k < Len(ready) THEN "forward" ELSE NextWork(serve.todo)]
  BY ForwardedIs, Zenon
<1>2. PICK k \in 1..Len(ready) :
           /\ ready = serve.ready /\ IsPiece(ready, k)
           /\ sentTx' = [sentTx EXCEPT ![serve.m] = @ \o SubSeq(ready, 1, k)]
           /\ pieces' = [pieces EXCEPT ![serve.m] = @ \union {Len(sentTx[serve.m]) + k}]
           /\ serve' = [serve EXCEPT !.ready = SubSeq(ready, k + 1, Len(ready)),
                                     !.at = IF k < Len(ready) THEN "forward" ELSE NextWork(serve.todo)]
  BY <1>1
<1>3. k \in 0..Len(ready) /\ Len(ready) \in Nat /\ k \in Nat /\ 1 <= k /\ k <= Len(ready)
  BY <1>2
<1>b. /\ SubSeq(ready, 1, k) \in Seq(Unit) /\ SubSeq(ready, k + 1, Len(ready)) \in Seq(Unit)
      /\ Len(SubSeq(ready, 1, k)) = k /\ Len(SubSeq(ready, k + 1, Len(ready))) = Len(ready) - k
      /\ \A i \in 1..k : SubSeq(ready, 1, k)[i] = ready[i]
      /\ \A i \in 1..(Len(ready) - k) : SubSeq(ready, k + 1, Len(ready))[i] = ready[k + i]
  BY <1>3, Cut
<1>4. PICK a, b \in Seq(Unit) : a = SubSeq(ready, 1, k) /\ b = SubSeq(ready, k + 1, Len(ready))
  BY <1>b, Zenon
<1>c. /\ Len(a) = k /\ Len(b) = Len(ready) - k
      /\ \A i \in 1..k : a[i] = ready[i]
      /\ \A i \in 1..(Len(ready) - k) : b[i] = ready[k + i]
  BY <1>b, <1>4
<1>5. /\ serve'.ready = b /\ serve'.m = serve.m
      /\ serve'.at = IF k < Len(ready) THEN "forward" ELSE NextWork(serve.todo)
  <2>1. serve' = [serve EXCEPT !.ready = b,
                               !.at = IF k < Len(ready) THEN "forward" ELSE NextWork(serve.todo)]
    BY <1>2, <1>4
  <2> QED BY <1>a, <2>1 DEF Serving
<1>6. CASE m # serve.m
  <2>1. sentTx'[m] = sentTx[m] /\ pieces'[m] = pieces[m]
    BY <1>2, <1>6 DEF MirrorTypeOK
  <2>2. \A i : EndsPiece(m, i)' <=> EndsPiece(m, i)
    BY <2>1 DEF EndsPiece
  <2> QED BY <1>0, <1>5, <1>6, <2>1, <2>2 DEF PieceInv
<1>7. CASE m = serve.m
  <2>1. PICK f \in Seq(Unit), g \in SUBSET Nat : f = sentTx[m] /\ g = pieces[m]
    BY MirrorTypes
  <2>2. Len(f) \in Nat
    OBVIOUS
  <2>3. PICK h \in Seq(Unit) : h = f \o a
    BY ConcatProperties
  <2>z. /\ Len(h) = Len(f) + Len(a)
        /\ \A i \in 1..(Len(f) + Len(a)) : h[i] = IF i <= Len(f) THEN f[i] ELSE a[i - Len(f)]
    BY <2>3, ConcatProperties
  <2>4. /\ Len(h) = Len(f) + k
        /\ \A i \in 1..(Len(f) + k) : h[i] = IF i <= Len(f) THEN f[i] ELSE a[i - Len(f)]
    BY <1>c, <2>z
  <2>5. PICK last \in Nat : last = Len(f) + k
    BY <1>3, <2>2
  <2>6. sentTx'[m] = h /\ pieces'[m] = g \union {last}
    BY <1>2, <1>4, <1>7, <2>1, <2>3, <2>5 DEF MirrorTypeOK
  <2>7. g \subseteq 1..Len(f)
    BY <2>1 DEF PieceInv
  <2>8. g \union {last} \subseteq 1..Len(h)
    <3>1. last \in 1..Len(h) /\ Len(f) <= Len(h)
      BY <1>3, <2>2, <2>4, <2>5
    <3> QED BY <2>2, <2>7, <3>1
  <2>9. ASSUME merge = "line"
        PROVE  /\ \A i \in 1..Len(h) : h[i].ends => i \in g \union {last}
               /\ \A i \in g \union {last} :
                    \/ h[i].ends
                    \/ i >= LineMax /\ \A j \in (i + 1 - LineMax)..(i - 1) : j \notin g \union {last}
               /\ k < Len(ready) => EndsReady(b)
    <3>1. /\ \A i \in 1..Len(f) : f[i].ends => i \in g
          /\ \A i \in g : \/ f[i].ends
                          \/ i >= LineMax /\ \A j \in (i + 1 - LineMax)..(i - 1) : j \notin g
      BY <2>1, <2>9 DEF PieceInv, EndsPiece
    <3>2. EndsReady(ready)
      BY <1>0, <1>2, <1>7, <2>9 DEF PieceInv
    <3>3. k = Len(ready) \/ ready[k].ends
      BY <1>2 DEF IsPiece
    <3>a. \A i \in 1..(k-1) : ~ready[i].ends
      BY <1>2, <2>9 DEF IsPiece
    <3>4. ASSUME NEW i \in 1..Len(h), h[i].ends PROVE i \in g \union {last}
      <4>1. CASE i <= Len(f)
        <5>1. i \in 1..Len(f) /\ h[i] = f[i]
          BY <2>2, <2>4, <4>1, <1>3
        <5> QED BY <3>1, <3>4, <5>1
      <4>2. CASE ~(i <= Len(f))
        <5>1. i - Len(f) \in 1..k /\ h[i] = a[i - Len(f)]
          BY <2>2, <2>4, <4>2, <1>3
        <5>2. ready[i - Len(f)].ends
          BY <1>c, <3>4, <5>1
        <5>3. ~(i - Len(f) \in 1..(k - 1))
          BY <3>a, <5>2
        <5>4. i = last
          BY <1>3, <2>2, <2>5, <5>1, <5>3
        <5> QED BY <5>4
      <4> QED BY <4>1, <4>2
    <3>5. ASSUME NEW i \in g
          PROVE  \/ h[i].ends
                 \/ i >= LineMax /\ \A j \in (i + 1 - LineMax)..(i - 1) : j \notin g \union {last}
      <4>1. i \in 1..Len(f)
        BY <2>7
      <4>2. h[i] = f[i] /\ i < last
        BY <1>3, <2>2, <2>4, <2>5, <4>1
      <4>3. CASE f[i].ends
        BY <4>2, <4>3
      <4>4. CASE i >= LineMax /\ \A j \in (i + 1 - LineMax)..(i - 1) : j \notin g
        <5>1. ASSUME NEW j \in (i + 1 - LineMax)..(i - 1) PROVE j \notin g \union {last}
          <6>1. j < last
            BY <4>1, <4>2
          <6> QED BY <4>4, <6>1
        <5> QED BY <4>4, <5>1
      <4> QED BY <3>1, <4>3, <4>4
    <3>6. \/ h[last].ends
          \/ last >= LineMax /\ \A j \in (last + 1 - LineMax)..(last - 1) : j \notin g \union {last}
      <4>1. h[last] = ready[k]
        <5>1. last \in 1..(Len(f) + k) /\ ~(last <= Len(f)) /\ last - Len(f) = k
          BY <1>3, <2>2, <2>5
        <5>2. k \in 1..k
          BY <1>3
        <5> QED BY <1>c, <2>4, <5>1, <5>2
      <4>2. CASE ready[k].ends
        BY <4>1, <4>2
      <4>3. CASE ~ready[k].ends
        <5>1. k >= LineMax
          BY <3>2, <3>3, <4>3 DEF EndsReady
        <5>2. ASSUME NEW j \in (last + 1 - LineMax)..(last - 1) PROVE j \notin g \union {last}
          <6>1. j > Len(f) /\ j # last
            BY <1>3, <2>2, <2>5, <5>1
          <6> QED BY <2>2, <2>7, <6>1
        <5>3. last >= LineMax
          BY <1>3, <2>2, <2>5, <5>1
        <5> QED BY <5>2, <5>3
      <4> QED BY <4>2, <4>3
    <3>7. ASSUME k < Len(ready) PROVE EndsReady(b)
      <4>1. Len(b) > 0 /\ Len(b) = Len(ready) - k /\ k + Len(b) = Len(ready)
        BY <1>3, <1>c, <3>7
      <4>2. \A i \in 1..Len(b) : b[i] = ready[k + i]
        BY <1>c
      <4>3. b[Len(b)] = ready[Len(ready)]
        <5>1. Len(b) \in 1..Len(b)
          BY <4>1
        <5> QED BY <4>1, <4>2, <5>1
      <4>4. CASE ready[Len(ready)].ends
        BY <4>1, <4>3, <4>4 DEF EndsReady
      <4>5. CASE ~ready[Len(ready)].ends
        <5>1. /\ Len(ready) >= LineMax
              /\ \A j \in (Len(ready) + 1 - LineMax)..Len(ready) : ~ready[j].ends
          BY <3>2, <4>5 DEF EndsReady
        <5>2. ready[k].ends /\ k \in Int
          BY <1>3, <3>3, <3>7
        <5>3. k < Len(ready) + 1 - LineMax
          BY <1>3, <3>7, <5>1, <5>2
        <5>4. Len(b) >= LineMax
          BY <1>3, <4>1, <5>3
        <5>5. ASSUME NEW j \in (Len(b) + 1 - LineMax)..Len(b) PROVE ~b[j].ends
          <6>1. j \in 1..Len(b) /\ k + j \in (Len(ready) + 1 - LineMax)..Len(ready)
            BY <1>3, <4>1, <5>4
          <6> QED BY <4>2, <5>1, <6>1
        <5> QED BY <4>1, <5>4, <5>5 DEF EndsReady
      <4> QED BY <4>4, <4>5
    <3> QED BY <3>4, <3>5, <3>6, <3>7
  <2>10. At("forward")' => k < Len(ready)
    BY <1>5, <1>a DEF At
  <2>11. \A i : EndsPiece(m, i)' =
           (h[i].ends \/ (i >= LineMax /\ \A j \in (i + 1 - LineMax)..(i - 1) : j \notin g \union {last}))
    BY <2>6 DEF EndsPiece
  <2> QED BY <1>0, <1>5, <2>6, <2>8, <2>9, <2>10, <2>11 DEF PieceInv
<1> QED BY <1>6, <1>7

LEMMA PieceKept ==
  ASSUME MirrorTypeOK, MirrorNext, NEW m \in Mirrors, PieceInv(m)
  PROVE  PieceInv(m)'
<1>a. serve \in Serving /\ NextWork(serve.todo) \in {"top", "work"}
  BY ServingTypes DEF Serving
<1>1. CASE Broadcast \/ StopMirrors \/ Tick \/ CloseMirrors \/ (\E x \in Mirrors : ClientReads(x))
           \/ \E x \in Mirrors, ends \in BOOLEAN : ClientTypes(x, ends)
  BY <1>1, PieceAside DEF Broadcast, StopMirrors, Tick, CloseMirrors, ClientReads, ClientTypes
<1>2. CASE LoopTop \/ Select \/ ServeEnds
  <2>1. ~At("forward")'
    BY <1>2, <1>a DEF LoopTop, Select, ServeEnds, At, Serving
  <2> QED BY <1>2, <2>1, PieceAside DEF LoopTop, Select, ServeEnds
<1>3. CASE RemoveWritten
  <2>1. ~At("forward")'
    BY <1>3, <1>a DEF RemoveWritten, Removes, At, Serving
  <2> QED BY <1>3, <2>1, PieceAside DEF RemoveWritten, Removes
<1>4. ASSUME NEW e, PumpRx(e) \/ PumpFails(e) \/ PumpClosed(e) PROVE PieceInv(m)'
  <2>0. e \in serve.todo
    BY <1>4 DEF PumpRx, PumpFails, PumpClosed, Takes
  <2>a. Back(e) \in {"top", "work"}
    BY <2>0, ServingTypes
  <2>1. ~At("forward")'
    <3>1. CASE PumpRx(e)
      BY <2>0, <3>1, PumpRxTypes DEF At
    <3>2. CASE PumpFails(e) \/ PumpClosed(e)
      BY <1>a, <2>a, <3>2 DEF PumpFails, PumpClosed, Serving, At
    <3> QED BY <1>4, <3>1, <3>2
  <2> QED BY <1>4, <2>1, PieceAside DEF PumpRx, PumpFails, PumpClosed
<1>5. ASSUME NEW e, PumpTx(e) PROVE PieceInv(m)'
  BY <1>5, PumpTxPieces
<1>6. CASE Forwarded
  BY <1>6, ForwardedPieces
<1> QED BY <1>1, <1>2, <1>3, <1>4, <1>5, <1>6 DEF MirrorNext, MirrorStep

-----------------------------------------------------------------------------
(* What the mirrors promise, in every behaviour *)

MirrorsInv ==
  /\ use \in Uses /\ MirrorTypeOK /\ WrittenInv
  /\ \A m \in Mirrors : RxInv(m) /\ TxInv(m) /\ PieceInv(m)

LEMMA MirrorsStart ==
  ASSUME Init
  PROVE  MirrorsInv /\ \A m \in Mirrors : DrainInv(m)
<1>1. /\ use.group \in {"absent", "running"} /\ use.merge \in {"raw", "line"} /\ use.drains \subseteq Mirrors
      /\ use \in Uses
  BY UsesAssumption DEF Init
<1>2. MirrorInit(use.group, use.merge, use.drains)
  BY DEF Init
<1>3. <<>> \in Seq(Nat) /\ <<>> \in Seq(Unit) /\ Len(<<>>) = 0 /\ 0 \in 0..PtyRoom /\ 0 \in 0..MaxLag
      /\ 0 \in 0..MaxTyped
  OBVIOUS
<1>4. (CHOOSE m \in Mirrors : TRUE) \in Mirrors
  OBVIOUS
<1>5. MirrorTypeOK
  <2>1. out \in [Mirrors -> Seq(Nat)] /\ kernel \in [Mirrors -> Seq(Nat)] /\ got \in [Mirrors -> Seq(Nat)]
    BY <1>2, <1>3 DEF MirrorInit
  <2>2. /\ typed \in [Mirrors -> Seq(Unit)] /\ txline \in [Mirrors -> Seq(Unit)]
        /\ sentTx \in [Mirrors -> Seq(Unit)]
    BY <1>2, <1>3 DEF MirrorInit
  <2>3. \A m \in Mirrors : out[m] = <<>> /\ kernel[m] = <<>> /\ txline[m] = <<>>
    BY <1>2 DEF MirrorInit
  <2>4. serve \in Serving
    BY <1>2, <1>3, <1>4 DEF MirrorInit, Serving
  <2>5. lost \in [Mirrors -> [Losses -> SUBSET Nat]] /\ pieces \in [Mirrors -> SUBSET Nat]
    BY <1>2 DEF MirrorInit
  <2>6. idle \in [Mirrors -> 0..MaxLag] /\ typedAll \in [Mirrors -> 0..MaxTyped]
    BY <1>2, <1>3 DEF MirrorInit
  <2>7. /\ group \in {"absent", "running", "stopping", "off"} /\ merge \in {"raw", "line"}
        /\ broadcast \in Nat /\ drains \subseteq Mirrors /\ moving \subseteq Mirrors /\ held \in BOOLEAN
    BY <1>1, <1>2 DEF MirrorInit
  <2>8. \A m \in Mirrors : /\ Len(out[m]) <= QueueMax /\ Len(kernel[m]) <= PtyRoom
                           /\ Len(txline[m]) < LineMax
    BY <1>3, <2>3
  <2> QED BY <2>1, <2>2, <2>4, <2>5, <2>6, <2>7, <2>8 DEF MirrorTypeOK, Serving
<1>6. ~At("written") /\ ~At("forward")
  BY <1>2 DEF MirrorInit, At
<1>7. ASSUME NEW m \in Mirrors PROVE RxInv(m) /\ TxInv(m) /\ PieceInv(m) /\ DrainInv(m)
  <2>1. /\ out[m] = <<>> /\ kernel[m] = <<>> /\ got[m] = <<>> /\ typed[m] = <<>> /\ txline[m] = <<>>
        /\ sentTx[m] = <<>> /\ typedAll[m] = 0 /\ broadcast = 0 /\ pieces[m] = {}
        /\ lost[m] = [why \in Losses |-> {}]
    BY <1>2 DEF MirrorInit
  <2>2. <<>> \o <<>> = <<>>
    BY <1>3, ConcatEmptySeq
  <2>3. Shown(m) = <<>>
    BY <1>6, <2>1, <2>2 DEF Shown, Waiting
  <2>4. Typing(m) = <<>>
    BY <1>6, <2>1, <2>2 DEF Typing, Forwards
  <2>5. Lost(m) = {}
    BY <2>1 DEF Lost
  <2>6. RxInv(m)
    BY <1>3, <2>1, <2>3, <2>5, SetOfNone DEF RxInv, Account, Rising
  <2>7. TxInv(m)
    BY <1>3, <2>1, <2>4 DEF TxInv
  <2>8. PieceInv(m)
    BY <1>3, <1>6, <2>1 DEF PieceInv
  <2>9. lost[m]["stale"] \union lost[m]["flushed"] = {}
    BY <2>1 DEF Losses
  <2>10. DrainInv(m)
    BY <2>1, <2>9 DEF DrainInv
  <2> QED BY <2>6, <2>7, <2>8, <2>10
<1> QED BY <1>1, <1>5, <1>6, <1>7 DEF MirrorsInv, WrittenInv

LEMMA MirrorsKept ==
  ASSUME MirrorsInv, [Next]_vars
  PROVE  MirrorsInv'
<1>0. use' = use /\ (MirrorNext \/ UNCHANGED mirrorVars)
  BY MirrorSteps DEF MirrorsInv
<1>1. CASE MirrorNext
  BY <1>0, <1>1, MirrorTyped, WrittenKept, RxKept, TxKept, PieceKept DEF MirrorsInv
<1>2. CASE UNCHANGED mirrorVars
  <2>1. MirrorTypeOK' /\ WrittenInv'
    BY <1>2 DEF mirrorVars, MirrorsInv, MirrorTypeOK, WrittenInv, At
  <2>2. ASSUME NEW m \in Mirrors PROVE RxInv(m)' /\ TxInv(m)' /\ PieceInv(m)'
    <3>1. Shown(m)' = Shown(m) /\ Lost(m)' = Lost(m) /\ Typing(m)' = Typing(m)
      BY <1>2 DEF mirrorVars, Shown, Waiting, Left, Lost, Typing, Forwards, At
    <3>2. UNCHANGED <<broadcast, group, typedAll, merge, sentTx, pieces, serve>>
      BY <1>2 DEF mirrorVars
    <3>3. RxInv(m)' /\ TxInv(m)'
      BY <3>1, <3>2 DEF MirrorsInv, RxInv, TxInv
    <3>4. PieceInv(m)'
      BY <3>2, PieceAside DEF MirrorsInv
    <3> QED BY <3>3, <3>4
  <2> QED BY <1>0, <2>1, <2>2 DEF MirrorsInv
<1> QED BY <1>0, <1>1, <1>2

\* What reaches the mirrors and what leaves them is accounted for, however the read thread, the
\* serving thread, stop() and the clients interleave, and whatever the sizes are.
THEOREM MirrorsLoseNothingUnseen == Spec => []MirrorsAccount
<1>1. Init => MirrorsInv
  BY MirrorsStart
<1>2. MirrorsInv /\ [Next]_vars => MirrorsInv'
  BY MirrorsKept
<1>3. MirrorsInv => MirrorsAccount
  <2> SUFFICES ASSUME MirrorsInv, NEW m \in Mirrors
               PROVE  /\ Rising(Shown(m))
                      /\ ToSet(Shown(m)) \intersect Lost(m) = {}
                      /\ group # "off" => ToSet(Shown(m)) \union Lost(m) = 1..broadcast
                      /\ Len(Typing(m)) = typedAll[m]
                      /\ \A i \in 1..Len(Typing(m)) : Typing(m)[i].n = i
                      /\ merge = "line" =>
                           /\ \A i \in 1..Len(sentTx[m]) : sentTx[m][i].ends => i \in pieces[m]
                           /\ \A i \in pieces[m] : EndsPiece(m, i)
    BY DEF MirrorsAccount
  <2> QED BY DEF MirrorsInv, RxInv, Account, TxInv, PieceInv
<1> QED BY <1>1, <1>2, <1>3, PTL DEF Spec

\* A client that drains its mirror loses nothing to the staleness rule, unless on_tx holds the
\* serving thread up.  With a lag of one tick a backlog might be thrown away that began just
\* before the tick.
THEOREM SlowIsNotStale == MaxLag # 1 => (Spec => []DrainingReaderLosesNothing)
<1> SUFFICES ASSUME MaxLag # 1 PROVE Spec => []DrainingReaderLosesNothing
  OBVIOUS
<1> DEFINE Inv == MirrorsInv /\ \A m \in Mirrors : DrainInv(m)
<1>1. Init => Inv
  BY MirrorsStart
<1>2. Inv /\ [Next]_vars => Inv'
  <2> SUFFICES ASSUME Inv, [Next]_vars PROVE Inv'
    OBVIOUS
  <2>1. MirrorNext \/ UNCHANGED mirrorVars
    BY MirrorSteps DEF MirrorsInv
  <2>2. ASSUME NEW m \in Mirrors PROVE DrainInv(m)'
    <3>1. CASE MirrorNext
      BY <3>1, DrainKept DEF MirrorsInv
    <3>2. CASE UNCHANGED mirrorVars
      BY <3>2 DEF mirrorVars, DrainInv
    <3> QED BY <2>1, <3>1, <3>2
  <2> QED BY <2>2, MirrorsKept
<1>3. Inv => DrainingReaderLosesNothing
  <2> SUFFICES ASSUME Inv, NEW m \in drains, ~held
               PROVE  lost[m]["stale"] \union lost[m]["flushed"] = {} \/ group = "off"
    BY DEF DrainingReaderLosesNothing
  <2>1. m \in Mirrors
    BY DEF MirrorsInv, MirrorTypeOK
  <2> QED BY <2>1 DEF DrainInv
<1> QED BY <1>1, <1>2, <1>3, PTL DEF Spec

-----------------------------------------------------------------------------
(* Lines of what is typed *)

\* Appending a byte that ends no line leaves a buffer without an end.
LEMMA AppendKeepsNoEnd ==
  ASSUME NEW bytes \in Seq(Byte), NoEnd(bytes), NEW b \in Byte, b \notin {CR, LF}
  PROVE  NoEnd(Append(bytes, b)) /\ Append(bytes, b) \in Seq(Byte)
<1>1. Append(bytes, b) \in Seq(Byte) OBVIOUS
<1>2. ASSUME NEW i \in DOMAIN Append(bytes, b)
      PROVE  Append(bytes, b)[i] \notin {CR, LF}
  <2>1. CASE i = Len(bytes) + 1 BY <2>1
  <2>2. CASE i # Len(bytes) + 1 BY <1>2, <2>2 DEF NoEnd
  <2> QED BY <2>1, <2>2
<1> QED BY <1>1, <1>2 DEF NoEnd

\* A line that is given out joins those that were, all without an end.
LEMMA GivenOutHaveNoEnd ==
  ASSUME NEW lines \in Seq(Seq(Byte)), \A k \in DOMAIN lines : NoEnd(lines[k]),
         NEW raw \in Seq(Byte), NoEnd(raw)
  PROVE  /\ Append(lines, raw) \in Seq(Seq(Byte))
         /\ \A k \in DOMAIN Append(lines, raw) : NoEnd(Append(lines, raw)[k])
<1>1. Append(lines, raw) \in Seq(Seq(Byte)) OBVIOUS
<1>2. ASSUME NEW k \in DOMAIN Append(lines, raw) PROVE NoEnd(Append(lines, raw)[k])
  <2>1. CASE k = Len(lines) + 1
    <3>1. Append(lines, raw)[k] = raw BY <2>1
    <3> QED BY <3>1
  <2>2. CASE k # Len(lines) + 1
    <3>1. k \in DOMAIN lines /\ Append(lines, raw)[k] = lines[k] BY <1>2, <2>2
    <3> QED BY <3>1
  <2> QED BY <2>1, <2>2
<1> QED BY <1>1, <1>2

\* Typed is kept by every byte typed: no line ever holds a \r or a \n, and _after_cr is only
\* ever set on an empty buffer (_feed_cr).
THEOREM TypingKeepsLinesWhole ==
  ASSUME NEW a, Typed(a), NEW byte \in Byte
  PROVE  Typed(Types(a, byte))
<1>1. CASE byte = LF /\ a.after
  BY <1>1 DEF Types, Typed, Assemblers
<1>2. CASE byte \in {CR, LF} /\ ~(byte = LF /\ a.after)
  <2> DEFINE new == [buf |-> <<>>, after |-> byte = CR, lines |-> Append(a.lines, a.buf)]
  <2>1. Types(a, byte) = new BY <1>2 DEF Types
  <2>2. /\ new.lines \in Seq(Seq(Byte))
        /\ \A k \in DOMAIN new.lines : NoEnd(new.lines[k])
    BY GivenOutHaveNoEnd DEF Typed, Assemblers
  <2>3. new.buf \in Seq(Byte) /\ new.after \in BOOLEAN OBVIOUS
  <2>4. NoEnd(new.buf) BY DEF NoEnd
  <2> QED BY <2>1, <2>2, <2>3, <2>4 DEF Typed, Assemblers
<1>3. CASE byte \notin {CR, LF}
  <2>1. Types(a, byte) = [a EXCEPT !.buf = Append(@, byte), !.after = FALSE]
    BY <1>3 DEF Types, LF, CR
  <2>2. NoEnd(Append(a.buf, byte)) /\ Append(a.buf, byte) \in Seq(Byte)
    BY <1>3, AppendKeepsNoEnd DEF Typed, Assemblers
  <2> QED BY <2>1, <2>2 DEF Typed, Assemblers
<1> QED BY <1>1, <1>2, <1>3

\* A flush between the \r and the \n of one Enter takes nothing from it: the \n is swallowed all
\* the same, and no empty line comes of it (flush, which resets _after_cr only with a buffer).
THEOREM FlushKeepsTheEnterWhole ==
  ASSUME NEW a, Typed(a), a.after
  PROVE  Types(Flush(a), LF) = [a EXCEPT !.after = FALSE]
<1>1. a.buf = <<>> BY DEF Typed
<1>2. Flush(a) = a BY <1>1 DEF Flush
<1> QED BY <1>2 DEF Types
=============================================================================
