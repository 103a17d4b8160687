-------------------------- MODULE SlipParser_proofs --------------------------
(***************************************************************************)
(* Theorems about SlipParser, for any set of packets, any receive buffer   *)
(* and any noise: the receiver loses at most one intact packet after each  *)
(* burst of damage, none without damage, and its ACKs go where they were   *)
(* asked for.  First what stuffing makes of a payload of any length.       *)
(***************************************************************************)
EXTENDS SlipParser, SequenceTheorems, WellFoundedInduction, TLAPS

-----------------------------------------------------------------------------
(* FlattenSeq, one sequence more at a time. *)

(* A set of numbers has a smallest one. *)
LEMMA Smallest ==
  ASSUME NEW T \in SUBSET Nat, T # {}
  PROVE  \E x \in T : \A y \in T : x <= y
<1>1. PICK x \in T : \A y \in T : ~ (<<y, x>> \in OpToRel(<, Nat))
  BY NatLessThanWellFounded, WFMin
<1>2. \A y \in T : ~ (y < x)
  BY <1>1 DEF OpToRel
<1>3. QED
  BY <1>2

(* h concatenates each prefix of s: the recursion of FlattenSeq. *)
Flattens(h, s) ==
  h = [i \in 1 .. Len(s) |-> IF i = 1 THEN s[i] ELSE h[i - 1] \o s[i]]

(* One sequence more. *)
LEMMA FlattensMore ==
  ASSUME NEW S, NEW s \in Seq(S), NEW e \in S, NEW h, Flattens(h, s)
  PROVE  \E g : Flattens(g, Append(s, e))
<1> DEFINE n == Len(s)
           t == Append(s, e)
           last == IF n = 0 THEN e ELSE h[n] \o e
           g == [i \in 1 .. (n + 1) |-> IF i = n + 1 THEN last ELSE h[i]]
<1>1. n \in Nat /\ Len(t) = n + 1 /\ t[n + 1] = e /\ \A i \in 1 .. n : t[i] = s[i]
  BY AppendProperties, LenProperties
<1>2. \A i \in 1 .. n : h[i] = IF i = 1 THEN s[i] ELSE h[i - 1] \o s[i]
  BY DEF Flattens
<1> HIDE DEF n, t
<1>3. ASSUME NEW i \in 1 .. (n + 1)
      PROVE  g[i] = IF i = 1 THEN t[i] ELSE g[i - 1] \o t[i]
  <2>1. CASE i = n + 1 /\ n = 0
    BY <1>1, <2>1
  <2>2. CASE i = n + 1 /\ n # 0
    <3>1. i - 1 \in 1 .. n /\ i # 1 /\ i - 1 = n
      BY <1>1, <2>2
    <3>2. g[i - 1] = h[n] /\ g[i] = h[n] \o e
      BY <1>1, <2>2, <3>1
    <3>3. QED
      BY <1>1, <2>2, <3>1, <3>2
  <2>3. CASE i # n + 1
    <3>1. i \in 1 .. n /\ g[i] = h[i]
      BY <1>1, <2>3
    <3>2. i # 1 => i - 1 \in 1 .. n /\ g[i - 1] = h[i - 1]
      BY <1>1, <2>3
    <3>3. QED
      BY <1>1, <1>2, <3>1, <3>2
  <2>4. QED
    BY <2>1, <2>2, <2>3
<1>4. g = [i \in 1 .. Len(t) |-> IF i = 1 THEN t[i] ELSE g[i - 1] \o t[i]]
  BY <1>1, <1>3
<1>5. Flattens(g, t)
  BY <1>4 DEF Flattens
<1>6. QED
  BY <1>5 DEF t

(* The recursion has a solution, for sequences of every length. *)
LEMMA FlattensExists ==
  ASSUME NEW S, NEW s \in Seq(S)
  PROVE  \E h : Flattens(h, s)
<1> DEFINE Solved(n) == \A t \in Seq(S) : Len(t) = n => \E h : Flattens(h, t)
           T == {n \in Nat : ~ Solved(n)}
<1>1. SUFFICES ASSUME T # {} PROVE FALSE
  <2>1. Len(s) \in Nat
    BY LenProperties
  <2>2. Solved(Len(s)) => \E h : Flattens(h, s)
    OBVIOUS
  <2>3. QED
    BY <2>1, <2>2
<1>2. PICK n \in T : \A m \in T : n <= m
  BY <1>1, Smallest
<1>3. PICK t \in Seq(S) : Len(t) = n /\ ~ \E h : Flattens(h, t)
  BY <1>2
<1>4. t # <<>>
  <2>1. Flattens([i \in 1 .. 0 |-> 0], <<>>)
    BY DEF Flattens
  <2>2. QED
    BY <1>3, <2>1
<1>5. PICK r \in Seq(S), e \in S : t = Append(r, e)
  BY <1>4, SequenceEmptyOrAppend
<1>6. Len(r) \in Nat /\ Len(r) < n
  BY <1>3, <1>5, AppendProperties, LenProperties
<1>7. Len(r) \notin T
  BY <1>2, <1>6
<1>8. PICK h : Flattens(h, r)
  BY <1>6, <1>7
<1>9. QED
  BY <1>3, <1>5, <1>8, FlattensMore

(* h concatenates the prefixes of s of at most n members. *)
FlattensTo(h, s, n) ==
  \A i \in 1 .. n : h[i] = IF i = 1 THEN s[i] ELSE h[i - 1] \o s[i]

(* Two solutions agree, since they cannot differ at a smallest place. *)
LEMMA FlattensAgree ==
  ASSUME NEW s, NEW n \in Nat, NEW g, FlattensTo(g, s, n), NEW h, FlattensTo(h, s, n)
  PROVE  \A i \in 1 .. n : g[i] = h[i]
<1> DEFINE T == {i \in 1 .. n : g[i] # h[i]}
<1>1. SUFFICES ASSUME T # {} PROVE FALSE
  OBVIOUS
<1>2. T \in SUBSET Nat
  OBVIOUS
<1>3. PICK x \in T : \A y \in T : x <= y
  BY <1>1, <1>2, Smallest
<1>4. x # 1
  BY <1>3 DEF FlattensTo
<1>5. x - 1 \in 1 .. n /\ x - 1 \notin T
  BY <1>3, <1>4
<1>6. QED
  BY <1>3, <1>4, <1>5 DEF FlattensTo

(* Flattening nothing gives nothing; one more sequence goes to the end. *)
LEMMA FlattenEmpty == FlattenSeq(<<>>) = <<>>
  BY DEF FlattenSeq

LEMMA FlattenAppend ==
  ASSUME NEW S, NEW s \in Seq(Seq(S)), NEW e \in Seq(S), FlattenSeq(s) \in Seq(S)
  PROVE  /\ FlattenSeq(Append(s, e)) = FlattenSeq(s) \o e
         /\ FlattenSeq(Append(s, e)) \in Seq(S)
<1> DEFINE n == Len(s)
           t == Append(s, e)
           f == CHOOSE h : Flattens(h, s)
           g == CHOOSE h : Flattens(h, t)
<1>1. n \in Nat /\ Len(t) = n + 1 /\ t[n + 1] = e /\ \A i \in 1 .. n : t[i] = s[i]
  BY AppendProperties, LenProperties
<1>2. t \in Seq(Seq(S))
  BY AppendProperties
<1>3. Flattens(f, s)
  BY FlattensExists
<1>4. Flattens(g, t)
  BY <1>2, FlattensExists
<1>5. FlattenSeq(s) = IF n = 0 THEN s ELSE f[n]
  BY DEF FlattenSeq, Flattens
<1>6. FlattenSeq(t) = g[n + 1]
  <2> HIDE DEF t, n
  <2>1. Len(t) = n + 1 /\ Len(t) # 0
    BY <1>1
  <2>2. QED
    BY <2>1 DEF FlattenSeq, Flattens
<1> HIDE DEF f, g, t
<1> HIDE DEF n
<1>7. FlattensTo(f, s, n)
  BY <1>3 DEF Flattens, FlattensTo, n
<1>8. \A i \in 1 .. (n + 1) : g[i] = IF i = 1 THEN t[i] ELSE g[i - 1] \o t[i]
  BY <1>1, <1>4 DEF Flattens
<1>9. FlattensTo(g, s, n)
  BY <1>1, <1>8 DEF FlattensTo
<1>10. \A i \in 1 .. n : g[i] = f[i]
  BY <1>1, <1>7, <1>9, FlattensAgree
<1>11. FlattenSeq(t) = FlattenSeq(s) \o e
  <2>1. CASE n = 0
    <3>1. s = <<>>
      BY <2>1, EmptySeq DEF n
    <3>2. g[1] = t[1]
      BY <1>1, <1>8
    <3>3. QED
      BY <1>1, <1>5, <1>6, <2>1, <3>1, <3>2, ConcatEmptySeq
  <2>2. CASE n # 0
    <3>1. n \in 1 .. n /\ n + 1 \in 1 .. (n + 1) /\ n + 1 # 1 /\ (n + 1) - 1 = n
      BY <1>1, <2>2
    <3>2. g[n + 1] = g[n] \o t[n + 1]
      BY <1>8, <3>1
    <3>3. QED
      BY <1>1, <1>5, <1>6, <1>10, <2>2, <3>1, <3>2
  <2>3. QED
    BY <2>1, <2>2
<1>12. QED
  BY <1>11, ConcatProperties DEF t

-----------------------------------------------------------------------------
(* What a frame looks like on the line. *)

(* Every byte that can appear there. *)
Byte ==
  {SLIP_END, SLIP_ESC, SLIP_ESC_END, SLIP_ESC_ESC, RESET} \cup NoiseBytes
  \cup UNION {ToSet(p.bytes) : p \in Packets}

(* The stuffed payload, and the frame up to its closing END. *)
Body(d) == FlattenSeq([i \in DOMAIN d |-> Encode(d[i])])
Lead(d) == <<SLIP_END>> \o Body(d)

NoEnd(s) == \A i \in 1 .. Len(s) : s[i] # SLIP_END

(* What Encode writes for a byte: bytes, and no END. *)
LEMMA EncodeBytes ==
  ASSUME NEW b \in Byte
  PROVE  /\ Encode(b) \in Seq(Byte)
         /\ NoEnd(Encode(b))
         /\ b \notin Reserved => Encode(b) = <<b>>
         /\ b \in Reserved => Encode(b) = <<SLIP_ESC, EscapeOf(b)>>
<1>1. CASE b \in Reserved
  <2>1. Encode(b) = <<SLIP_ESC, EscapeOf(b)>> /\ EscapeOf(b) \in Byte /\ SLIP_ESC \in Byte
    BY <1>1 DEF Encode, EscapeOf, Byte
  <2>2. EscapeOf(b) # SLIP_END /\ SLIP_ESC # SLIP_END
    BY DEF EscapeOf, SLIP_END, SLIP_ESC, SLIP_ESC_END, SLIP_ESC_ESC
  <2>3. QED
    BY <1>1, <2>1, <2>2 DEF NoEnd
<1>2. CASE b \notin Reserved
  <2>1. Encode(b) = <<b>> /\ b # SLIP_END
    BY <1>2 DEF Encode, Reserved
  <2>2. QED
    BY <1>2, <2>1 DEF NoEnd
<1>3. QED
  BY <1>1, <1>2

(* A byte more of payload is encoded at the end. *)
LEMMA BodyAppend ==
  ASSUME NEW d \in Seq(Byte), NEW b \in Byte, Body(d) \in Seq(Byte)
  PROVE  /\ Body(Append(d, b)) = Body(d) \o Encode(b)
         /\ Body(Append(d, b)) \in Seq(Byte)
<1> DEFINE s == [i \in DOMAIN d |-> Encode(d[i])]
           t == [i \in DOMAIN Append(d, b) |-> Encode(Append(d, b)[i])]
<1>1. s \in Seq(Seq(Byte)) /\ Len(s) = Len(d)
  <2>1. \A i \in 1 .. Len(d) : Encode(d[i]) \in Seq(Byte)
    BY ElementOfSeq, EncodeBytes
  <2>2. DOMAIN d = 1 .. Len(d) /\ Len(d) \in Nat
    BY LenProperties
  <2>3. QED
    BY <2>1, <2>2
<1>2. Encode(b) \in Seq(Byte)
  BY EncodeBytes
<1>3. t = Append(s, Encode(b))
  <2>1. /\ Len(Append(d, b)) = Len(d) + 1 /\ Len(d) \in Nat
        /\ DOMAIN Append(d, b) = 1 .. (Len(d) + 1) /\ DOMAIN d = 1 .. Len(d)
        /\ \A i \in 1 .. Len(d) : Append(d, b)[i] = d[i]
        /\ Append(d, b)[Len(d) + 1] = b
    BY AppendProperties, LenProperties
  <2>2. \A i \in 1 .. Len(d) : t[i] = s[i]
    BY <2>1
  <2>3. t[Len(d) + 1] = Encode(b)
    BY <2>1
  <2>4. \A i \in 1 .. (Len(d) + 1) : t[i] \in Seq(Byte)
    BY <1>2, <2>1, EncodeBytes, ElementOfSeq
  <2>5. t \in Seq(Seq(Byte)) /\ Len(t) = Len(d) + 1
    BY <2>1, <2>4
  <2>6. /\ Append(s, Encode(b)) \in Seq(Seq(Byte))
        /\ Len(Append(s, Encode(b))) = Len(d) + 1
        /\ \A i \in 1 .. Len(d) : Append(s, Encode(b))[i] = s[i]
        /\ Append(s, Encode(b))[Len(d) + 1] = Encode(b)
    BY <1>1, <1>2, AppendProperties
  <2>7. \A i \in 1 .. (Len(d) + 1) : t[i] = Append(s, Encode(b))[i]
    BY <2>1, <2>2, <2>3, <2>6
  <2>8. QED
    BY <2>5, <2>6, <2>7, SeqEqual
<1>4. FlattenSeq(s) \in Seq(Byte)
  BY DEF Body
<1> HIDE DEF s, t
<1>5. FlattenSeq(t) = FlattenSeq(s) \o Encode(b) /\ FlattenSeq(t) \in Seq(Byte)
  BY <1>1, <1>2, <1>3, <1>4, FlattenAppend
<1>6. QED
  BY <1>5 DEF Body, s, t

(* A stuffed payload holds no END. *)
LEMMA BodyPlain ==
  ASSUME NEW d \in Seq(Byte)
  PROVE  Body(d) \in Seq(Byte) /\ NoEnd(Body(d))
<1> DEFINE Plain(n) == \A t \in Seq(Byte) :
                         Len(t) = n => Body(t) \in Seq(Byte) /\ NoEnd(Body(t))
           T == {n \in Nat : ~ Plain(n)}
<1>1. SUFFICES ASSUME T # {} PROVE FALSE
  <2>1. Len(d) \in Nat
    BY LenProperties
  <2>2. QED
    BY <2>1
<1>2. PICK n \in T : \A m \in T : n <= m
  BY <1>1, Smallest
<1>3. PICK t \in Seq(Byte) : Len(t) = n /\ ~ (Body(t) \in Seq(Byte) /\ NoEnd(Body(t)))
  BY <1>2
<1>4. t # <<>>
  <2>1. [i \in DOMAIN <<>> |-> Encode(<<>>[i])] = <<>>
    OBVIOUS
  <2>2. Body(<<>>) = <<>>
    BY <2>1, FlattenEmpty DEF Body
  <2>3. QED
    BY <1>3, <2>2, EmptySeq DEF NoEnd
<1>5. PICK r \in Seq(Byte), b \in Byte : t = Append(r, b)
  BY <1>4, SequenceEmptyOrAppend
<1>6. Len(r) \in Nat /\ Len(r) < n
  BY <1>3, <1>5, AppendProperties, LenProperties
<1>7. Body(r) \in Seq(Byte) /\ NoEnd(Body(r))
  BY <1>2, <1>6
<1>8. Body(t) = Body(r) \o Encode(b) /\ Body(t) \in Seq(Byte)
  BY <1>5, <1>7, BodyAppend
<1>9. NoEnd(Body(r) \o Encode(b))
  <2>1. Encode(b) \in Seq(Byte) /\ NoEnd(Encode(b))
    BY EncodeBytes
  <2>2. QED
    BY <1>7, <2>1, ConcatProperties, LenProperties DEF NoEnd
<1>10. QED
  BY <1>3, <1>8, <1>9

(* The first k bytes of a payload come first in the frame. *)
LEMMA BodySplit ==
  ASSUME NEW d \in Seq(Byte), NEW k \in 0 .. Len(d)
  PROVE  \E r \in Seq(Byte) : Body(d) = Body(SubSeq(d, 1, k)) \o r
<1> DEFINE Split(j) == \E r \in Seq(Byte) : Body(d) = Body(SubSeq(d, 1, j)) \o r
           T == {n \in Nat : n <= Len(d) /\ ~ Split(Len(d) - n)}
<1>1. Len(d) \in Nat
  BY LenProperties
<1>2. SUFFICES ASSUME T # {} PROVE FALSE
  <2>1. Len(d) - k \in Nat /\ Len(d) - k <= Len(d) /\ Len(d) - (Len(d) - k) = k
    BY <1>1
  <2>2. QED
    BY <2>1
<1>3. PICK n \in T : \A m \in T : n <= m
  BY <1>2, Smallest
<1>4. n \in Nat /\ n <= Len(d) /\ ~ Split(Len(d) - n)
  OBVIOUS
<1> HIDE DEF T, Split
<1>5. \A m \in Nat : m < n => Split(Len(d) - m)
  <2> SUFFICES ASSUME NEW m \in Nat, m < n PROVE Split(Len(d) - m)
    OBVIOUS
  <2>1. m \notin T /\ m <= Len(d)
    BY <1>1, <1>3, <1>4
  <2>2. QED
    BY <2>1 DEF T
<1>6. CASE n = 0
  <2>1. SubSeq(d, 1, Len(d)) = d
    BY SubSeqFull
  <2>2. Body(d) = Body(d) \o <<>> /\ <<>> \in Seq(Byte)
    BY BodyPlain, ConcatEmptySeq, EmptySeq
  <2>3. Len(d) - n = Len(d)
    BY <1>1, <1>6
  <2>4. QED
    BY <1>4, <2>1, <2>2, <2>3 DEF Split
<1>7. CASE n # 0
  <2> DEFINE j == Len(d) - n
  <2>1. j \in Nat /\ j + 1 \in 1 .. Len(d) /\ j + 1 = Len(d) - (n - 1) /\ n - 1 \in Nat
    BY <1>1, <1>4, <1>7
  <2>2. Split(Len(d) - (n - 1))
    BY <1>4, <1>5, <2>1
  <2>3. PICK r \in Seq(Byte) : Body(d) = Body(SubSeq(d, 1, j + 1)) \o r
    BY <2>1, <2>2 DEF Split
  <2> HIDE DEF j
  <2>4. SubSeq(d, 1, j) \in Seq(Byte) /\ d[j + 1] \in Byte
    BY <2>1, ElementOfSeq, SubSeqProperties
  <2>5. SubSeq(d, 1, j + 1) = Append(SubSeq(d, 1, j), d[j + 1])
    BY <2>1, <2>4, SubSeqRecursiveSecond, AppendIsConcat
  <2>6. Body(SubSeq(d, 1, j + 1)) = Body(SubSeq(d, 1, j)) \o Encode(d[j + 1])
    BY <2>4, <2>5, BodyAppend, BodyPlain
  <2> DEFINE x == Body(SubSeq(d, 1, j))
             y == Encode(d[j + 1])
  <2>7. x \in Seq(Byte) /\ y \in Seq(Byte)
    BY <2>4, BodyPlain, EncodeBytes
  <2>8. Body(d) = (x \o y) \o r
    BY <2>3, <2>6
  <2> HIDE DEF x, y
  <2>9. Body(d) = x \o (y \o r) /\ y \o r \in Seq(Byte)
    BY <2>7, <2>8, ConcatAssociative, ConcatProperties
  <2>10. QED
    BY <1>4, <2>9 DEF Split, j, x
<1>8. QED
  BY <1>6, <1>7

(* s holds an END as its last byte, and only there. *)
EndsOnce(s) ==
  s # <<>> /\ s[Len(s)] = SLIP_END /\ \A i \in 1 .. (Len(s) - 1) : s[i] # SLIP_END

LEMMA EndInByte == SLIP_END \in Byte /\ SLIP_ESC \in Byte
  BY DEF Byte

LEMMA LeadBytes ==
  ASSUME NEW d \in Seq(Byte)
  PROVE  Lead(d) \in Seq(Byte) /\ Frame(d) = Lead(d) \o <<SLIP_END>>
<1>1. <<SLIP_END>> \in Seq(Byte) /\ Body(d) \in Seq(Byte)
  BY EndInByte, BodyPlain
<1>2. Stuffed(d, Len(d)) = Body(d)
  <2>1. DOMAIN d = 1 .. Len(d)
    BY LenProperties
  <2>2. QED
    BY <2>1 DEF Stuffed, Body
<1>3. QED
  BY <1>1, <1>2, ConcatProperties DEF Lead, Frame

(* A frame: an END, bytes other than END, an END. *)
LEMMA FrameEnds ==
  ASSUME NEW d \in Seq(Byte)
  PROVE  /\ Frame(d) \in Seq(Byte) /\ Frame(d) # <<>>
         /\ Head(Frame(d)) = SLIP_END
         /\ Tail(Frame(d)) \in Seq(Byte)
         /\ Frame(d) = <<SLIP_END>> \o Tail(Frame(d))
         /\ EndsOnce(Tail(Frame(d)))
         /\ Frame(d)[Len(Frame(d))] = SLIP_END
<1> DEFINE e == <<SLIP_END>>
           b == Body(d)
<1>1. e \in Seq(Byte) /\ Len(e) = 1 /\ e[1] = SLIP_END
  BY EndInByte
<1>2. b \in Seq(Byte) /\ NoEnd(b) /\ Len(b) \in Nat
  BY BodyPlain, LenProperties
<1>3. Frame(d) = (e \o b) \o e
  BY LeadBytes DEF Lead
<1> HIDE DEF e, b
<1>4. /\ b \o e \in Seq(Byte) /\ Len(b \o e) = Len(b) + 1
      /\ \A i \in 1 .. (Len(b) + 1) : (b \o e)[i] = IF i <= Len(b) THEN b[i] ELSE e[i - Len(b)]
  <2>1. /\ b \o e \in Seq(Byte) /\ Len(b \o e) = Len(b) + Len(e)
        /\ \A i \in 1 .. (Len(b) + Len(e)) :
             (b \o e)[i] = IF i <= Len(b) THEN b[i] ELSE e[i - Len(b)]
    BY <1>1, <1>2, ConcatProperties
  <2>2. QED
    BY <1>1, <2>1
<1>5. Frame(d) = e \o (b \o e)
  BY <1>1, <1>2, <1>3, ConcatAssociative
<1>6. /\ e \o (b \o e) \in Seq(Byte) /\ Len(e \o (b \o e)) = Len(b) + 2
      /\ \A i \in 1 .. (Len(b) + 2) :
           (e \o (b \o e))[i] = IF i <= 1 THEN e[i] ELSE (b \o e)[i - 1]
  BY <1>1, <1>2, <1>4, ConcatProperties
<1>7. Frame(d) \in Seq(Byte) /\ Len(Frame(d)) = Len(b) + 2 /\ Frame(d) # <<>>
  BY <1>2, <1>5, <1>6, EmptySeq
<1>8. /\ Tail(Frame(d)) \in Seq(Byte) /\ Len(Tail(Frame(d))) = Len(b) + 1
      /\ \A i \in 1 .. (Len(b) + 1) : Tail(Frame(d))[i] = Frame(d)[i + 1]
  BY <1>2, <1>7, HeadTailProperties
<1>9. Tail(Frame(d)) = b \o e
  <2>1. \A i \in 1 .. (Len(b) + 1) : Tail(Frame(d))[i] = (b \o e)[i]
    BY <1>2, <1>5, <1>6, <1>8
  <2>2. QED
    BY <1>4, <1>8, <2>1, SeqEqual
<1>10. Head(Frame(d)) = SLIP_END /\ Frame(d)[Len(b) + 2] = SLIP_END
  <2>1. Head(Frame(d)) = Frame(d)[1]
    OBVIOUS
  <2>2. Frame(d)[1] = e[1] /\ Frame(d)[Len(b) + 2] = (b \o e)[Len(b) + 1]
    BY <1>2, <1>5, <1>6
  <2>3. (b \o e)[Len(b) + 1] = e[1]
    BY <1>2, <1>4
  <2>4. QED
    BY <1>1, <2>1, <2>2, <2>3
<1>11. EndsOnce(b \o e)
  <2>1. b \o e # <<>>
    BY <1>2, <1>4, EmptySeq
  <2>2. (b \o e)[Len(b) + 1] = SLIP_END
    BY <1>1, <1>2, <1>4
  <2>3. \A i \in 1 .. Len(b) : (b \o e)[i] # SLIP_END
    BY <1>2, <1>4 DEF NoEnd
  <2>4. QED
    BY <1>2, <1>4, <2>1, <2>2, <2>3 DEF EndsOnce
<1>12. QED
  BY <1>5, <1>7, <1>8, <1>9, <1>10, <1>11 DEF e

(* What is left of a line that ends once, when its first byte is read. *)
LEMMA EndsOnceTail ==
  ASSUME NEW s \in Seq(Byte), EndsOnce(s)
  PROVE  /\ Tail(s) = <<>> => Head(s) = SLIP_END
         /\ Tail(s) # <<>> => Head(s) # SLIP_END /\ EndsOnce(Tail(s))
<1> DEFINE n == Len(s)
<1>1. n \in Nat /\ n >= 1 /\ Head(s) = s[1]
  BY EmptySeq DEF EndsOnce
<1>2. /\ Tail(s) \in Seq(Byte) /\ Len(Tail(s)) = n - 1
      /\ \A i \in 1 .. (n - 1) : Tail(s)[i] = s[i + 1]
  BY HeadTailProperties DEF EndsOnce
<1>3. s[n] = SLIP_END /\ \A i \in 1 .. (n - 1) : s[i] # SLIP_END
  BY DEF EndsOnce
<1>4. n = 1 <=> Tail(s) = <<>>
  <2> HIDE DEF n
  <2>1. ASSUME NEW t \in Seq(Byte) PROVE Len(t) = 0 <=> t = <<>>
    OBVIOUS
  <2>2. Len(Tail(s)) = 0 <=> Tail(s) = <<>>
    BY <1>2, <2>1
  <2>3. QED
    BY <1>1, <1>2, <2>2
<1> HIDE DEF n
<1>5. CASE n = 1
  BY <1>1, <1>3, <1>4, <1>5
<1>6. CASE n # 1
  <2>1. s[1] # SLIP_END
    BY <1>1, <1>3, <1>6
  <2>2. Tail(s)[n - 1] = SLIP_END /\ \A i \in 1 .. (n - 2) : Tail(s)[i] # SLIP_END
    BY <1>1, <1>2, <1>3, <1>6
  <2>3. EndsOnce(Tail(s))
    BY <1>1, <1>2, <1>4, <1>6, <2>2 DEF EndsOnce
  <2>4. QED
    BY <1>1, <1>4, <1>6, <2>1, <2>3
<1>7. QED
  BY <1>5, <1>6

(* Associativity, for sequences of bytes. *)
LEMMA Regroup ==
  \A s, t, u \in Seq(Byte) : (s \o t) \o u = s \o (t \o u)
  BY ConcatAssociative

(* After the whole payload only the END is left. *)
LEMMA OnlyEndLeft ==
  ASSUME NEW d \in Seq(Byte), NEW l \in Seq(Byte), Frame(d) = Lead(d) \o l
  PROVE  l = <<SLIP_END>>
<1>1. <<SLIP_END>> \in Seq(Byte) /\ Lead(d) \in Seq(Byte)
  BY EndInByte, LeadBytes
<1>2. Lead(d) \o l = Lead(d) \o <<SLIP_END>>
  BY LeadBytes
<1>3. QED
  BY <1>1, <1>2, ConcatSimplifications

(* After k bytes of the payload the next one is encoded. *)
LEMMA NextOfFrame ==
  ASSUME NEW d \in Seq(Byte), NEW k \in Nat, k < Len(d), NEW l \in Seq(Byte),
         Frame(d) = Lead(SubSeq(d, 1, k)) \o l
  PROVE  /\ d[k + 1] \in Byte
         /\ SubSeq(d, 1, k + 1) = Append(SubSeq(d, 1, k), d[k + 1])
         /\ \E r \in Seq(Byte) : /\ l = Encode(d[k + 1]) \o r
                                 /\ Frame(d) = Lead(SubSeq(d, 1, k + 1)) \o r
<1> DEFINE b == SubSeq(d, 1, k)
           c == SubSeq(d, 1, k + 1)
           x == d[k + 1]
           y == Encode(x)
           e == <<SLIP_END>>
<1>1. Len(d) \in Nat /\ k + 1 \in 1 .. Len(d) /\ k \in 0 .. Len(d) /\ k + 1 \in 0 .. Len(d)
  BY LenProperties
<1>2. x \in Byte /\ b \in Seq(Byte) /\ c \in Seq(Byte)
  BY <1>1, ElementOfSeq, SubSeqProperties
<1>3. c = Append(b, x)
  BY <1>1, <1>2, SubSeqRecursiveSecond, AppendIsConcat
<1>4. y \in Seq(Byte) /\ e \in Seq(Byte)
  BY <1>2, EncodeBytes, EndInByte
<1>5. Body(b) \in Seq(Byte) /\ Body(c) = Body(b) \o y /\ Body(c) \in Seq(Byte)
  BY <1>2, <1>3, BodyAppend, BodyPlain
<1>6. PICK q \in Seq(Byte) : Body(d) = Body(c) \o q
  BY <1>1, BodySplit
<1>7. /\ Lead(b) = e \o Body(b) /\ Lead(c) = e \o Body(c) /\ Frame(d) = (e \o Body(d)) \o e
      /\ Lead(b) \in Seq(Byte) /\ Lead(c) \in Seq(Byte)
  BY <1>2, LeadBytes DEF Lead
<1> DEFINE r == q \o e
<1> HIDE DEF b, c, x, y, e
<1>8. Lead(c) = Lead(b) \o y
  <2>1. (e \o Body(b)) \o y = e \o (Body(b) \o y)
    BY <1>4, <1>5, Regroup
  <2>2. QED
    BY <1>5, <1>7, <2>1
<1>9. Frame(d) = Lead(c) \o r /\ r \in Seq(Byte)
  <2>1. e \o (Body(c) \o q) = (e \o Body(c)) \o q
    BY <1>4, <1>5, <1>6, Regroup
  <2>2. (Lead(c) \o q) \o e = Lead(c) \o (q \o e)
    BY <1>4, <1>6, <1>7, Regroup
  <2>3. QED
    BY <1>4, <1>6, <1>7, <2>1, <2>2, ConcatProperties
<1> HIDE DEF r
<1>10. l = y \o r
  <2>1. Frame(d) = Lead(b) \o (y \o r)
    <3>1. Lead(b) \in Seq(Byte) /\ y \in Seq(Byte) /\ r \in Seq(Byte)
      BY <1>4, <1>7, <1>9
    <3>2. (Lead(b) \o y) \o r = Lead(b) \o (y \o r)
      BY <3>1, Regroup
    <3>3. QED
      BY <1>8, <1>9, <3>2
  <2>2. y \o r \in Seq(Byte) /\ Lead(b) \o l = Lead(b) \o (y \o r)
    BY <1>4, <1>9, <2>1, ConcatProperties DEF b
  <2>3. QED
    BY <1>7, <2>2, ConcatSimplifications
<1>11. QED
  BY <1>2, <1>3, <1>9, <1>10 DEF b, c, x, y

(* A line that starts with a given byte. *)
LEMMA HeadTailOfConcat ==
  ASSUME NEW S, NEW a \in S, NEW r \in Seq(S)
  PROVE  /\ <<a>> \o r \in Seq(S) /\ <<a>> \o r # <<>>
         /\ Head(<<a>> \o r) = a /\ Tail(<<a>> \o r) = r
<1> DEFINE l == <<a>> \o r
           n == Len(r)
<1>1. n \in Nat /\ <<a>> \in Seq(S) /\ Len(<<a>>) = 1 /\ <<a>>[1] = a
  BY LenProperties
<1>2. /\ l \in Seq(S) /\ Len(l) = 1 + n
      /\ \A i \in 1 .. (1 + n) : l[i] = IF i <= 1 THEN <<a>>[i] ELSE r[i - 1]
  BY <1>1, ConcatProperties
<1>3. l # <<>> /\ l[1] = a
  BY <1>1, <1>2, EmptySeq
<1> HIDE DEF l
<1>4. Tail(l) \in Seq(S) /\ Len(Tail(l)) = n /\ \A i \in 1 .. n : Tail(l)[i] = l[i + 1]
  BY <1>1, <1>2, <1>3, HeadTailProperties
<1>5. \A i \in 1 .. n : Tail(l)[i] = r[i]
  BY <1>1, <1>2, <1>4
<1>6. Tail(l) = r
  BY <1>4, <1>5, SeqEqual
<1>7. Head(l) = a
  BY <1>3
<1>8. QED
  BY <1>2, <1>3, <1>6, <1>7 DEF l

(* Inside a frame the next byte is the END after the payload, a plain byte *)
(* of the payload, or the escape of a reserved one.                        *)
LEMMA ByteOfFrame ==
  ASSUME NEW d \in Seq(Byte), NEW k \in Nat, k <= Len(d), NEW l \in Seq(Byte), l # <<>>,
         Frame(d) = Lead(SubSeq(d, 1, k)) \o l
  PROVE  \/ k = Len(d) /\ SubSeq(d, 1, k) = d /\ l = <<SLIP_END>>
         \/ /\ k < Len(d) /\ d[k + 1] \in Byte \ Reserved
            /\ Head(l) = d[k + 1]
            /\ SubSeq(d, 1, k + 1) = Append(SubSeq(d, 1, k), d[k + 1])
            /\ Frame(d) = Lead(SubSeq(d, 1, k + 1)) \o Tail(l)
         \/ /\ k < Len(d) /\ d[k + 1] \in Reserved
            /\ Head(l) = SLIP_ESC
            /\ Frame(d) = Lead(SubSeq(d, 1, k)) \o (<<SLIP_ESC>> \o Tail(l))
<1>1. CASE k = Len(d)
  <2>1. SubSeq(d, 1, k) = d
    BY <1>1, SubSeqFull
  <2>2. QED
    BY <1>1, <2>1, OnlyEndLeft
<1>2. CASE k # Len(d)
  <2>1. k < Len(d)
    BY <1>2, LenProperties
  <2>2. /\ d[k + 1] \in Byte
        /\ SubSeq(d, 1, k + 1) = Append(SubSeq(d, 1, k), d[k + 1])
    BY <2>1, NextOfFrame
  <2>3. PICK r \in Seq(Byte) : /\ l = Encode(d[k + 1]) \o r
                               /\ Frame(d) = Lead(SubSeq(d, 1, k + 1)) \o r
    BY <2>1, NextOfFrame
  <2>4. CASE d[k + 1] \notin Reserved
    <3>1. l = <<d[k + 1]>> \o r
      BY <2>2, <2>3, <2>4, EncodeBytes
    <3>2. Head(l) = d[k + 1] /\ Tail(l) = r
      BY <2>2, <3>1, HeadTailOfConcat
    <3>3. QED
      BY <2>1, <2>2, <2>3, <2>4, <3>2
  <2>5. CASE d[k + 1] \in Reserved
    <3> DEFINE x == EscapeOf(d[k + 1])
    <3>1. l = <<SLIP_ESC, x>> \o r
      BY <2>2, <2>3, <2>5, EncodeBytes
    <3>2. x \in Byte
      BY DEF EscapeOf, Byte
    <3> HIDE DEF x
    <3>3. Head(l) = SLIP_ESC
      <4>1. Head(l) = l[1]
        OBVIOUS
      <4>2. <<SLIP_ESC, x>> \in Seq(Byte) /\ Len(<<SLIP_ESC, x>>) = 2
        BY <3>2, EndInByte
      <4>3. l[1] = <<SLIP_ESC, x>>[1]
        BY <3>1, <4>2, ConcatProperties, LenProperties
      <4>4. QED
        BY <4>1, <4>3
    <3>4. l = <<SLIP_ESC>> \o Tail(l)
      <4>1. <<SLIP_ESC, x>> = <<SLIP_ESC>> \o <<x>>
        OBVIOUS
      <4>2. l = <<SLIP_ESC>> \o (<<x>> \o r) /\ <<x>> \o r \in Seq(Byte)
        BY <3>1, <3>2, <4>1, EndInByte, ConcatAssociative, ConcatProperties
      <4>3. QED
        BY <4>2, EndInByte, HeadTailOfConcat
    <3>5. QED
      BY <2>1, <2>5, <3>3, <3>4
  <2>6. QED
    BY <2>4, <2>5
<1>3. QED
  BY <1>1, <1>2

(* After an escape the code of the reserved byte follows. *)
LEMMA CodeOfFrame ==
  ASSUME NEW d \in Seq(Byte), NEW k \in Nat, k <= Len(d), NEW l \in Seq(Byte), l # <<>>,
         Frame(d) = Lead(SubSeq(d, 1, k)) \o (<<SLIP_ESC>> \o l)
  PROVE  /\ k < Len(d) /\ d[k + 1] \in Byte \cap Reserved
         /\ Head(l) = EscapeOf(d[k + 1])
         /\ SubSeq(d, 1, k + 1) = Append(SubSeq(d, 1, k), d[k + 1])
         /\ Frame(d) = Lead(SubSeq(d, 1, k + 1)) \o Tail(l)
<1> DEFINE m == <<SLIP_ESC>> \o l
<1>1. m \in Seq(Byte) /\ m # <<>> /\ Head(m) = SLIP_ESC /\ Tail(m) = l
  BY EndInByte, HeadTailOfConcat
<1>2. SLIP_ESC # SLIP_END /\ SLIP_ESC \in Reserved
  BY DEF SLIP_ESC, SLIP_END, Reserved
<1> HIDE DEF m
<1>3. k # Len(d)
  <2>1. SUFFICES ASSUME k = Len(d) PROVE FALSE
    OBVIOUS
  <2>2. m = <<SLIP_END>>
    BY <1>1, <2>1, SubSeqFull, OnlyEndLeft DEF m
  <2>3. Head(m) = SLIP_END
    BY <2>2
  <2>4. QED
    BY <1>1, <1>2, <2>3
<1>4. k < Len(d)
  BY <1>3, LenProperties
<1>5. /\ d[k + 1] \in Byte
      /\ SubSeq(d, 1, k + 1) = Append(SubSeq(d, 1, k), d[k + 1])
      /\ \E r \in Seq(Byte) : /\ m = Encode(d[k + 1]) \o r
                              /\ Frame(d) = Lead(SubSeq(d, 1, k + 1)) \o r
  <2>1. Frame(d) = Lead(SubSeq(d, 1, k)) \o m
    BY DEF m
  <2>2. QED
    BY <1>1, <1>4, <2>1, NextOfFrame
<1>6. PICK r \in Seq(Byte) : /\ m = Encode(d[k + 1]) \o r
                             /\ Frame(d) = Lead(SubSeq(d, 1, k + 1)) \o r
  BY <1>5
<1>7. d[k + 1] \in Reserved
  <2>1. SUFFICES ASSUME d[k + 1] \notin Reserved PROVE FALSE
    OBVIOUS
  <2>2. m = <<d[k + 1]>> \o r
    BY <1>5, <1>6, <2>1, EncodeBytes
  <2>3. Head(m) = d[k + 1]
    BY <1>5, <2>2, HeadTailOfConcat
  <2>4. QED
    BY <1>1, <1>2, <2>1, <2>3
<1> DEFINE x == EscapeOf(d[k + 1])
<1>8. x \in Byte /\ Encode(d[k + 1]) = <<SLIP_ESC, x>>
  BY <1>5, <1>7, EncodeBytes DEF EscapeOf, Byte
<1> HIDE DEF x
<1>9. m = <<SLIP_ESC>> \o (<<x>> \o r) /\ <<x>> \o r \in Seq(Byte)
  <2>1. <<SLIP_ESC, x>> = <<SLIP_ESC>> \o <<x>>
    OBVIOUS
  <2>2. QED
    BY <1>6, <1>8, <2>1, EndInByte, ConcatAssociative, ConcatProperties
<1>10. l = <<x>> \o r
  <2>1. Tail(<<SLIP_ESC>> \o (<<x>> \o r)) = <<x>> \o r
    BY <1>9, EndInByte, HeadTailOfConcat
  <2>2. QED
    BY <1>1, <1>9, <2>1
<1>11. Head(l) = x /\ Tail(l) = r
  BY <1>8, <1>10, HeadTailOfConcat
<1>12. QED
  BY <1>4, <1>5, <1>6, <1>7, <1>11 DEF x

-----------------------------------------------------------------------------
(* Types. *)

(* What the packet layer keeps, and what is known of its calls. *)
PacketLayerOK ==
  /\ parser \in Nat \cup {NONE}
  /\ ack \in BOOLEAN
  /\ kflyStat \in [success : Nat, cmdError : Nat, sizeError : Nat, crcError : Nat]
  /\ fault \in BOOLEAN
  /\ run \in Seq(Packets)
  /\ acked \in Seq(Packets)

(* What the frame layer keeps: never more bytes than the buffer has. *)
FrameLayerOK ==
  /\ state \in {"AWAITING_START", "RECEIVING", "AWAITING_ESC"}
  /\ buffer \in Seq(Byte)
  /\ Len(buffer) <= BufferSize
  /\ slipStat \in [success : Nat, error : Nat, overrun : Nat]

(* The line, and what its senders did. *)
LineTypes ==
  /\ line \in Seq(Byte)
  /\ cur \in Packets \cup {NONE}
  /\ intact \in BOOLEAN
  /\ noise \in Nat
  /\ sent \in Seq(Packets)
  /\ missed \in Nat

TypeOK == PacketLayerOK /\ FrameLayerOK /\ LineTypes

(* What the assumption says of one packet. *)
LEMMA PacketFacts ==
  ASSUME NEW p \in Packets
  PROVE  /\ p.bytes \in Seq(Byte) /\ Len(p.bytes) \in Nat /\ Len(p.bytes) >= 2
         /\ p.cmd \in Nat /\ p.len \in Nat /\ p.ack \in BOOLEAN /\ p.known \in BOOLEAN
         /\ p # NONE
<1>1. p.bytes \in Seq(ToSet(p.bytes)) /\ Len(p.bytes) >= 2
  BY PacketAssumption
<1>2. ToSet(p.bytes) \subseteq Byte
  BY DEF Byte
<1>3. p.bytes \in Seq(Byte)
  BY <1>1, <1>2, SeqMonotonic
<1>4. QED
  BY <1>1, <1>3, LenProperties, PacketAssumption

(* The packet layer, for any frame. *)
LEMMA ParseKFlyPacketTyped ==
  ASSUME PacketLayerOK, NEW f \in Seq(Byte), ParseKFlyPacket(f)
  PROVE  PacketLayerOK'
<1>1. CASE CrcRunsAway(f)
  BY <1>1 DEF PacketLayerOK, CrcRunsAway
<1>2. CASE CrcError(f)
  BY <1>2 DEF PacketLayerOK, CrcError
<1>3. CASE Accept(f)
  <2>1. PICK p \in Packets :
          /\ IF p.cmd = 0
             THEN /\ kflyStat' = [kflyStat EXCEPT !.cmdError = @ + 1]
                  /\ UNCHANGED <<parser, ack, run, acked>>
             ELSE /\ parser' = IF p.known THEN p.cmd ELSE NONE
                  /\ ack' = AckFlag(p)
                  /\ IF Len(f) >= 4 /\ Len(f) - 4 = p.len
                     THEN /\ kflyStat' = [kflyStat EXCEPT !.success = @ + 1]
                          /\ acked' = IF ack' THEN Append(acked, p) ELSE acked
                          /\ run' = IF p.known THEN Append(run, p) ELSE run
                     ELSE /\ kflyStat' = [kflyStat EXCEPT !.sizeError = @ + 1]
                          /\ UNCHANGED <<run, acked>>
          /\ UNCHANGED fault
    BY <1>3 DEF Accept
  <2>2. CASE p.cmd = 0
    BY <2>1, <2>2 DEF PacketLayerOK
  <2>3. CASE p.cmd # 0
    <3>1. parser' \in Nat \cup {NONE} /\ ack' \in BOOLEAN /\ fault' \in BOOLEAN
      BY <2>1, <2>3, PacketFacts DEF PacketLayerOK, AckFlag
    <3>2. kflyStat' \in [success : Nat, cmdError : Nat, sizeError : Nat, crcError : Nat]
      BY <2>1, <2>3 DEF PacketLayerOK
    <3>3. run' \in Seq(Packets) /\ acked' \in Seq(Packets)
      <4>1. Append(run, p) \in Seq(Packets) /\ Append(acked, p) \in Seq(Packets)
        BY AppendProperties DEF PacketLayerOK
      <4>2. (run' = run \/ run' = Append(run, p)) /\ (acked' = acked \/ acked' = Append(acked, p))
        BY <2>1, <2>3
      <4>3. QED
        BY <4>1, <4>2 DEF PacketLayerOK
    <3>4. QED
      BY <3>1, <3>2, <3>3 DEF PacketLayerOK
  <2>4. QED
    BY <2>2, <2>3
<1>4. QED
  BY <1>1, <1>2, <1>3 DEF ParseKFlyPacket

(* A byte is stored or the frame is given up. *)
LEMMA StoreTyped ==
  ASSUME PacketLayerOK, FrameLayerOK, NEW b \in Byte, Store(b)
  PROVE  PacketLayerOK' /\ FrameLayerOK'
<1>1. PacketLayerOK'
  BY DEF Store, Skip, PacketLayerOK
<1>2. CASE Len(buffer) >= BufferSize
  <2>1. /\ state' = "AWAITING_START" /\ buffer' = buffer
        /\ slipStat' = [slipStat EXCEPT !.error = @ + 1, !.overrun = @ + 1]
    BY <1>2 DEF Store
  <2>2. slipStat' \in [success : Nat, error : Nat, overrun : Nat]
    <3> DEFINE one == [slipStat EXCEPT !.error = @ + 1]
    <3>1. one \in [success : Nat, error : Nat, overrun : Nat]
      BY DEF FrameLayerOK
    <3>2. slipStat' = [one EXCEPT !.overrun = @ + 1]
      BY <2>1
    <3> HIDE DEF one
    <3>3. QED
      BY <3>1, <3>2
  <2>3. QED
    BY <1>1, <2>1, <2>2 DEF FrameLayerOK
<1>3. CASE ~ (Len(buffer) >= BufferSize)
  <2>1. /\ Append(buffer, b) \in Seq(Byte) /\ Len(Append(buffer, b)) = Len(buffer) + 1
        /\ Len(buffer) \in Nat
    BY AppendProperties, LenProperties DEF FrameLayerOK
  <2>2. Len(buffer) + 1 <= BufferSize
    BY <1>3, <2>1, PacketAssumption
  <2>3. buffer' = Append(buffer, b) /\ state' = "RECEIVING" /\ slipStat' = slipStat
    BY <1>3 DEF Store
  <2>4. QED
    BY <1>1, <2>1, <2>2, <2>3 DEF FrameLayerOK
<1>4. QED
  BY <1>2, <1>3

LEMMA SkipTyped ==
  ASSUME PacketLayerOK, Skip PROVE PacketLayerOK'
  BY DEF Skip, PacketLayerOK

LEMMA ParseSLIPTyped ==
  ASSUME PacketLayerOK, FrameLayerOK, NEW b \in Byte, ParseSLIP(b)
  PROVE  PacketLayerOK' /\ FrameLayerOK'
<1>1. CASE AwaitingStart(b)
  <2>1. FrameLayerOK'
    <3>1. Len(<<>>) <= BufferSize /\ <<>> \in Seq(Byte)
      BY PacketAssumption
    <3>2. QED
      BY <1>1, <3>1 DEF AwaitingStart, FrameLayerOK
  <2>2. QED
    BY <1>1, <2>1, SkipTyped DEF AwaitingStart
<1>2. CASE Receiving(b)
  <2>1. CASE b = SLIP_ESC /\ state' = "AWAITING_ESC" /\ UNCHANGED <<buffer, slipStat>> /\ Skip
    BY <2>1, SkipTyped DEF FrameLayerOK
  <2>2. CASE EndOfFrame
    <3>1. CASE buffer # <<>>
      <4>1. PacketLayerOK'
        BY <2>2, <3>1, ParseKFlyPacketTyped DEF EndOfFrame, FrameLayerOK
      <4>2. FrameLayerOK'
        BY <2>2, <3>1 DEF EndOfFrame, FrameLayerOK
      <4>3. QED
        BY <4>1, <4>2
    <3>2. CASE buffer = <<>>
      BY <2>2, <3>2, SkipTyped DEF EndOfFrame, FrameLayerOK
    <3>3. QED
      BY <3>1, <3>2
  <2>3. CASE Store(b)
    BY <2>3, StoreTyped
  <2>4. QED
    BY <1>2, <2>1, <2>2, <2>3 DEF Receiving
<1>3. CASE AwaitingEsc(b)
  <2>1. SLIP_END \in Byte /\ SLIP_ESC \in Byte
    BY EndInByte
  <2>2. CASE Store(SLIP_END) \/ Store(SLIP_ESC)
    BY <2>1, <2>2, StoreTyped
  <2>3. CASE /\ state' = "AWAITING_START"
             /\ slipStat' = [slipStat EXCEPT !.error = @ + 1]
             /\ UNCHANGED buffer
             /\ Skip
    BY <2>3, SkipTyped DEF FrameLayerOK
  <2>4. QED
    BY <1>3, <2>2, <2>3 DEF AwaitingEsc
<1>4. QED
  BY <1>1, <1>2, <1>3 DEF ParseSLIP

LEMMA TypeInit == Init => TypeOK
<1> SUFFICES ASSUME Init PROVE TypeOK
  OBVIOUS
<1>1. PacketLayerOK
  BY EmptySeq DEF Init, PacketLayerOK
<1>2. FrameLayerOK
  BY PacketAssumption, EmptySeq DEF Init, FrameLayerOK
<1>3. LineTypes
  BY EmptySeq DEF Init, LineTypes
<1>4. QED
  BY <1>1, <1>2, <1>3 DEF TypeOK

(* Reading takes a byte that can be on the line. *)
LEMMA HeadIsByte ==
  ASSUME TypeOK, line # <<>>
  PROVE  Head(line) \in Byte /\ Tail(line) \in Seq(Byte)
  BY HeadTailProperties DEF TypeOK, LineTypes

LEMMA TypeStep == TypeOK /\ [Next]_vars => TypeOK'
<1> SUFFICES ASSUME TypeOK, [Next]_vars PROVE TypeOK'
  OBVIOUS
<1>1. CASE Read
  <2>1. PacketLayerOK' /\ FrameLayerOK'
    BY <1>1, HeadIsByte, ParseSLIPTyped DEF Read, TypeOK
  <2>2. LineTypes'
    <3>1. line' \in Seq(Byte)
      BY <1>1, HeadIsByte DEF Read
    <3>2. cur' \in Packets \cup {NONE}
      BY <1>1 DEF Read, TypeOK, LineTypes
    <3>3. missed' \in Nat
      BY <1>1 DEF Read, TypeOK, LineTypes
    <3>4. QED
      BY <1>1, <3>1, <3>2, <3>3 DEF Read, TypeOK, LineTypes
  <2>3. QED
    BY <2>1, <2>2 DEF TypeOK
<1>2. ASSUME NEW p \in Packets, Send(p) PROVE TypeOK'
  <2>1. Frame(p.bytes) \in Seq(Byte)
    BY PacketFacts, FrameEnds
  <2>2. sent' \in Seq(Packets)
    BY <1>2, AppendProperties DEF Send, TypeOK, LineTypes
  <2>3. LineTypes'
    BY <1>2, <2>1, <2>2 DEF Send, TypeOK, LineTypes
  <2>4. QED
    BY <1>2, <2>3 DEF Send, rxVars, TypeOK, PacketLayerOK, FrameLayerOK
<1>3. ASSUME NEW b \in NoiseBytes, Insert(b) PROVE TypeOK'
  <2>1. b \in Byte
    BY DEF Byte
  <2>2. <<b>> \o line \in Seq(Byte)
    BY <2>1, HeadTailOfConcat DEF TypeOK, LineTypes
  <2>3. intact' \in BOOLEAN
    BY <1>3 DEF Insert
  <2>4. noise' \in Nat /\ missed' \in Nat /\ sent' = sent /\ cur' = cur /\ line' \in Seq(Byte)
    BY <1>3, <2>2 DEF Insert, Damage, TypeOK, LineTypes
  <2>5. LineTypes'
    BY <2>3, <2>4 DEF TypeOK, LineTypes
  <2>6. QED
    BY <1>3, <2>5 DEF Insert, Damage, rxVars, TypeOK, PacketLayerOK, FrameLayerOK
<1>4. CASE Drop
  <2>1. line' \in Seq(Byte)
    BY <1>4, HeadIsByte DEF Drop
  <2>2. noise' \in Nat /\ missed' \in Nat /\ sent' = sent /\ cur' \in {cur, NONE} /\ intact' = FALSE
    BY <1>4 DEF Drop, Damage, TypeOK, LineTypes
  <2>3. LineTypes'
    BY <2>1, <2>2 DEF TypeOK, LineTypes
  <2>4. QED
    BY <1>4, <2>3 DEF Drop, Damage, rxVars, TypeOK, PacketLayerOK, FrameLayerOK
<1>5. CASE HostLeaves
  <2>1. <<RESET>> \in Seq(Byte)
    BY DEF Byte
  <2>2. noise' \in Nat /\ missed' \in Nat /\ sent' = sent /\ cur' = NONE /\ intact' = FALSE
    BY <1>5 DEF HostLeaves, Damage, TypeOK, LineTypes
  <2>3. line' = <<RESET>>
    BY <1>5 DEF HostLeaves
  <2>4. LineTypes'
    BY <2>1, <2>2, <2>3 DEF TypeOK, LineTypes
  <2>5. QED
    BY <1>5, <2>4 DEF HostLeaves, Damage, rxVars, TypeOK, PacketLayerOK, FrameLayerOK
<1>6. CASE UNCHANGED vars
  BY <1>6 DEF vars, rxVars, lineVars, TypeOK, PacketLayerOK, FrameLayerOK, LineTypes
<1>7. QED
  BY <1>1, <1>2, <1>3, <1>4, <1>5, <1>6 DEF Next

(* The receiver's variables keep their types; in particular the buffer     *)
(* never holds more than SERIAL_RECIEVE_BUFFER_SIZE bytes (slip.c:405).    *)
THEOREM TypeCorrect == Spec => []TypeOK
<1>1. QED
  BY TypeInit, TypeStep, PTL DEF Spec

-----------------------------------------------------------------------------
(* Staying in step with the sender. *)

(* The parser takes the next END as the start of a frame. *)
Good(st, buf) == st = "AWAITING_START" \/ (st = "RECEIVING" /\ buf = <<>>)

(* Inside the frame of the payload d, with the bytes l of it to come: the  *)
(* parser has stored what came, or has given up a frame that is too long.  *)
InFrame(d, st, buf, l) ==
  /\ EndsOnce(l)
  /\ \/ /\ st = "RECEIVING"
        /\ Len(buf) <= Len(d) /\ buf = SubSeq(d, 1, Len(buf))
        /\ Frame(d) = Lead(buf) \o l
     \/ /\ st = "AWAITING_ESC"
        /\ Len(buf) <= Len(d) /\ buf = SubSeq(d, 1, Len(buf))
        /\ Frame(d) = Lead(buf) \o (<<SLIP_ESC>> \o l)
     \/ st = "AWAITING_START" /\ Len(d) > BufferSize

(* Parser and sender agree on where frames start. *)
InStep ==
  IF cur = NONE
  THEN line = <<>> /\ Good(state, buffer)
  ELSE /\ intact
       /\ \/ line = Frame(cur.bytes) /\ Good(state, buffer)
          \/ InFrame(cur.bytes, state, buffer, line)

(* An END always leaves the parser ready for the next frame. *)
LEMMA EndResyncs ==
  ASSUME FrameLayerOK, ParseSLIP(SLIP_END)
  PROVE  Good(state', buffer')
<1>1. /\ SLIP_END # SLIP_ESC /\ SLIP_END # SLIP_ESC_END /\ SLIP_END # SLIP_ESC_ESC
      /\ SLIP_END \in Reserved
  BY DEF SLIP_END, SLIP_ESC, SLIP_ESC_END, SLIP_ESC_ESC, Reserved
<1>2. CASE AwaitingStart(SLIP_END)
  BY <1>2 DEF AwaitingStart, Good
<1>3. CASE Receiving(SLIP_END)
  <2>1. state = "RECEIVING" /\ EndOfFrame
    BY <1>1, <1>3 DEF Receiving
  <2>2. QED
    BY <2>1 DEF EndOfFrame, Good
<1>4. CASE AwaitingEsc(SLIP_END)
  BY <1>1, <1>4 DEF AwaitingEsc, Good
<1>5. QED
  BY <1>2, <1>3, <1>4 DEF ParseSLIP

(* The opening END, when the parser is ready for it. *)
LEMMA FrameStarts ==
  ASSUME NEW d \in Seq(Byte), line = Frame(d), Good(state, buffer),
         ParseSLIP(Head(line)), line' = Tail(line)
  PROVE  line' # <<>> /\ InFrame(d, state', buffer', line') /\ Skip
<1>1. /\ Head(line) = SLIP_END
      /\ Frame(d) = <<SLIP_END>> \o line'
      /\ EndsOnce(line')
  BY FrameEnds
<1>2. /\ SLIP_END # SLIP_ESC /\ SLIP_END \in Reserved
  BY DEF SLIP_END, SLIP_ESC, Reserved
<1>3. state' = "RECEIVING" /\ buffer' = <<>> /\ Skip
  <2>1. CASE state = "AWAITING_START"
    BY <1>1, <2>1 DEF ParseSLIP, AwaitingStart, Receiving, AwaitingEsc
  <2>2. CASE state = "RECEIVING" /\ buffer = <<>>
    BY <1>1, <1>2, <2>2 DEF ParseSLIP, AwaitingStart, Receiving, AwaitingEsc, EndOfFrame
  <2>3. QED
    BY <2>1, <2>2 DEF Good
<1>4. Lead(<<>>) = <<SLIP_END>>
  <2>1. [i \in DOMAIN <<>> |-> Encode(<<>>[i])] = <<>>
    OBVIOUS
  <2>2. Body(<<>>) = <<>>
    BY <2>1, FlattenEmpty DEF Body
  <2>3. <<SLIP_END>> \in Seq(Byte)
    BY EndInByte
  <2>4. QED
    BY <2>2, <2>3, ConcatEmptySeq DEF Lead
<1>5. Len(<<>>) = 0 /\ SubSeq(d, 1, 0) = <<>> /\ 0 <= Len(d)
  BY LenProperties, SubSeqEmpty
<1>6. line' # <<>>
  BY <1>1 DEF EndsOnce
<1>7. QED
  BY <1>1, <1>3, <1>4, <1>5, <1>6 DEF InFrame

(* A byte of the payload is stored, or the frame is too long. *)
LEMMA StoredInFrame ==
  ASSUME NEW d \in Seq(Byte), FrameLayerOK, EndsOnce(line'), Store(d[Len(buffer) + 1]),
         Len(buffer) < Len(d), buffer = SubSeq(d, 1, Len(buffer)),
         d[Len(buffer) + 1] \in Byte,
         SubSeq(d, 1, Len(buffer) + 1) = Append(SubSeq(d, 1, Len(buffer)), d[Len(buffer) + 1]),
         Frame(d) = Lead(SubSeq(d, 1, Len(buffer) + 1)) \o line'
  PROVE  InFrame(d, state', buffer', line')
<1> DEFINE k == Len(buffer)
<1>1. k \in Nat /\ Len(d) \in Nat /\ BufferSize \in Nat
  BY LenProperties, PacketAssumption DEF FrameLayerOK
<1>2. CASE k >= BufferSize
  <2>1. state' = "AWAITING_START"
    BY <1>2 DEF Store
  <2>2. Len(d) > BufferSize
    BY <1>1, <1>2
  <2>3. QED
    BY <2>1, <2>2 DEF InFrame
<1>3. CASE ~ (k >= BufferSize)
  <2>1. state' = "RECEIVING" /\ buffer' = Append(buffer, d[k + 1])
    BY <1>3 DEF Store
  <2>2. buffer' = SubSeq(d, 1, k + 1)
    BY <2>1
  <2>3. Len(buffer') = k + 1
    BY <2>1, AppendProperties DEF FrameLayerOK
  <2>4. Len(buffer') <= Len(d)
    BY <1>1, <2>3
  <2>5. QED
    BY <2>1, <2>2, <2>3, <2>4 DEF InFrame
<1>4. QED
  BY <1>2, <1>3

(* Every further byte of the frame keeps the parser in step; the last one  *)
(* hands the payload to the packet layer, unless it was too long.          *)
LEMMA FrameGoesOn ==
  ASSUME NEW d \in Seq(Byte), d # <<>>, FrameLayerOK, line \in Seq(Byte), line # <<>>,
         InFrame(d, state, buffer, line), ParseSLIP(Head(line)), line' = Tail(line)
  PROVE  /\ line' # <<>> => InFrame(d, state', buffer', line')
         /\ line' = <<>> => Head(line) = SLIP_END
         /\ line' = <<>> /\ Len(d) <= BufferSize => ParseKFlyPacket(d)
         /\ line' # <<>> \/ Len(d) > BufferSize => Skip
<1> DEFINE k == Len(buffer)
<1>1. k \in Nat /\ Len(d) \in Nat /\ BufferSize \in Nat
  BY LenProperties, PacketAssumption DEF FrameLayerOK
<1>2. /\ SLIP_END # SLIP_ESC /\ SLIP_ESC_END # SLIP_END /\ SLIP_ESC_ESC # SLIP_END
      /\ SLIP_ESC_END # SLIP_ESC_ESC
      /\ Reserved = {SLIP_END, SLIP_ESC}
  BY DEF SLIP_END, SLIP_ESC, SLIP_ESC_END, SLIP_ESC_ESC, Reserved
<1>3. /\ line' = <<>> => Head(line) = SLIP_END
      /\ line' # <<>> => Head(line) # SLIP_END /\ EndsOnce(line')
  BY EndsOnceTail DEF InFrame
<1>4. CASE /\ state = "RECEIVING"
           /\ k <= Len(d) /\ buffer = SubSeq(d, 1, k)
           /\ Frame(d) = Lead(buffer) \o line
  <2>1. Receiving(Head(line))
    BY <1>4 DEF ParseSLIP, AwaitingStart, AwaitingEsc
  <2>2. Frame(d) = Lead(SubSeq(d, 1, k)) \o line
    BY <1>4
  <2>3. \/ k = Len(d) /\ SubSeq(d, 1, k) = d /\ line = <<SLIP_END>>
        \/ /\ k < Len(d) /\ d[k + 1] \in Byte \ Reserved
           /\ Head(line) = d[k + 1]
           /\ SubSeq(d, 1, k + 1) = Append(SubSeq(d, 1, k), d[k + 1])
           /\ Frame(d) = Lead(SubSeq(d, 1, k + 1)) \o Tail(line)
        \/ /\ k < Len(d) /\ d[k + 1] \in Reserved
           /\ Head(line) = SLIP_ESC
           /\ Frame(d) = Lead(SubSeq(d, 1, k)) \o (<<SLIP_ESC>> \o Tail(line))
    BY <1>1, <1>4, <2>2, ByteOfFrame
  <2>4. CASE k = Len(d) /\ SubSeq(d, 1, k) = d /\ line = <<SLIP_END>>
    <3>1. Head(line) = SLIP_END /\ line' = <<>>
      BY <2>4
    <3>2. EndOfFrame
      BY <1>2, <2>1, <3>1 DEF Receiving
    <3>3. buffer = d
      BY <1>4, <2>4
    <3>4. ParseKFlyPacket(d)
      BY <3>2, <3>3 DEF EndOfFrame
    <3>5. Len(d) <= BufferSize
      BY <3>3 DEF FrameLayerOK
    <3>6. QED
      BY <1>1, <3>1, <3>4, <3>5
  <2>5. CASE /\ k < Len(d) /\ d[k + 1] \in Byte \ Reserved
             /\ Head(line) = d[k + 1]
             /\ SubSeq(d, 1, k + 1) = Append(SubSeq(d, 1, k), d[k + 1])
             /\ Frame(d) = Lead(SubSeq(d, 1, k + 1)) \o Tail(line)
    <3>1. Head(line) # SLIP_END /\ Head(line) # SLIP_ESC
      BY <1>2, <2>5
    <3>2. line' # <<>> /\ EndsOnce(line')
      BY <1>3, <3>1
    <3>3. Store(d[k + 1])
      BY <2>1, <2>5, <3>1 DEF Receiving
    <3>4. InFrame(d, state', buffer', line')
      BY <1>4, <2>5, <3>2, <3>3, StoredInFrame
    <3>5. QED
      BY <3>2, <3>3, <3>4 DEF Store
  <2>6. CASE /\ k < Len(d) /\ d[k + 1] \in Reserved
             /\ Head(line) = SLIP_ESC
             /\ Frame(d) = Lead(SubSeq(d, 1, k)) \o (<<SLIP_ESC>> \o Tail(line))
    <3>1. line' # <<>> /\ EndsOnce(line')
      BY <1>2, <1>3, <2>6
    <3>2. state' = "AWAITING_ESC" /\ buffer' = buffer /\ Skip
      BY <1>2, <2>1, <2>6 DEF Receiving
    <3>3. InFrame(d, state', buffer', line')
      BY <1>4, <2>6, <3>1, <3>2 DEF InFrame
    <3>4. QED
      BY <3>1, <3>2, <3>3
  <2>7. QED
    BY <2>3, <2>4, <2>5, <2>6
<1>5. CASE /\ state = "AWAITING_ESC"
           /\ k <= Len(d) /\ buffer = SubSeq(d, 1, k)
           /\ Frame(d) = Lead(buffer) \o (<<SLIP_ESC>> \o line)
  <2>1. AwaitingEsc(Head(line))
    BY <1>5 DEF ParseSLIP, AwaitingStart, Receiving
  <2>2. Frame(d) = Lead(SubSeq(d, 1, k)) \o (<<SLIP_ESC>> \o line)
    BY <1>5
  <2>3. /\ k < Len(d) /\ d[k + 1] \in Byte \cap Reserved
        /\ Head(line) = EscapeOf(d[k + 1])
        /\ SubSeq(d, 1, k + 1) = Append(SubSeq(d, 1, k), d[k + 1])
        /\ Frame(d) = Lead(SubSeq(d, 1, k + 1)) \o Tail(line)
    BY <1>1, <1>5, <2>2, CodeOfFrame
  <2>4. Store(d[k + 1]) /\ Head(line) # SLIP_END
    <3>1. CASE d[k + 1] = SLIP_END
      BY <1>2, <2>1, <2>3, <3>1 DEF AwaitingEsc, EscapeOf
    <3>2. CASE d[k + 1] # SLIP_END
      <4>1. d[k + 1] = SLIP_ESC /\ Head(line) = SLIP_ESC_ESC
        BY <1>2, <2>3, <3>2 DEF EscapeOf
      <4>2. QED
        BY <1>2, <2>1, <4>1 DEF AwaitingEsc
    <3>3. QED
      BY <3>1, <3>2
  <2>5. line' # <<>> /\ EndsOnce(line')
    BY <1>3, <2>4
  <2>6. InFrame(d, state', buffer', line')
    BY <1>5, <2>3, <2>4, <2>5, StoredInFrame
  <2>7. QED
    BY <2>4, <2>5, <2>6 DEF Store
<1>6. CASE state = "AWAITING_START" /\ Len(d) > BufferSize
  <2>1. AwaitingStart(Head(line))
    BY <1>6 DEF ParseSLIP, Receiving, AwaitingEsc
  <2>2. Skip /\ (line' # <<>> => state' = "AWAITING_START")
    BY <1>3, <1>6, <2>1 DEF AwaitingStart
  <2>3. QED
    BY <1>1, <1>3, <1>6, <2>2 DEF InFrame
<1>7. QED
  BY <1>4, <1>5, <1>6 DEF InFrame

(* The packet layer accepts a packet it is meant to accept. *)
LEMMA AcceptableIsAccepted ==
  ASSUME PacketLayerOK, NEW p \in Packets, Acceptable(p), ParseKFlyPacket(p.bytes)
  PROVE  Accepted
<1>1. /\ Len(p.bytes) >= 4 /\ p.cmd # 0 /\ Len(p.bytes) - 4 = p.len
      /\ Len(p.bytes) \in Nat
  BY PacketFacts DEF Acceptable, WellFormed
<1>2. ~ CrcRunsAway(p.bytes)
  BY <1>1 DEF CrcRunsAway
<1>3. ~ CrcError(p.bytes)
  BY DEF CrcError
<1>4. Accept(p.bytes)
  BY <1>2, <1>3 DEF ParseKFlyPacket
<1>5. \A q \in Packets : p.bytes = q.bytes => p = q
  BY PacketAssumption
<1>6. kflyStat' = [kflyStat EXCEPT !.success = @ + 1]
  BY <1>1, <1>4, <1>5 DEF Accept
<1>7. QED
  BY <1>6 DEF Accepted, PacketLayerOK

(* The bytes of a packet on the line, intact or not. *)
LineOK ==
  cur # NONE => line # <<>> /\ (intact => line[Len(line)] = SLIP_END)

(* When a packet was missed since the last damage, and when there was no   *)
(* damage at all, the parser is in step: it will not miss another one.     *)
Caught ==
  /\ missed \in {0, 1}
  /\ noise = 0 => missed = 0
  /\ (missed = 1 \/ noise = 0) /\ ~ fault => InStep

ResyncInv == TypeOK /\ LineOK /\ Caught

LEMMA ResyncInit == Init => ResyncInv
  BY TypeInit DEF Init, ResyncInv, LineOK, Caught, InStep, Good

(* The last byte of an intact packet is an END. *)
LEMMA LastIsEnd ==
  ASSUME TypeOK, LineOK, cur # NONE, intact, Tail(line) = <<>>
  PROVE  Head(line) = SLIP_END
<1>1. line \in Seq(Byte) /\ line # <<>> /\ line[Len(line)] = SLIP_END
  BY DEF LineOK, TypeOK, LineTypes
<1>2. Len(Tail(line)) = Len(line) - 1 /\ Len(line) \in Nat /\ Head(line) = line[1]
  BY <1>1, HeadTailProperties, LenProperties
<1>3. Len(Tail(line)) = 0
  <2>1. Len(<<>>) = 0
    BY EmptySeq
  <2>2. QED
    BY <2>1
<1>4. Len(line) = 1
  BY <1>2, <1>3
<1>5. QED
  BY <1>1, <1>2, <1>4

(* The other bytes of a packet leave its last byte where it is. *)
LEMMA LineStep ==
  ASSUME TypeOK, LineOK, [Next]_vars PROVE LineOK'
<1> DEFINE EndsWell(l) == l # <<>> /\ (intact => l[Len(l)] = SLIP_END)
<1>1. line \in Seq(Byte)
  BY DEF TypeOK, LineTypes
<1>2. CASE Read
  <2>1. SUFFICES ASSUME cur' # NONE PROVE EndsWell(line')
    BY <1>2 DEF LineOK, Read
  <2>2. cur # NONE /\ Tail(line) # <<>> /\ line' = Tail(line) /\ line # <<>>
    BY <1>2, <2>1 DEF Read
  <2>3. ASSUME intact PROVE line'[Len(line')] = SLIP_END
    <3> DEFINE n == Len(line)
    <3>1. line[n] = SLIP_END
      BY <2>2, <2>3 DEF LineOK
    <3>2. /\ n \in Nat /\ Tail(line) \in Seq(Byte) /\ Len(Tail(line)) = n - 1
          /\ \A i \in 1 .. (n - 1) : Tail(line)[i] = line[i + 1]
      BY <1>1, <2>2, HeadTailProperties, LenProperties
    <3>3. n - 1 \in Nat \ {0}
      BY <2>2, <3>2, EmptySeq
    <3> HIDE DEF n
    <3>4. Tail(line)[n - 1] = line[n]
      BY <3>2, <3>3
    <3>5. QED
      BY <2>2, <3>1, <3>2, <3>4
  <2>4. QED
    BY <2>2, <2>3
<1>3. ASSUME NEW p \in Packets, Send(p) PROVE LineOK'
  BY <1>3, PacketFacts, FrameEnds DEF Send, LineOK
<1>4. ASSUME NEW b \in NoiseBytes, Insert(b) PROVE LineOK'
  <2>1. SUFFICES ASSUME cur' # NONE
                 PROVE  line' # <<>> /\ (intact' => line'[Len(line')] = SLIP_END)
    BY DEF LineOK
  <2>2. cur # NONE /\ line' = <<b>> \o line /\ (intact' => intact) /\ line # <<>>
    BY <1>4, <2>1 DEF Insert, LineOK
  <2>3. b \in Byte
    BY DEF Byte
  <2>4. line' # <<>>
    BY <1>1, <2>2, <2>3, HeadTailOfConcat
  <2>5. ASSUME intact' PROVE line'[Len(line')] = SLIP_END
    <3> DEFINE n == Len(line)
    <3>1. line[n] = SLIP_END
      BY <2>2, <2>5 DEF LineOK
    <3>2. n \in Nat /\ n # 0 /\ <<b>> \in Seq(Byte) /\ Len(<<b>>) = 1
      BY <1>1, <2>2, <2>3, EmptySeq, LenProperties
    <3> HIDE DEF n
    <3>3. Len(line') = 1 + n /\ line'[1 + n] = line[n]
      BY <1>1, <2>2, <3>2, ConcatProperties DEF n
    <3>4. QED
      BY <3>1, <3>3
  <2>6. QED
    BY <2>4, <2>5
<1>5. CASE Drop
  BY <1>5 DEF Drop, LineOK
<1>6. CASE HostLeaves
  BY <1>6 DEF HostLeaves, LineOK
<1>7. CASE UNCHANGED vars
  BY <1>7 DEF vars, lineVars, LineOK
<1>8. QED
  BY <1>2, <1>3, <1>4, <1>5, <1>6, <1>7 DEF Next

(* In step, a byte read keeps the parser in step and no packet is missed.  *)
LEMMA ReadInStep ==
  ASSUME TypeOK, LineOK, InStep, Read
  PROVE  InStep' /\ missed' = missed
<1>1. line \in Seq(Byte) /\ line # <<>> /\ line' = Tail(line) /\ ParseSLIP(Head(line))
      /\ FrameLayerOK /\ PacketLayerOK
  BY DEF Read, TypeOK, LineTypes
<1>2. cur # NONE /\ cur \in Packets /\ intact
  BY <1>1 DEF InStep, TypeOK, LineTypes
<1> DEFINE d == cur.bytes
<1>3. d \in Seq(Byte) /\ d # <<>>
  BY <1>2, PacketFacts, EmptySeq
<1>4. /\ line' # <<>> => InFrame(d, state', buffer', line')
      /\ line' = <<>> => Head(line) = SLIP_END
      /\ line' = <<>> /\ Len(d) <= BufferSize => ParseKFlyPacket(d)
  <2>1. CASE line = Frame(d) /\ Good(state, buffer)
    BY <1>1, <1>3, <2>1, FrameStarts
  <2>2. CASE InFrame(d, state, buffer, line)
    BY <1>1, <1>3, <2>2, FrameGoesOn
  <2>3. QED
    BY <1>2, <2>1, <2>2 DEF InStep
<1> HIDE DEF d
<1>5. CASE line' # <<>>
  <2>1. cur' = cur /\ intact' = intact /\ missed' = missed
    BY <1>1, <1>5 DEF Read
  <2>2. InFrame(cur'.bytes, state', buffer', line')
    BY <1>4, <1>5, <2>1 DEF d
  <2>3. InStep'
    BY <1>2, <2>1, <2>2 DEF InStep
  <2>4. QED
    BY <2>1, <2>3
<1>6. CASE line' = <<>>
  <2>1. cur' = NONE
    BY <1>1, <1>2, <1>6 DEF Read
  <2>2. Good(state', buffer')
    BY <1>1, <1>4, <1>6, EndResyncs
  <2>3. InStep'
    BY <1>6, <2>1, <2>2 DEF InStep
  <2>4. Acceptable(cur) => Accepted
    <3>1. Acceptable(cur) => ParseKFlyPacket(d)
      BY <1>4, <1>6 DEF Acceptable, d
    <3>2. QED
      BY <1>1, <1>2, <3>1, AcceptableIsAccepted DEF d
  <2>5. missed' = missed
    BY <1>1, <1>2, <1>6, <2>4 DEF Read
  <2>6. QED
    BY <2>3, <2>5
<1>7. QED
  BY <1>5, <1>6

LEMMA CaughtStep ==
  ASSUME ResyncInv, [Next]_vars PROVE Caught'
<1> USE DEF ResyncInv
<1>1. CASE Read
  <2>1. ~ fault /\ noise' = noise /\ FrameLayerOK
    BY <1>1 DEF Read, TypeOK
  <2>2. CASE missed = 1 \/ noise = 0
    <3>1. InStep' /\ missed' = missed
      BY <1>1, <2>1, <2>2, ReadInStep DEF Caught
    <3>2. QED
      BY <2>1, <2>2, <3>1 DEF Caught
  <2>3. CASE ~ (missed = 1 \/ noise = 0)
    <3>1. missed = 0 /\ noise' # 0
      BY <2>1, <2>3 DEF Caught
    <3>2. CASE missed' = 0
      BY <3>1, <3>2 DEF Caught
    <3>3. CASE missed' # 0
      <4>1. /\ missed' = 1 /\ cur # NONE /\ intact /\ Tail(line) = <<>> /\ cur' = NONE
            /\ line' = <<>>
        BY <1>1, <3>1, <3>3 DEF Read
      <4>2. Head(line) = SLIP_END
        BY <4>1, LastIsEnd
      <4>3. Good(state', buffer')
        BY <1>1, <2>1, <4>2, EndResyncs DEF Read
      <4>4. InStep'
        BY <4>1, <4>3 DEF InStep
      <4>5. QED
        BY <3>1, <4>1, <4>4 DEF Caught
    <3>4. QED
      BY <3>2, <3>3
  <2>4. QED
    BY <2>2, <2>3
<1>2. ASSUME NEW p \in Packets, Send(p) PROVE Caught'
  <2>1. /\ line = <<>> /\ line' = Frame(p.bytes) /\ cur' = p /\ intact' = TRUE
        /\ state' = state /\ buffer' = buffer /\ fault' = fault
        /\ noise' = noise /\ missed' = missed
    BY <1>2 DEF Send, rxVars
  <2>2. cur = NONE
    BY <2>1 DEF LineOK
  <2>3. InStep => InStep'
    BY <2>1, <2>2, PacketFacts DEF InStep
  <2>4. QED
    BY <2>1, <2>3 DEF Caught
<1>3. CASE Damage
  <2>1. noise' = noise + 1 /\ missed' = 0 /\ noise \in Nat
    BY <1>3 DEF Damage, TypeOK, LineTypes
  <2>2. QED
    BY <2>1 DEF Caught
<1>4. CASE UNCHANGED vars
  BY <1>4 DEF vars, rxVars, lineVars, Caught, InStep
<1>5. QED
  BY <1>1, <1>2, <1>3, <1>4 DEF Next, Insert, Drop, HostLeaves

LEMMA ResyncStep == ResyncInv /\ [Next]_vars => ResyncInv'
  BY TypeStep, LineStep, CaughtStep DEF ResyncInv

(* However bytes are damaged, lost or put in, at most one of the intact    *)
(* packets that follow is missed: an END always brings the parser back     *)
(* (slip.c:353-366), whatever packets, buffer and noise there are.         *)
THEOREM ResyncsWithinOneFrame == Spec => []ResyncWithinOneFrame
<1>1. ResyncInv => ResyncWithinOneFrame
  BY DEF ResyncInv, Caught, ResyncWithinOneFrame
<1>2. QED
  BY <1>1, ResyncInit, ResyncStep, PTL DEF Spec

(* On a clean line every packet that fits the buffer is accepted.          *)
THEOREM UndamagedAccepted == Spec => []UndamagedIsAccepted
<1>1. ResyncInv => UndamagedIsAccepted
  BY DEF ResyncInv, Caught, UndamagedIsAccepted
<1>2. QED
  BY <1>1, ResyncInit, ResyncStep, PTL DEF Spec

-----------------------------------------------------------------------------
(* Acknowledgements. *)

(* One packet more is kept at the end, or left out. *)
LEMMA WithinAppend ==
  ASSUME NEW s \in Seq(Packets), NEW p \in Packets, NEW S, Within(s, S) \in Seq(Packets)
  PROVE  /\ Within(Append(s, p), S) =
              IF p \in S THEN Append(Within(s, S), p) ELSE Within(s, S)
         /\ Within(Append(s, p), S) \in Seq(Packets)
<1> DEFINE e == IF p \in S THEN <<p>> ELSE <<>>
           f == [i \in DOMAIN s |-> IF s[i] \in S THEN <<s[i]>> ELSE <<>>]
           t == [i \in DOMAIN Append(s, p) |->
                   IF Append(s, p)[i] \in S THEN <<Append(s, p)[i]>> ELSE <<>>]
<1>1. f \in Seq(Seq(Packets)) /\ Len(f) = Len(s)
  <2>1. \A i \in 1 .. Len(s) : s[i] \in Packets
    BY ElementOfSeq
  <2>2. \A i \in 1 .. Len(s) : (IF s[i] \in S THEN <<s[i]>> ELSE <<>>) \in Seq(Packets)
    BY <2>1
  <2>3. DOMAIN s = 1 .. Len(s) /\ Len(s) \in Nat
    BY LenProperties
  <2>4. QED
    BY <2>2, <2>3
<1>2. e \in Seq(Packets)
  OBVIOUS
<1>3. t = Append(f, e)
  <2>1. /\ Len(s) \in Nat /\ DOMAIN Append(s, p) = 1 .. (Len(s) + 1) /\ DOMAIN s = 1 .. Len(s)
        /\ \A i \in 1 .. Len(s) : Append(s, p)[i] = s[i]
        /\ Append(s, p)[Len(s) + 1] = p
    BY AppendProperties, LenProperties
  <2>2. \A i \in 1 .. Len(s) : t[i] = f[i]
    BY <2>1
  <2>3. t[Len(s) + 1] = e
    BY <2>1
  <2>4. /\ Append(f, e) \in Seq(Seq(Packets))
        /\ Len(Append(f, e)) = Len(s) + 1
        /\ \A i \in 1 .. Len(s) : Append(f, e)[i] = f[i]
        /\ Append(f, e)[Len(s) + 1] = e
    BY <1>1, <1>2, AppendProperties
  <2>5. \A i \in 1 .. (Len(s) + 1) : t[i] = Append(f, e)[i]
    BY <2>1, <2>2, <2>3, <2>4
  <2>6. \A i \in 1 .. (Len(s) + 1) : Append(f, e)[i] \in Seq(Packets)
    BY <2>4, ElementOfSeq
  <2>7. t \in Seq(Seq(Packets)) /\ Len(t) = Len(s) + 1
    BY <2>1, <2>5, <2>6
  <2>8. QED
    BY <2>4, <2>5, <2>7, SeqEqual
<1>4. FlattenSeq(f) \in Seq(Packets)
  BY DEF Within
<1> HIDE DEF f, t, e
<1>5. FlattenSeq(t) = FlattenSeq(f) \o e /\ FlattenSeq(t) \in Seq(Packets)
  BY <1>1, <1>2, <1>3, <1>4, FlattenAppend
<1>6. FlattenSeq(f) \o e = IF p \in S THEN Append(FlattenSeq(f), p) ELSE FlattenSeq(f)
  BY <1>4, ConcatEmptySeq, AppendIsConcat DEF e
<1>7. FlattenSeq(f) = Within(s, S) /\ FlattenSeq(t) = Within(Append(s, p), S)
  BY DEF Within, f, t
<1>8. QED
  BY <1>5, <1>6, <1>7

AckInv ==
  /\ TypeOK
  /\ Within(run, {p \in Packets : p.ack}) \in Seq(Packets)
  /\ Within(acked, {p \in Packets : p.known}) \in Seq(Packets)
  /\ AckedAsAsked

LEMMA WithinEmpty == \A S : Within(<<>>, S) = <<>>
<1> SUFFICES ASSUME NEW S PROVE Within(<<>>, S) = <<>>
  OBVIOUS
<1>1. [i \in DOMAIN <<>> |-> IF <<>>[i] \in S THEN <<<<>>[i]>> ELSE <<>>] = <<>>
  OBVIOUS
<1>2. QED
  BY <1>1, FlattenEmpty DEF Within

LEMMA AckInit == Init => AckInv
<1> SUFFICES ASSUME Init PROVE AckInv
  OBVIOUS
<1>1. run = <<>> /\ acked = <<>>
  BY DEF Init
<1>2. QED
  BY <1>1, TypeInit, WithinEmpty, EmptySeq DEF AckInv, AckedAsAsked

(* A packet is added to run, to acked, to both or to neither, as it is     *)
(* known and asks for an ACK.                                              *)
Handled(p) ==
  /\ run' = IF p.known THEN Append(run, p) ELSE run
  /\ acked' = IF p.ack THEN Append(acked, p) ELSE acked

LEMMA HandledOrNot ==
  ASSUME [Next]_vars
  PROVE  UNCHANGED <<run, acked>> \/ \E p \in Packets : Handled(p)
<1>1. ASSUME NEW f, ParseKFlyPacket(f)
      PROVE  UNCHANGED <<run, acked>> \/ \E p \in Packets : Handled(p)
  <2>1. CASE CrcRunsAway(f) \/ CrcError(f)
    BY <2>1 DEF CrcRunsAway, CrcError
  <2>2. CASE Accept(f)
    BY <2>2 DEF Accept, AckFlag, Handled
  <2>3. QED
    BY <1>1, <2>1, <2>2 DEF ParseKFlyPacket
<1>2. ASSUME NEW b, ParseSLIP(b)
      PROVE  UNCHANGED <<run, acked>> \/ \E p \in Packets : Handled(p)
  <2>1. Skip \/ ParseKFlyPacket(buffer)
    BY <1>2 DEF ParseSLIP, AwaitingStart, Receiving, AwaitingEsc, EndOfFrame, Store
  <2>2. QED
    BY <1>1, <2>1 DEF Skip
<1>3. CASE Read
  BY <1>2, <1>3 DEF Read
<1>4. CASE \E p \in Packets : Send(p)
  BY <1>4 DEF Send, rxVars
<1>5. CASE Damage
  BY <1>5 DEF Damage, rxVars
<1>6. CASE UNCHANGED vars
  BY <1>6 DEF vars, rxVars
<1>7. QED
  BY <1>3, <1>4, <1>5, <1>6 DEF Next, Insert, Drop, HostLeaves

LEMMA AckStep == AckInv /\ [Next]_vars => AckInv'
<1> SUFFICES ASSUME AckInv, [Next]_vars PROVE AckInv'
  OBVIOUS
<1> DEFINE A == {p \in Packets : p.ack}
           K == {p \in Packets : p.known}
<1>1. TypeOK'
  BY TypeStep DEF AckInv
<1>2. /\ run \in Seq(Packets) /\ acked \in Seq(Packets)
      /\ Within(run, A) \in Seq(Packets) /\ Within(acked, K) \in Seq(Packets)
      /\ Within(run, A) = Within(acked, K)
  BY DEF AckInv, AckedAsAsked, TypeOK, PacketLayerOK
<1>3. SUFFICES /\ Within(run', A) \in Seq(Packets) /\ Within(acked', K) \in Seq(Packets)
               /\ Within(run', A) = Within(acked', K)
  BY <1>1 DEF AckInv, AckedAsAsked
<1>4. CASE UNCHANGED <<run, acked>>
  BY <1>2, <1>4
<1>5. ASSUME NEW p \in Packets, Handled(p)
      PROVE  /\ Within(run', A) \in Seq(Packets) /\ Within(acked', K) \in Seq(Packets)
             /\ Within(run', A) = Within(acked', K)
  <2>1. (p \in A <=> p.ack) /\ (p \in K <=> p.known)
    OBVIOUS
  <2> HIDE DEF A, K
  <2>2. /\ Within(Append(run, p), A) =
             IF p \in A THEN Append(Within(run, A), p) ELSE Within(run, A)
        /\ Within(Append(run, p), A) \in Seq(Packets)
    BY <1>2, WithinAppend
  <2>3. /\ Within(Append(acked, p), K) =
             IF p \in K THEN Append(Within(acked, K), p) ELSE Within(acked, K)
        /\ Within(Append(acked, p), K) \in Seq(Packets)
    BY <1>2, WithinAppend
  <2>4. run' = (IF p \in K THEN Append(run, p) ELSE run)
        /\ acked' = (IF p \in A THEN Append(acked, p) ELSE acked)
    BY <1>5, <2>1 DEF Handled
  <2>5. QED
    BY <1>2, <2>2, <2>3, <2>4
<1>6. QED
  BY <1>4, <1>5, HandledOrNot

(* The ACKs generated are those the handled packets ask for, each once and *)
(* in their order (slip2kflypacket.c:131-160): the flag of one packet is   *)
(* never used for another.                                                 *)
THEOREM AcksAsAsked == Spec => []AckedAsAsked
<1>1. AckInv => AckedAsAsked
  BY DEF AckInv
<1>2. QED
  BY <1>1, AckInit, AckStep, PTL DEF Spec

-----------------------------------------------------------------------------
(* Handlers, on a clean line. *)

(* The packets of which the last byte has been read. *)
Done == IF cur = NONE THEN Len(sent) ELSE Len(sent) - 1

(* at says which packet sent each handler run was for. *)
RunOf(at, r, s, n) ==
  /\ at \in [1 .. Len(r) -> 1 .. n]
  /\ \A i, j \in 1 .. Len(r) : i < j => at[i] < at[j]
  /\ \A i \in 1 .. Len(r) : r[i] = s[at[i]] /\ Acceptable(r[i])

CleanInv ==
  /\ ResyncInv
  /\ cur # NONE => sent # <<>> /\ cur = sent[Len(sent)]
  /\ noise = 0 => \E at : RunOf(at, run, sent, Done)

LEMMA CleanInit == Init => CleanInv
<1> SUFFICES ASSUME Init PROVE CleanInv
  OBVIOUS
<1>1. run = <<>> /\ sent = <<>> /\ cur = NONE
  BY DEF Init
<1>2. RunOf([i \in 1 .. 0 |-> 0], run, sent, Done)
  BY <1>1 DEF RunOf, Done
<1>3. QED
  BY <1>1, <1>2, ResyncInit DEF CleanInv

(* Sending more leaves the packets sent where they are. *)
LEMMA RunOfSent ==
  ASSUME TypeOK, NEW p \in Packets, NEW at, RunOf(at, run, sent, Len(sent))
  PROVE  RunOf(at, run, Append(sent, p), Len(sent))
<1>1. sent \in Seq(Packets) /\ Len(sent) \in Nat
  BY LenProperties DEF TypeOK, LineTypes
<1>2. \A i \in 1 .. Len(sent) : Append(sent, p)[i] = sent[i]
  BY <1>1, AppendProperties
<1>3. QED
  BY <1>1, <1>2 DEF RunOf

(* The packet just completed is the last one sent. *)
LEMMA RunOfLast ==
  ASSUME TypeOK, sent # <<>>, NEW p \in Packets, p = sent[Len(sent)], Acceptable(p),
         NEW at, RunOf(at, run, sent, Len(sent) - 1)
  PROVE  \E g : RunOf(g, Append(run, p), sent, Len(sent))
<1> DEFINE n == Len(run)
           m == Len(sent)
           r == Append(run, p)
           g == [i \in 1 .. (n + 1) |-> IF i = n + 1 THEN m ELSE at[i]]
<1>1. n \in Nat /\ m \in Nat /\ m >= 1
  BY LenProperties, EmptySeq DEF TypeOK, LineTypes, PacketLayerOK
<1>2. Len(r) = n + 1 /\ r[n + 1] = p /\ \A i \in 1 .. n : r[i] = run[i]
  BY AppendProperties DEF TypeOK, PacketLayerOK
<1>3. /\ at \in [1 .. n -> 1 .. (m - 1)]
      /\ \A i, j \in 1 .. n : i < j => at[i] < at[j]
      /\ \A i \in 1 .. n : run[i] = sent[at[i]] /\ Acceptable(run[i])
  BY DEF RunOf
<1> HIDE DEF n, m, r
<1>4. g \in [1 .. (n + 1) -> 1 .. m]
  BY <1>1, <1>3
<1>5. \A i, j \in 1 .. (n + 1) : i < j => g[i] < g[j]
  BY <1>1, <1>3
<1>6. \A i \in 1 .. (n + 1) : r[i] = sent[g[i]] /\ Acceptable(r[i])
  <2> SUFFICES ASSUME NEW i \in 1 .. (n + 1) PROVE r[i] = sent[g[i]] /\ Acceptable(r[i])
    OBVIOUS
  <2>1. CASE i = n + 1
    BY <1>1, <1>2, <2>1 DEF m
  <2>2. CASE i # n + 1
    <3>1. i \in 1 .. n /\ g[i] = at[i] /\ r[i] = run[i]
      BY <1>1, <1>2, <2>2
    <3>2. QED
      BY <1>3, <3>1
  <2>3. QED
    BY <2>1, <2>2
<1> HIDE DEF g
<1>7. RunOf(g, r, sent, m)
  BY <1>2, <1>4, <1>5, <1>6 DEF RunOf
<1>8. QED
  BY <1>7 DEF r, m

(* A handler is run for a well-formed packet only. *)
LEMMA RunIsWellFormed ==
  ASSUME NEW p \in Packets, Len(p.bytes) <= BufferSize, ParseKFlyPacket(p.bytes)
  PROVE  UNCHANGED run \/ (run' = Append(run, p) /\ Acceptable(p))
<1>1. CASE CrcRunsAway(p.bytes) \/ CrcError(p.bytes)
  BY <1>1 DEF CrcRunsAway, CrcError
<1>2. CASE Accept(p.bytes)
  <2>1. \A q \in Packets : p.bytes = q.bytes => p = q
    BY PacketAssumption
  <2>2. \/ UNCHANGED run
        \/ /\ run' = Append(run, p) /\ p.cmd # 0
           /\ Len(p.bytes) >= 4 /\ Len(p.bytes) - 4 = p.len
    BY <1>2, <2>1 DEF Accept
  <2>3. QED
    BY <2>2, PacketFacts DEF Acceptable, WellFormed
<1>3. QED
  BY <1>1, <1>2 DEF ParseKFlyPacket

(* In step, a handler is run only when the last byte of a packet was read, *)
(* and for that packet.                                                    *)
LEMMA RunInStep ==
  ASSUME TypeOK, InStep, Read
  PROVE  /\ line' # <<>> => UNCHANGED run
         /\ UNCHANGED run \/ (run' = Append(run, cur) /\ Acceptable(cur))
<1>1. line \in Seq(Byte) /\ line # <<>> /\ line' = Tail(line) /\ ParseSLIP(Head(line))
      /\ FrameLayerOK
  BY DEF Read, TypeOK, LineTypes
<1>2. cur # NONE /\ cur \in Packets
  BY <1>1 DEF InStep, TypeOK, LineTypes
<1> DEFINE d == cur.bytes
<1>3. d \in Seq(Byte) /\ d # <<>> /\ Len(d) \in Nat /\ BufferSize \in Nat
  BY <1>2, PacketFacts, PacketAssumption, EmptySeq
<1>4. /\ line' = <<>> /\ Len(d) <= BufferSize => ParseKFlyPacket(d)
      /\ line' # <<>> \/ Len(d) > BufferSize => Skip
  <2>1. CASE line = Frame(d) /\ Good(state, buffer)
    BY <1>1, <1>3, <2>1, FrameStarts
  <2>2. CASE InFrame(d, state, buffer, line)
    BY <1>1, <1>3, <2>2, FrameGoesOn
  <2>3. QED
    BY <1>2, <2>1, <2>2 DEF InStep
<1>5. CASE Skip
  BY <1>5 DEF Skip
<1>6. CASE ~ Skip
  <2>1. line' = <<>> /\ Len(d) <= BufferSize /\ ParseKFlyPacket(d)
    BY <1>3, <1>4, <1>6
  <2>2. QED
    BY <1>2, <2>1, RunIsWellFormed
<1>7. QED
  BY <1>5, <1>6

LEMMA CleanStep == CleanInv /\ [Next]_vars => CleanInv'
<1> SUFFICES ASSUME CleanInv, [Next]_vars PROVE CleanInv'
  OBVIOUS
<1> USE DEF CleanInv
<1>1. ResyncInv'
  BY ResyncStep
<1>2. TypeOK /\ LineOK /\ Caught /\ sent \in Seq(Packets) /\ Len(sent) \in Nat
  BY LenProperties DEF ResyncInv, TypeOK, LineTypes
<1>3. CASE Read
  <2>1. sent' = sent /\ noise' = noise /\ cur' \in {cur, NONE} /\ ~ fault
    BY <1>3 DEF Read
  <2>2. ASSUME noise = 0 PROVE \E at : RunOf(at, run', sent', Done')
    <3>1. InStep
      BY <1>2, <2>1, <2>2 DEF Caught
    <3>2. cur # NONE /\ cur \in Packets
      BY <1>2, <1>3, <3>1 DEF Read, InStep, TypeOK, LineTypes
    <3>3. PICK at : RunOf(at, run, sent, Len(sent) - 1)
      BY <2>2, <3>2 DEF Done
    <3>4. CASE line' # <<>>
      <4>1. cur' = cur /\ run' = run
        BY <1>2, <1>3, <3>1, <3>4, RunInStep DEF Read
      <4>2. QED
        BY <2>1, <2>2, <4>1 DEF Done
    <3>5. CASE line' = <<>>
      <4>1. Done' = Len(sent)
        BY <1>3, <2>1, <3>2, <3>5 DEF Read, Done
      <4>2. CASE run' = run
        <5>1. RunOf(at, run, sent, Len(sent))
          BY <1>2, <3>3 DEF RunOf
        <5>2. QED
          BY <2>1, <4>1, <4>2, <5>1
      <4>3. CASE run' = Append(run, cur) /\ Acceptable(cur)
        <5>1. \E g : RunOf(g, Append(run, cur), sent, Len(sent))
          BY <1>2, <3>2, <3>3, <4>3, RunOfLast
        <5>2. QED
          BY <2>1, <4>1, <4>3, <5>1
      <4>4. QED
        BY <1>2, <1>3, <3>1, <4>2, <4>3, RunInStep
    <3>6. QED
      BY <3>4, <3>5
  <2>3. QED
    BY <1>1, <2>1, <2>2
<1>4. ASSUME NEW p \in Packets, Send(p) PROVE CleanInv'
  <2>1. /\ line = <<>> /\ cur' = p /\ sent' = Append(sent, p) /\ noise' = noise /\ run' = run
    BY <1>4 DEF Send, rxVars
  <2>2. cur = NONE /\ p # NONE
    BY <1>2, <2>1, PacketFacts DEF LineOK
  <2>3. sent' # <<>> /\ Len(sent') = Len(sent) + 1 /\ cur' = sent'[Len(sent')]
    BY <1>2, <2>1, AppendProperties
  <2>4. Done = Len(sent) /\ Done' = Len(sent)
    BY <1>2, <2>1, <2>2, <2>3 DEF Done
  <2>5. ASSUME noise = 0 PROVE \E at : RunOf(at, run', sent', Done')
    <3>1. PICK at : RunOf(at, run, sent, Len(sent))
      BY <2>4, <2>5
    <3>2. RunOf(at, run, Append(sent, p), Len(sent))
      BY <1>2, <3>1, RunOfSent
    <3>3. QED
      BY <2>1, <2>4, <3>2
  <2>6. QED
    BY <1>1, <2>1, <2>3, <2>5
<1>5. ASSUME Damage, cur' \in {cur, NONE} PROVE CleanInv'
  <2>1. noise' # 0 /\ sent' = sent
    BY <1>2, <1>5 DEF Damage, TypeOK, LineTypes
  <2>2. QED
    BY <1>1, <1>5, <2>1
<1>6. CASE UNCHANGED vars
  BY <1>1, <1>6 DEF vars, rxVars, lineVars, Done
<1>7. QED
  BY <1>3, <1>4, <1>5, <1>6 DEF Next, Insert, Drop, HostLeaves

(* As long as no byte was damaged, handlers are run in the order of        *)
(* sending, for well-formed packets that fit, none twice: for any packets. *)
(* (With damage this rests on what the noise can forge, which depends on   *)
(* the packets; the run checks it for its instance.)                       *)
THEOREM CleanLineRunsWhatWasSent == Spec => [](noise = 0 => RunsWhatWasSent)
<1>1. CleanInv => (noise = 0 => RunsWhatWasSent)
  <2> SUFFICES ASSUME CleanInv, noise = 0 PROVE RunsWhatWasSent
    OBVIOUS
  <2>1. /\ run \in Seq(Packets) /\ sent \in Seq(Packets) /\ Len(sent) \in Nat
        /\ DOMAIN run = 1 .. Len(run) /\ DOMAIN sent = 1 .. Len(sent)
    BY LenProperties DEF CleanInv, ResyncInv, TypeOK, LineTypes, PacketLayerOK
  <2>2. PICK at : RunOf(at, run, sent, Done)
    BY DEF CleanInv
  <2>3. at \in [DOMAIN run -> DOMAIN sent]
    BY <2>1, <2>2 DEF RunOf, Done
  <2>4. QED
    BY <2>1, <2>2, <2>3 DEF RunOf, RunsWhatWasSent
<1>2. QED
  BY <1>1, CleanInit, CleanStep, PTL DEF Spec

=============================================================================
