--------------------------- MODULE SerialTx_proofs ---------------------------
(***************************************************************************)
(* Theorems about SerialTx, for any number of producers, any buffer size   *)
(* and any set of messages.  The code keeps a writer behind the unread     *)
(* bytes for most payloads, not for all.  So the theorems about the path   *)
(* assume that no writer overruns (NoOverrun), and others say when none    *)
(* does: if no message passes the best-case test of slip.c:174 that,       *)
(* stuffed, does not fit (BestCaseIsTrue), or if no payload has more than  *)
(* one byte to escape (OneReservedByte).                                   *)
(***************************************************************************)
EXTENDS SerialTx, SequenceTheorems, WellFoundedInduction, TLAPS

-----------------------------------------------------------------------------
(* What the mask arithmetic of the circular buffer computes, for a region  *)
(* of any size.                                                            *)

(* All that the proofs use of the assumption on the size. *)
LEMMA SizePositive == Size \in Nat \ {0}
  BY SizeAssumption

(* Masking leaves an index below size alone. *)
LEMMA MaskLow == \A x \in 0 .. (Size - 1) : Mask(x) = x
  BY SizePositive, SMT DEF Mask

(* Masking wraps an index that has passed the top once. *)
LEMMA MaskHigh == \A x \in Size .. (2 * Size - 1) : Mask(x) = x - Size
  BY SizePositive, SMT DEF Mask

(* A masked value is an index into the region. *)
LEMMA MaskInIndex == \A x \in Int : Mask(x) \in Index
  BY SizePositive, SMT DEF Mask, Index

(* Unread, without the remainder. *)
LEMMA UnreadValue ==
  ASSUME NEW h \in Index, NEW t \in Index
  PROVE  /\ Unread(h, t) = IF h < t THEN h + Size - t ELSE h - t
         /\ Unread(h, t) \in 0 .. (Size - 1)
<1>1. CASE h < t
  <2>1. h + Size - t \in 0 .. (Size - 1)
    BY <1>1, SizePositive DEF Index
  <2>2. QED
    BY <1>1, <2>1, MaskLow DEF Unread
<1>2. CASE ~(h < t)
  <2>1. h + Size - t \in Size .. (2 * Size - 1)
    BY <1>2, SizePositive DEF Index
  <2>2. Unread(h, t) = h - t
    BY <2>1, MaskHigh, SizePositive DEF Unread, Index
  <2>3. QED
    BY <1>2, <2>2, SizePositive DEF Index
<1>3. QED
  BY <1>1, <1>2

(* Free and unread bytes add up to all cells but the one kept empty. *)
LEMMA SpaceValue ==
  ASSUME NEW h \in Index, NEW t \in Index
  PROVE  SpaceLeft(h, t) = Size - 1 - Unread(h, t)
<1>1. CASE h < t
  <2>1. t + Size - h - 1 \in Size .. (2 * Size - 1)
    BY <1>1, SizePositive DEF Index
  <2>2. SpaceLeft(h, t) = t - h - 1
    BY <2>1, MaskHigh, SizePositive DEF SpaceLeft, Index
  <2>3. QED
    BY <1>1, <2>2, UnreadValue, SizePositive DEF Index
<1>2. CASE ~(h < t)
  <2>1. t + Size - h - 1 \in 0 .. (Size - 1)
    BY <1>2, SizePositive DEF Index
  <2>2. SpaceLeft(h, t) = t + Size - h - 1
    BY <2>1, MaskLow DEF SpaceLeft
  <2>3. QED
    BY <1>2, <2>2, UnreadValue, SizePositive DEF Index
<1>3. QED
  BY <1>1, <1>2

(* The index c cells further on. *)
LEMMA MaskAdd ==
  ASSUME NEW x \in Index, NEW c \in 0 .. (Size - 1)
  PROVE  /\ Mask(x + c) = IF x + c < Size THEN x + c ELSE x + c - Size
         /\ Mask(x + c) \in Index
<1>1. CASE x + c < Size
  <2>1. x + c \in 0 .. (Size - 1)
    BY <1>1, SizePositive DEF Index
  <2>2. QED
    BY <1>1, <2>1, MaskLow DEF Index
<1>2. CASE ~(x + c < Size)
  <2>1. x + c \in Size .. (2 * Size - 1)
    BY <1>2, SizePositive DEF Index
  <2>2. Mask(x + c) = x + c - Size
    BY <2>1, MaskHigh, SizePositive DEF Index
  <2>3. QED
    BY <1>2, <2>1, <2>2, SizePositive DEF Index
<1>3. QED
  BY <1>1, <1>2

(* Committing c bytes that fit adds c unread bytes: head never laps tail. *)
LEMMA AdvanceHead ==
  ASSUME NEW h \in Index, NEW t \in Index, NEW c \in Nat, c <= SpaceLeft(h, t)
  PROVE  /\ Mask(h + c) \in Index
         /\ Unread(Mask(h + c), t) = Unread(h, t) + c
<1>1. c \in 0 .. (Size - 1)
  BY SpaceValue, UnreadValue, SizePositive
<1>2. Mask(h + c) \in Index
  BY <1>1, MaskAdd
<1>3. Unread(h, t) + c <= Size - 1
  BY SpaceValue, UnreadValue, SizePositive
<1>4. Unread(Mask(h + c), t) =
        IF Mask(h + c) < t THEN Mask(h + c) + Size - t ELSE Mask(h + c) - t
  BY <1>2, UnreadValue
<1>5. Mask(h + c) = IF h + c < Size THEN h + c ELSE h + c - Size
  BY <1>1, MaskAdd
<1>6. Unread(h, t) = IF h < t THEN h + Size - t ELSE h - t
  BY UnreadValue
<1>7. QED
  BY <1>2, <1>3, <1>4, <1>5, <1>6, SizePositive DEF Index

(* Taking n unread bytes leaves the others unread: tail never passes head. *)
LEMMA AdvanceTail ==
  ASSUME NEW h \in Index, NEW t \in Index, NEW n \in Nat, n <= Unread(h, t)
  PROVE  /\ Mask(t + n) \in Index
         /\ Unread(h, Mask(t + n)) = Unread(h, t) - n
<1>1. n \in 0 .. (Size - 1)
  BY UnreadValue, SizePositive
<1>2. Mask(t + n) \in Index
  BY <1>1, MaskAdd
<1>3. Unread(h, Mask(t + n)) =
        IF h < Mask(t + n) THEN h + Size - Mask(t + n) ELSE h - Mask(t + n)
  BY <1>2, UnreadValue
<1>4. Mask(t + n) = IF t + n < Size THEN t + n ELSE t + n - Size
  BY <1>1, MaskAdd
<1>5. Unread(h, t) = IF h < t THEN h + Size - t ELSE h - t
  BY UnreadValue
<1>6. QED
  BY <1>2, <1>3, <1>4, <1>5, SizePositive DEF Index

(* A cell no further than SpaceLeft behind head is free, the one that is   *)
(* always empty included: writing there touches no unread byte.            *)
LEMMA FreeCell ==
  ASSUME NEW h \in Index, NEW t \in Index, NEW c \in Nat, c <= SpaceLeft(h, t)
  PROVE  ~ IsUnread(Mask(h + c), h, t)
<1>1. c \in 0 .. (Size - 1)
  BY SpaceValue, UnreadValue, SizePositive
<1>2. Mask(h + c) \in Index
  BY <1>1, MaskAdd
<1>3. Unread(Mask(h + c), t) = Unread(h, t) + c
  BY AdvanceHead
<1>4. QED
  BY <1>2, <1>3, UnreadValue, SizePositive DEF IsUnread, Unread

(* What CircularBuffer_GetReadPointer reports is contiguous and unread. *)
LEMMA ReadSizeIsUnread ==
  ASSUME NEW h \in Index, NEW t \in Index
  PROVE  /\ ReadSize(h, t) \in Nat
         /\ t + ReadSize(h, t) <= Size
         /\ ReadSize(h, t) <= Unread(h, t)
  BY UnreadValue, SizePositive DEF ReadSize, Index

-----------------------------------------------------------------------------
(* FlattenSeq, one sequence more at a time. *)

(* A set of numbers has a smallest one. *)
LEMMA Smallest ==
  ASSUME NEW T \in SUBSET Nat, T # {}
  PROVE  \E x \in T : \A y \in T : x <= y
<1>1. PICK x \in T : \A y \in T : ~ (<<y, x>> \in OpToRel(<, Nat))
  BY NatLessThanWellFounded, WFMin
<1>2. \A y \in T : ~ (y < x)
  BY <1>1 DEF OpToRel
<1>3. QED
  BY <1>2

(* h concatenates each prefix of s: the recursion of FlattenSeq. *)
Flattens(h, s) ==
  h = [i \in 1 .. Len(s) |-> IF i = 1 THEN s[i] ELSE h[i - 1] \o s[i]]

(* One sequence more. *)
LEMMA FlattensMore ==
  ASSUME NEW S, NEW s \in Seq(S), NEW e \in S, NEW h, Flattens(h, s)
  PROVE  \E g : Flattens(g, Append(s, e))
<1> DEFINE n == Len(s)
           t == Append(s, e)
           last == IF n = 0 THEN e ELSE h[n] \o e
           g == [i \in 1 .. (n + 1) |-> IF i = n + 1 THEN last ELSE h[i]]
<1>1. n \in Nat /\ Len(t) = n + 1 /\ t[n + 1] = e /\ \A i \in 1 .. n : t[i] = s[i]
  BY AppendProperties, LenProperties
<1>2. \A i \in 1 .. n : h[i] = IF i = 1 THEN s[i] ELSE h[i - 1] \o s[i]
  BY DEF Flattens
<1> HIDE DEF n, t
<1>3. ASSUME NEW i \in 1 .. (n + 1)
      PROVE  g[i] = IF i = 1 THEN t[i] ELSE g[i - 1] \o t[i]
  <2>1. CASE i = n + 1 /\ n = 0
    BY <1>1, <2>1
  <2>2. CASE i = n + 1 /\ n # 0
    <3>1. i - 1 \in 1 .. n /\ i # 1 /\ i - 1 = n
      BY <1>1, <2>2
    <3>2. g[i - 1] = h[n] /\ g[i] = h[n] \o e
      BY <1>1, <2>2, <3>1
    <3>3. QED
      BY <1>1, <2>2, <3>1, <3>2
  <2>3. CASE i # n + 1
    <3>1. i \in 1 .. n /\ g[i] = h[i]
      BY <1>1, <2>3
    <3>2. i # 1 => i - 1 \in 1 .. n /\ g[i - 1] = h[i - 1]
      BY <1>1, <2>3
    <3>3. QED
      BY <1>1, <1>2, <3>1, <3>2
  <2>4. QED
    BY <2>1, <2>2, <2>3
<1>4. g = [i \in 1 .. Len(t) |-> IF i = 1 THEN t[i] ELSE g[i - 1] \o t[i]]
  BY <1>1, <1>3
<1>5. Flattens(g, t)
  BY <1>4 DEF Flattens
<1>6. QED
  BY <1>5 DEF t

(* The recursion has a solution, for sequences of every length. *)
LEMMA FlattensExists ==
  ASSUME NEW S, NEW s \in Seq(S)
  PROVE  \E h : Flattens(h, s)
<1> DEFINE Solved(n) == \A t \in Seq(S) : Len(t) = n => \E h : Flattens(h, t)
           T == {n \in Nat : ~ Solved(n)}
<1>1. SUFFICES ASSUME T # {} PROVE FALSE
  <2>1. Len(s) \in Nat
    BY LenProperties
  <2>2. Solved(Len(s)) => \E h : Flattens(h, s)
    OBVIOUS
  <2>3. QED
    BY <2>1, <2>2
<1>2. PICK n \in T : \A m \in T : n <= m
  BY <1>1, Smallest
<1>3. PICK t \in Seq(S) : Len(t) = n /\ ~ \E h : Flattens(h, t)
  BY <1>2
<1>4. t # <<>>
  <2>1. Flattens([i \in 1 .. 0 |-> 0], <<>>)
    BY DEF Flattens
  <2>2. QED
    BY <1>3, <2>1
<1>5. PICK r \in Seq(S), e \in S : t = Append(r, e)
  BY <1>4, SequenceEmptyOrAppend
<1>6. Len(r) \in Nat /\ Len(r) < n
  BY <1>3, <1>5, AppendProperties, LenProperties
<1>7. Len(r) \notin T
  BY <1>2, <1>6
<1>8. PICK h : Flattens(h, r)
  BY <1>6, <1>7
<1>9. QED
  BY <1>3, <1>5, <1>8, FlattensMore

(* h concatenates the prefixes of s of at most n members. *)
FlattensTo(h, s, n) ==
  \A i \in 1 .. n : h[i] = IF i = 1 THEN s[i] ELSE h[i - 1] \o s[i]

(* Two solutions agree, since they cannot differ at a smallest place. *)
LEMMA FlattensAgree ==
  ASSUME NEW s, NEW n \in Nat, NEW g, FlattensTo(g, s, n), NEW h, FlattensTo(h, s, n)
  PROVE  \A i \in 1 .. n : g[i] = h[i]
<1> DEFINE T == {i \in 1 .. n : g[i] # h[i]}
<1>1. SUFFICES ASSUME T # {} PROVE FALSE
  OBVIOUS
<1>2. T \in SUBSET Nat
  OBVIOUS
<1>3. PICK x \in T : \A y \in T : x <= y
  BY <1>1, <1>2, Smallest
<1>4. x # 1
  BY <1>3 DEF FlattensTo
<1>5. x - 1 \in 1 .. n /\ x - 1 \notin T
  BY <1>3, <1>4
<1>6. QED
  BY <1>3, <1>4, <1>5 DEF FlattensTo

(* Flattening nothing gives nothing; one more sequence goes to the end. *)
LEMMA FlattenEmpty == FlattenSeq(<<>>) = <<>>
  BY DEF FlattenSeq

LEMMA FlattenAppend ==
  ASSUME NEW S, NEW s \in Seq(Seq(S)), NEW e \in Seq(S), FlattenSeq(s) \in Seq(S)
  PROVE  /\ FlattenSeq(Append(s, e)) = FlattenSeq(s) \o e
         /\ FlattenSeq(Append(s, e)) \in Seq(S)
<1> DEFINE n == Len(s)
           t == Append(s, e)
           f == CHOOSE h : Flattens(h, s)
           g == CHOOSE h : Flattens(h, t)
<1>1. n \in Nat /\ Len(t) = n + 1 /\ t[n + 1] = e /\ \A i \in 1 .. n : t[i] = s[i]
  BY AppendProperties, LenProperties
<1>2. t \in Seq(Seq(S))
  BY AppendProperties
<1>3. Flattens(f, s)
  BY FlattensExists
<1>4. Flattens(g, t)
  BY <1>2, FlattensExists
<1>5. FlattenSeq(s) = IF n = 0 THEN s ELSE f[n]
  BY DEF FlattenSeq, Flattens
<1>6. FlattenSeq(t) = g[n + 1]
  <2> HIDE DEF t, n
  <2>1. Len(t) = n + 1 /\ Len(t) # 0
    BY <1>1
  <2>2. QED
    BY <2>1 DEF FlattenSeq, Flattens
<1> HIDE DEF f, g, t
<1> HIDE DEF n
<1>7. FlattensTo(f, s, n)
  BY <1>3 DEF Flattens, FlattensTo, n
<1>8. \A i \in 1 .. (n + 1) : g[i] = IF i = 1 THEN t[i] ELSE g[i - 1] \o t[i]
  BY <1>1, <1>4 DEF Flattens
<1>9. FlattensTo(g, s, n)
  BY <1>1, <1>8 DEF FlattensTo
<1>10. \A i \in 1 .. n : g[i] = f[i]
  BY <1>1, <1>7, <1>9, FlattensAgree
<1>11. FlattenSeq(t) = FlattenSeq(s) \o e
  <2>1. CASE n = 0
    <3>1. s = <<>>
      BY <2>1, EmptySeq DEF n
    <3>2. g[1] = t[1]
      BY <1>1, <1>8
    <3>3. QED
      BY <1>1, <1>5, <1>6, <2>1, <3>1, <3>2, ConcatEmptySeq
  <2>2. CASE n # 0
    <3>1. n \in 1 .. n /\ n + 1 \in 1 .. (n + 1) /\ n + 1 # 1 /\ (n + 1) - 1 = n
      BY <1>1, <2>2
    <3>2. g[n + 1] = g[n] \o t[n + 1]
      BY <1>8, <3>1
    <3>3. QED
      BY <1>1, <1>5, <1>6, <1>10, <2>2, <3>1, <3>2
  <2>3. QED
    BY <2>1, <2>2
<1>12. QED
  BY <1>11, ConcatProperties DEF t

-----------------------------------------------------------------------------
(* What stuffing makes of a payload, one byte more at a time.              *)

(* What Encode writes for a byte: one byte or two. *)
LEMMA EncodeBytes ==
  ASSUME NEW b \in Byte
  PROVE  /\ Encode(b) \in Seq(Byte) /\ Len(Encode(b)) \in {1, 2}
         /\ b \notin Reserved => Encode(b) = <<b>>
         /\ b \in Reserved => Encode(b) = <<SLIP_ESC, EscapeOf(b)>>
<1>1. CASE b \in Reserved
  <2>1. Encode(b) = <<SLIP_ESC, EscapeOf(b)>> /\ EscapeOf(b) \in Byte /\ SLIP_ESC \in Byte
    BY <1>1, TxAssumption DEF Encode, EscapeOf, Reserved
  <2>2. QED
    BY <1>1, <2>1
<1>2. CASE b \notin Reserved
  <2>1. Encode(b) = <<b>>
    BY <1>2 DEF Encode
  <2>2. QED
    BY <1>2, <2>1
<1>3. QED
  BY <1>1, <1>2

LEMMA StuffedEmpty ==
  ASSUME NEW d
  PROVE  Stuffed(d, 0) = <<>>
<1>1. [i \in 1 .. 0 |-> Encode(d[i])] = <<>>
  OBVIOUS
<1>2. QED
  BY <1>1, FlattenEmpty DEF Stuffed

(* A byte more of payload is encoded at the end. *)
LEMMA StuffedMore ==
  ASSUME NEW d \in Seq(Byte), NEW n \in Nat, n < Len(d), Stuffed(d, n) \in Seq(Byte)
  PROVE  /\ Stuffed(d, n + 1) = Stuffed(d, n) \o Encode(d[n + 1])
         /\ Stuffed(d, n + 1) \in Seq(Byte)
<1> DEFINE s == [i \in 1 .. n |-> Encode(d[i])]
           t == [i \in 1 .. (n + 1) |-> Encode(d[i])]
           e == Encode(d[n + 1])
<1>1. Len(d) \in Nat /\ \A i \in 1 .. (n + 1) : d[i] \in Byte
  BY LenProperties, ElementOfSeq
<1>2. \A i \in 1 .. (n + 1) : Encode(d[i]) \in Seq(Byte)
  BY <1>1, EncodeBytes
<1>3. /\ s \in Seq(Seq(Byte)) /\ Len(s) = n
      /\ t \in Seq(Seq(Byte)) /\ Len(t) = n + 1
      /\ e \in Seq(Byte)
  BY <1>2
<1>4. t = Append(s, e)
  <2>1. \A i \in 1 .. n : t[i] = s[i]
    OBVIOUS
  <2>2. t[n + 1] = e
    OBVIOUS
  <2> HIDE DEF s, t, e
  <2>3. /\ Append(s, e) \in Seq(Seq(Byte)) /\ Len(Append(s, e)) = n + 1
        /\ \A i \in 1 .. n : Append(s, e)[i] = s[i]
        /\ Append(s, e)[n + 1] = e
    BY <1>3, AppendProperties
  <2>4. \A i \in 1 .. (n + 1) : t[i] = Append(s, e)[i]
    BY <2>1, <2>2, <2>3
  <2>5. QED
    BY <1>3, <2>3, <2>4, SeqEqual
<1>5. FlattenSeq(s) = Stuffed(d, n) /\ FlattenSeq(t) = Stuffed(d, n + 1)
  BY DEF Stuffed
<1> HIDE DEF s, t, e
<1>6. FlattenSeq(t) = FlattenSeq(s) \o e /\ FlattenSeq(t) \in Seq(Byte)
  BY <1>3, <1>4, <1>5, FlattenAppend
<1>7. QED
  BY <1>5, <1>6 DEF e

LEMMA StuffedBytes ==
  ASSUME NEW d \in Seq(Byte), NEW k \in Nat, k <= Len(d)
  PROVE  Stuffed(d, k) \in Seq(Byte) /\ Len(Stuffed(d, k)) \in Nat
<1> DEFINE T == {n \in Nat : n <= Len(d) /\ Stuffed(d, n) \notin Seq(Byte)}
<1>1. ASSUME T # {} PROVE FALSE
  <2>1. PICK n \in T : \A j \in T : n <= j
    BY <1>1, Smallest
  <2>2. n # 0
    BY StuffedEmpty, EmptySeq
  <2>3. n - 1 \in Nat /\ n - 1 < Len(d) /\ n - 1 \notin T /\ (n - 1) + 1 = n
    BY <2>1, <2>2, LenProperties
  <2>4. Stuffed(d, n - 1) \in Seq(Byte)
    BY <2>3, LenProperties
  <2>5. QED
    BY <2>1, <2>3, <2>4, StuffedMore
<1>2. Stuffed(d, k) \in Seq(Byte)
  BY <1>1
<1>3. QED
  BY <1>2, LenProperties

(* What the next turn of the encode loop adds. *)
LEMMA StuffedNext ==
  ASSUME NEW d \in Seq(Byte), NEW n \in Nat, n < Len(d)
  PROVE  /\ Stuffed(d, n + 1) = Stuffed(d, n) \o Encode(d[n + 1])
         /\ Len(Stuffed(d, n + 1)) = Len(Stuffed(d, n)) + Len(Encode(d[n + 1]))
<1>1. Len(d) \in Nat /\ d[n + 1] \in Byte
  BY LenProperties, ElementOfSeq
<1>2. Stuffed(d, n) \in Seq(Byte) /\ Encode(d[n + 1]) \in Seq(Byte)
  BY <1>1, StuffedBytes, EncodeBytes
<1>3. Stuffed(d, n + 1) = Stuffed(d, n) \o Encode(d[n + 1])
  BY <1>2, StuffedMore
<1>4. QED
  BY <1>2, <1>3, ConcatProperties

(* k - n payload bytes take between k - n and twice as many on the line.   *)
LEMMA StuffedGrows ==
  ASSUME NEW d \in Seq(Byte), NEW n \in Nat, NEW k \in Nat, n <= k, k <= Len(d)
  PROVE  /\ Len(Stuffed(d, n)) \in Nat /\ Len(Stuffed(d, k)) \in Nat
         /\ Len(Stuffed(d, n)) + (k - n) <= Len(Stuffed(d, k))
         /\ Len(Stuffed(d, k)) <= Len(Stuffed(d, n)) + 2 * (k - n)
<1> DEFINE l(j) == Len(Stuffed(d, j))
           Grown(j) == l(n) + (j - n) <= l(j) /\ l(j) <= l(n) + 2 * (j - n)
           T == {j \in Nat : n <= j /\ j <= Len(d) /\ ~ Grown(j)}
<1>0. Len(d) \in Nat
  BY LenProperties
<1>1. \A j \in Nat : j <= Len(d) => l(j) \in Nat
  BY StuffedBytes
<1>2. \A j \in Nat : j < Len(d) => l(j + 1) \in {l(j) + 1, l(j) + 2}
  <2>1. SUFFICES ASSUME NEW j \in Nat, j < Len(d) PROVE l(j + 1) \in {l(j) + 1, l(j) + 2}
    OBVIOUS
  <2>2. d[j + 1] \in Byte
    BY <1>0, <2>1, ElementOfSeq
  <2>3. l(j + 1) = l(j) + Len(Encode(d[j + 1]))
    BY <2>1, StuffedNext
  <2>4. QED
    BY <2>2, <2>3, EncodeBytes
<1> HIDE DEF l
<1>3. ASSUME T # {} PROVE FALSE
  <2>1. PICK j \in T : \A i \in T : j <= i
    BY <1>3, Smallest
  <2>2. j \in Nat /\ n <= j /\ j <= Len(d) /\ ~ Grown(j)
    OBVIOUS
  <2>3. j # n
    <3>1. l(n) \in Nat /\ l(n) + (n - n) = l(n) /\ l(n) + 2 * (n - n) = l(n)
      BY <1>0, <1>1
    <3>2. Grown(n)
      BY <3>1
    <3>3. QED
      BY <2>2, <3>2
  <2>4. j - 1 \in Nat /\ n <= j - 1 /\ j - 1 < Len(d) /\ (j - 1) + 1 = j
    BY <1>0, <2>2, <2>3
  <2>5. j - 1 \notin T
    BY <2>1, <2>4
  <2>6. Grown(j - 1)
    BY <1>0, <2>4, <2>5
  <2>7. l(j) \in {l(j - 1) + 1, l(j - 1) + 2} /\ l(j - 1) \in Nat /\ l(n) \in Nat
    BY <1>0, <1>1, <1>2, <2>4
  <2>8. l(n) + (j - n) <= l(j) /\ l(j) <= l(n) + 2 * (j - n)
    BY <2>2, <2>6, <2>7
  <2>9. QED
    BY <2>2, <2>8
<1>4. Grown(k)
  BY <1>3
<1>5. l(n) \in Nat /\ l(k) \in Nat
  BY <1>0, <1>1
<1>6. QED
  BY <1>4, <1>5 DEF l

(* A payload without reserved bytes keeps its length. *)
LEMMA StuffedPlain ==
  ASSUME NEW d \in Seq(Byte), \A i \in 1 .. Len(d) : d[i] \notin Reserved
  PROVE  Len(Stuffed(d, Len(d))) = Len(d)
<1> DEFINE l(j) == Len(Stuffed(d, j))
           T == {j \in Nat : j <= Len(d) /\ l(j) # j}
<1>0. Len(d) \in Nat
  BY LenProperties
<1>1. l(0) = 0
  BY StuffedEmpty, EmptySeq
<1>2. \A j \in Nat : j < Len(d) => l(j + 1) = l(j) + 1
  <2>1. SUFFICES ASSUME NEW j \in Nat, j < Len(d) PROVE l(j + 1) = l(j) + 1
    OBVIOUS
  <2>2. d[j + 1] \in Byte /\ d[j + 1] \notin Reserved
    BY <1>0, <2>1, ElementOfSeq
  <2>3. Encode(d[j + 1]) = <<d[j + 1]>>
    BY <2>2, EncodeBytes
  <2>4. QED
    BY <2>1, <2>3, StuffedNext
<1> HIDE DEF l
<1>3. ASSUME T # {} PROVE FALSE
  <2>1. PICK j \in T : \A i \in T : j <= i
    BY <1>3, Smallest
  <2>2. j \in Nat /\ j <= Len(d) /\ l(j) # j
    OBVIOUS
  <2>3. j - 1 \in Nat /\ j - 1 < Len(d) /\ (j - 1) + 1 = j
    BY <1>0, <1>1, <2>2
  <2>4. j - 1 \notin T
    BY <2>1, <2>3
  <2>5. l(j - 1) = j - 1
    BY <1>0, <2>3, <2>4
  <2>6. QED
    BY <1>2, <2>2, <2>3, <2>5
<1>4. QED
  BY <1>0, <1>3 DEF l

(* A frame: an END, the stuffed payload, an END. *)
LEMMA FrameBytes ==
  ASSUME NEW d \in Seq(Byte)
  PROVE  /\ Frame(d) = (<<SLIP_END>> \o Stuffed(d, Len(d))) \o <<SLIP_END>>
         /\ Frame(d) \in Seq(Byte)
         /\ Len(Frame(d)) = Len(Stuffed(d, Len(d))) + 2
         /\ Len(Frame(d)) \in Nat /\ Len(d) + 2 <= Len(Frame(d))
<1> DEFINE e == <<SLIP_END>>
           s == Stuffed(d, Len(d))
<1>1. e \in Seq(Byte) /\ Len(e) = 1
  BY TxAssumption DEF Reserved
<1>2. s \in Seq(Byte) /\ Len(s) \in Nat /\ Len(d) \in Nat
  BY LenProperties, StuffedBytes
<1>3. Len(d) <= Len(s)
  <2>1. Len(Stuffed(d, 0)) = 0
    BY StuffedEmpty, EmptySeq
  <2>2. 0 <= Len(d) /\ Len(d) <= Len(d)
    BY <1>2
  <2>3. Len(Stuffed(d, 0)) + (Len(d) - 0) <= Len(s)
    BY <1>2, <2>2, StuffedGrows
  <2>4. QED
    BY <1>2, <2>1, <2>3
<1>4. Frame(d) = (e \o s) \o e
  BY DEF Frame
<1> HIDE DEF e, s
<1>5. e \o s \in Seq(Byte) /\ Len(e \o s) = 1 + Len(s)
  BY <1>1, <1>2, ConcatProperties
<1>6. Frame(d) \in Seq(Byte) /\ Len(Frame(d)) = (1 + Len(s)) + 1
  BY <1>1, <1>4, <1>5, ConcatProperties
<1>7. QED
  BY <1>2, <1>3, <1>4, <1>6 DEF e, s

(* The codec the abstract queue is stated with is the same. *)
LEMMA SameFrame == \A d : Fifo!Frame(d) = Frame(d)
<1>1. \A b : Fifo!Encode(b) = Encode(b)
  BY DEF Fifo!Encode, Encode, Fifo!EscapeOf, EscapeOf, Fifo!Reserved, Reserved,
         Fifo!SLIP_END, SLIP_END, Fifo!SLIP_ESC, SLIP_ESC,
         Fifo!SLIP_ESC_END, SLIP_ESC_END, Fifo!SLIP_ESC_ESC, SLIP_ESC_ESC
<1>2. \A s : Fifo!FlattenSeq(s) = FlattenSeq(s)
  BY DEF Fifo!FlattenSeq, FlattenSeq
<1>3. \A d, n : Fifo!Stuffed(d, n) = Stuffed(d, n)
  BY <1>1, <1>2 DEF Fifo!Stuffed, Stuffed
<1>4. QED
  BY <1>3 DEF Fifo!Frame, Frame, Fifo!SLIP_END, SLIP_END

(* With a single reserved byte the payload grows by one at most. *)
LEMMA StuffedOnce ==
  ASSUME NEW d \in Seq(Byte),
         \A i, j \in 1 .. Len(d) : d[i] \in Reserved /\ d[j] \in Reserved => i = j
  PROVE  Len(Stuffed(d, Len(d))) <= Len(d) + 1
<1> DEFINE l(j) == Len(Stuffed(d, j))
           Seen(j) == \E i \in 1 .. j : d[i] \in Reserved
           Grown(j) == l(j) \in {j, j + 1} /\ (l(j) = j + 1 => Seen(j))
           T == {j \in Nat : j <= Len(d) /\ ~ Grown(j)}
<1>0. Len(d) \in Nat
  BY LenProperties
<1>1. l(0) = 0
  BY StuffedEmpty, EmptySeq
<1>2. ASSUME NEW j \in Nat, j < Len(d), Grown(j) PROVE Grown(j + 1)
  <2>1. d[j + 1] \in Byte /\ l(j + 1) = l(j) + Len(Encode(d[j + 1]))
    BY <1>0, <1>2, ElementOfSeq, StuffedNext
  <2> HIDE DEF l
  <2>2. CASE d[j + 1] \in Reserved
    <3>1. Len(Encode(d[j + 1])) = 2
      BY <2>1, <2>2, EncodeBytes
    <3>2. ~ Seen(j)
      <4>1. SUFFICES ASSUME NEW i \in 1 .. j, d[i] \in Reserved PROVE FALSE
        OBVIOUS
      <4>2. i \in 1 .. Len(d) /\ j + 1 \in 1 .. Len(d) /\ i # j + 1
        BY <1>0, <1>2, <4>1
      <4>3. QED
        BY <2>2, <4>1, <4>2
    <3>3. l(j) = j
      BY <1>2, <3>2
    <3>4. l(j + 1) = (j + 1) + 1
      BY <2>1, <3>1, <3>3
    <3>5. Seen(j + 1)
      <4>1. j + 1 \in 1 .. (j + 1)
        BY <1>2
      <4>2. QED
        BY <2>2, <4>1
    <3>6. QED
      BY <3>4, <3>5
  <2>3. CASE d[j + 1] \notin Reserved
    <3>1. Len(Encode(d[j + 1])) = 1
      BY <2>1, <2>3, EncodeBytes
    <3>2. l(j + 1) = l(j) + 1 /\ l(j) \in {j, j + 1}
      BY <1>2, <2>1, <3>1
    <3>3. Seen(j) => Seen(j + 1)
      BY <1>2
    <3>4. l(j + 1) \in {j + 1, (j + 1) + 1}
      BY <1>2, <3>2
    <3>5. l(j + 1) = (j + 1) + 1 => l(j) = j + 1
      BY <1>2, <3>2
    <3>6. QED
      BY <1>2, <3>3, <3>4, <3>5
  <2>4. QED
    BY <2>2, <2>3
<1>3. Grown(0)
  <2> HIDE DEF l
  <2>1. QED
    BY <1>1
<1>4. ASSUME T # {} PROVE FALSE
  <2>1. PICK j \in T : \A i \in T : j <= i
    BY <1>4, Smallest
  <2>2. j \in Nat /\ j <= Len(d) /\ ~ Grown(j)
    BY <2>1
  <2>3. j # 0
    BY <1>3, <2>2
  <2>4. j - 1 \in Nat /\ j - 1 < Len(d) /\ (j - 1) + 1 = j
    BY <1>0, <2>2, <2>3
  <2>5. j - 1 \notin T
    BY <2>1, <2>4
  <2>6. Grown(j - 1)
    BY <1>0, <2>4, <2>5
  <2> HIDE DEF Grown
  <2>7. Grown((j - 1) + 1)
    BY <1>2, <2>4, <2>6
  <2>8. QED
    BY <2>2, <2>4, <2>7
<1>5. Grown(Len(d))
  BY <1>0, <1>4
<1> HIDE DEF l
<1>6. l(Len(d)) <= Len(d) + 1
  BY <1>0, <1>5
<1>7. QED
  BY <1>6 DEF l

-----------------------------------------------------------------------------
(* What producers write. *)

(* No writer goes further behind head than the cell that is always empty,  *)
(* unless no byte waits, and what it commits fits.  The code keeps that by *)
(* the best-case test and by giving up, but not for every payload: space   *)
(* is not looked at again within a chunk, and SpaceLeft - count wraps      *)
(* below zero (slip.c:51, 76).                                             *)
NoOverrun ==
  \A p \in Producers :
    /\ pc[p] \in {"chunk", "byte", "stop"} => head = tail \/ count[p] <= Space + 1
    /\ pc[p] = "commit" => count[p] <= Space

(* A message that passes the best-case test of slip.c:174 fits as it will  *)
(* be encoded.                                                             *)
BestCaseIsTrue ==
  \A p \in Producers :
    pc[p] = "check" /\ Space >= Len(msg[p].data) + 2 => Space >= Len(Frame(msg[p].data))

(* No payload has more than one byte that needs escaping. *)
OneReservedByte ==
  \A m \in Messages : \A i, j \in 1 .. Len(m.data) :
    m.data[i] \in Reserved /\ m.data[j] \in Reserved => i = j

(* No payload needs escaping. *)
PlainMessages ==
  \A m \in Messages : \A i \in 1 .. Len(m.data) : m.data[i] \notin Reserved

-----------------------------------------------------------------------------
(* The part of the inductive invariant that needs no assumption. *)

(* The message of a producer inside GenerateMessage, and its progress. *)
MessageOK(p) ==
  /\ pc[p] \in {"idle", "claim", "check", "start", "signal"} => pos[p] = 0
  /\ pc[p] \in {"claim", "check", "start", "chunk", "byte", "stop", "commit"}
       => msg[p] \in Messages
  /\ pc[p] \in {"chunk", "byte"} => pos[p] < Len(msg[p].data)

MessageInProgress == \A p \in Producers : MessageOK(p)

(* The chunk the pump works on lies inside the region, at tail. *)
ChunkInBounds ==
  /\ pump \in {"claim", "loop", "send", "active"} =>
       readPtr = tail /\ readPtr + readSize <= Size /\ sent <= readSize
  /\ pump # "send" => sent = 0

TypeInv == TypeOK /\ MessageInProgress /\ ChunkInBounds

(* What the conjuncts of IsMessage say, for the SMT solver. *)
LEMMA MessageFacts ==
  ASSUME NEW m \in Messages
  PROVE  /\ m.data \in Seq(Byte) /\ Len(m.data) \in Nat /\ 0 < Len(m.data)
         /\ \A i \in 1 .. Len(m.data) : m.data[i] \in Byte
  BY TxAssumption DEF IsMessage

LEMMA TypeInvInit == Init => TypeInv
<1> SUFFICES ASSUME Init PROVE TypeInv
  OBVIOUS
<1> 0 \in Index
  BY SizePositive DEF Index
<1>1. BufferOK
  BY DEF Init, BufferOK
<1>2. WritersOK
  BY DEF Init, WritersOK
<1>3. PumpOK
  BY DEF Init, PumpOK
<1>4. MessageInProgress
  BY DEF Init, MessageInProgress, MessageOK
<1>5. ChunkInBounds
  BY DEF Init, ChunkInBounds
<1>6. QED
  BY <1>1, <1>2, <1>3, <1>4, <1>5 DEF TypeInv, TypeOK

(* Neither generating a message nor the USB host touches the pump. *)
LEMMA PumpUnchanged ==
  ASSUME PumpOK, ChunkInBounds, UNCHANGED <<tail, pumpVars, usbHeld>>,
         event' \in BOOLEAN, usbActive' \in BOOLEAN
  PROVE  PumpOK' /\ ChunkInBounds'
  BY DEF PumpOK, ChunkInBounds, pumpVars

(* The pump and the host do not touch the writers. *)
LEMMA WritersUnchanged ==
  ASSUME WritersOK, MessageInProgress, UNCHANGED genVars
  PROVE  WritersOK' /\ MessageInProgress'
  BY DEF WritersOK, MessageInProgress, MessageOK, genVars

(* A step of producer p leaves the progress of the others as it was. *)
LEMMA OthersUnchanged ==
  ASSUME MessageInProgress, NEW p \in Producers, MessageOK(p)',
         \A q \in Producers \ {p} :
           pc'[q] = pc[q] /\ pos'[q] = pos[q] /\ msg'[q] = msg[q]
  PROVE  MessageInProgress'
  BY DEF MessageInProgress, MessageOK

(* Writing an END keeps the buffer's type. *)
LEMMA WriteENDType ==
  ASSUME BufferOK, WritersOK, NEW p \in Producers, WriteEND(p),
         UNCHANGED <<head, tail, wire>>
  PROVE  BufferOK' /\ count' \in [Producers -> Int]
<1>1. SLIP_END \in Byte
  BY TxAssumption DEF Reserved
<1>2. count[p] \in Int
  BY DEF WritersOK
<1>3. count' \in [Producers -> Int]
  BY <1>2 DEF WriteEND, WritersOK
<1>4. BufferOK'
  BY <1>1 DEF WriteEND, BufferOK
<1>5. QED
  BY <1>3, <1>4

(* Encoding one payload byte keeps the buffer's type. *)
LEMMA WriteByteType ==
  ASSUME BufferOK, WritersOK, MessageInProgress, NEW p \in Producers, WriteByte(p)
  PROVE  BufferOK'
<1>1. /\ msg[p] \in Messages
      /\ pos[p] \in Nat
      /\ pos[p] < Len(msg[p].data)
  BY DEF WriteByte, MessageInProgress, MessageOK, WritersOK
<1>2. msg[p].data[pos[p] + 1] \in Byte
  BY <1>1, MessageFacts
<1>3. SLIP_ESC \in Byte /\ SLIP_ESC_END \in Byte /\ SLIP_ESC_ESC \in Byte
  BY TxAssumption DEF Reserved
<1>4. QED
  BY <1>2, <1>3 DEF WriteByte, EscapeOf, BufferOK

LEMMA TypeInvStep == TypeInv /\ [Next]_vars => TypeInv'
<1> SUFFICES ASSUME TypeInv, [Next]_vars PROVE TypeInv'
  OBVIOUS
<1> USE DEF TypeInv, TypeOK
<1>1. ASSUME NEW p \in Producers, NEW m \in Messages, Request(p, m) PROVE TypeInv'
  <2>1. BufferOK' /\ PumpOK' /\ ChunkInBounds'
    BY <1>1, PumpUnchanged DEF Request, BufferOK, bufVars, usbVars, PumpOK
  <2>2. WritersOK'
    BY <1>1 DEF Request, Goto, WritersOK
  <2>3. MessageOK(p)'
    BY <1>1 DEF Request, Goto, MessageInProgress, MessageOK, WritersOK
  <2>4. QED
    BY <1>1, <2>1, <2>2, <2>3, OthersUnchanged DEF Request, Goto, WritersOK
<1>2. ASSUME NEW p \in Producers, Claim(p) PROVE TypeInv'
  <2>1. BufferOK' /\ PumpOK' /\ ChunkInBounds'
    BY <1>2, PumpUnchanged DEF Claim, BufferOK, bufVars, usbVars, PumpOK
  <2>2. WritersOK'
    BY <1>2 DEF Claim, Goto, WritersOK, Writing
  <2>3. MessageOK(p)'
    BY <1>2 DEF Claim, Goto, MessageInProgress, MessageOK, WritersOK
  <2>4. QED
    BY <1>2, <2>1, <2>2, <2>3, OthersUnchanged DEF Claim, Goto, WritersOK
<1>3. ASSUME NEW p \in Producers, CheckBestCase(p) PROVE TypeInv'
  <2>1. BufferOK' /\ PumpOK' /\ ChunkInBounds'
    BY <1>3, PumpUnchanged DEF CheckBestCase, BufferOK, bufVars, usbVars, PumpOK
  <2>2. WritersOK'
    BY <1>3 DEF CheckBestCase, Goto, WritersOK, Writing
  <2>3. MessageOK(p)'
    BY <1>3 DEF CheckBestCase, Goto, MessageInProgress, MessageOK, WritersOK
  <2>4. QED
    BY <1>3, <2>1, <2>2, <2>3, OthersUnchanged DEF CheckBestCase, Goto, WritersOK
<1>4. ASSUME NEW p \in Producers, StartByte(p) PROVE TypeInv'
  <2>1. PumpOK' /\ ChunkInBounds'
    BY <1>4, PumpUnchanged DEF StartByte, usbVars, PumpOK
  <2>2. BufferOK' /\ count' \in [Producers -> Int]
    BY <1>4, WriteENDType DEF StartByte
  <2>3. WritersOK'
    BY <1>4, <2>2 DEF StartByte, Goto, WritersOK, Writing
  <2>4. MessageOK(p)'
    <3>1. msg[p] \in Messages /\ pos[p] = 0
      BY <1>4 DEF StartByte, MessageInProgress, MessageOK
    <3>2. pos[p] < Len(msg[p].data)
      BY <3>1, MessageFacts
    <3>3. QED
      BY <1>4, <3>1, <3>2 DEF StartByte, Goto, MessageOK, WritersOK
  <2>5. QED
    BY <1>4, <2>1, <2>2, <2>3, <2>4, OthersUnchanged DEF StartByte, Goto, WritersOK
<1>5. ASSUME NEW p \in Producers, BeginChunk(p) PROVE TypeInv'
  <2>1. BufferOK' /\ PumpOK' /\ ChunkInBounds'
    BY <1>5, PumpUnchanged DEF BeginChunk, BufferOK, bufVars, usbVars, PumpOK
  <2>2. Space \in Int
    BY SpaceValue, UnreadValue, SizePositive DEF Space, BufferOK
  <2>3. budget' \in [Producers -> Int]
    <3>1. msg[p] \in Messages /\ pos[p] \in Nat
      BY <1>5 DEF BeginChunk, MessageInProgress, MessageOK, WritersOK
    <3>2. msg[p].ends \subseteq Nat
      BY <3>1, MessageFacts, TxAssumption DEF IsMessage
    <3>3. CASE count[p] >= 0
      <4>1. PICK e \in msg[p].ends :
              budget' = [budget EXCEPT ![p] =
                IF U32(Space - count[p] + 1) \div 2 >= e - pos[p]
                THEN 2 * (e - pos[p]) ELSE Space]
        BY <1>5, <3>3 DEF BeginChunk
      <4>2. 2 * (e - pos[p]) \in Int
        BY <3>1, <3>2
      <4>3. QED
        BY <2>2, <4>1, <4>2 DEF WritersOK
    <3>4. CASE ~(count[p] >= 0)
      BY <1>5, <3>4 DEF BeginChunk, WritersOK
    <3>5. QED
      BY <3>3, <3>4
  <2>4. WritersOK'
    BY <1>5, <2>3 DEF BeginChunk, Goto, WritersOK, Writing
  <2>5. MessageOK(p)'
    BY <1>5 DEF BeginChunk, Goto, MessageInProgress, MessageOK, WritersOK
  <2>6. QED
    BY <1>5, <2>1, <2>4, <2>5, OthersUnchanged DEF BeginChunk, Goto, WritersOK
<1>6. ASSUME NEW p \in Producers, WriteByte(p) PROVE TypeInv'
  <2>1. PumpOK' /\ ChunkInBounds'
    BY <1>6, PumpUnchanged DEF WriteByte, usbVars, PumpOK
  <2>2. BufferOK'
    BY <1>6, WriteByteType
  <2>3. WritersOK'
    BY <1>6 DEF WriteByte, Goto, WritersOK, Writing
  <2>4. MessageOK(p)'
    <3>1. /\ msg[p] \in Messages /\ msg' = msg
          /\ pos[p] \in Nat /\ pos[p] < Len(msg[p].data) /\ pos'[p] = pos[p] + 1
          /\ pc'[p] \in {"byte", "chunk", "stop"}
          /\ pc'[p] = "byte" => pos[p] + 1 \notin msg[p].ends
          /\ pc'[p] = "chunk" => pos[p] + 1 < Len(msg[p].data)
      BY <1>6 DEF WriteByte, Goto, MessageInProgress, MessageOK, WritersOK
    <3>2. Len(msg[p].data) \in msg[p].ends /\ Len(msg[p].data) \in Nat
      BY <3>1, MessageFacts, TxAssumption DEF IsMessage
    <3>3. QED
      BY <3>1, <3>2 DEF MessageOK
  <2>5. QED
    BY <1>6, <2>1, <2>2, <2>3, <2>4, OthersUnchanged DEF WriteByte, Goto, WritersOK
<1>7. ASSUME NEW p \in Producers, ChunkDoesNotFit(p) PROVE TypeInv'
  <2>1. BufferOK' /\ PumpOK' /\ ChunkInBounds'
    BY <1>7, PumpUnchanged DEF ChunkDoesNotFit, BufferOK, bufVars, usbVars, PumpOK
  <2>2. WritersOK'
    BY <1>7 DEF ChunkDoesNotFit, Goto, WritersOK, Writing
  <2>3. MessageOK(p)'
    BY <1>7 DEF ChunkDoesNotFit, Goto, MessageInProgress, MessageOK, WritersOK
  <2>4. QED
    BY <1>7, <2>1, <2>2, <2>3, OthersUnchanged DEF ChunkDoesNotFit, Goto, WritersOK
<1>8. ASSUME NEW p \in Producers, StopByte(p) PROVE TypeInv'
  <2>1. PumpOK' /\ ChunkInBounds'
    BY <1>8, PumpUnchanged DEF StopByte, usbVars, PumpOK
  <2>2. BufferOK' /\ count' \in [Producers -> Int]
    BY <1>8, WriteENDType DEF StopByte
  <2>3. WritersOK'
    BY <1>8, <2>2 DEF StopByte, Goto, WritersOK, Writing
  <2>4. MessageOK(p)'
    BY <1>8 DEF StopByte, Goto, MessageInProgress, MessageOK, WritersOK
  <2>5. QED
    BY <1>8, <2>1, <2>2, <2>3, <2>4, OthersUnchanged DEF StopByte, Goto, WritersOK
<1>9. ASSUME NEW p \in Producers, Commit(p) PROVE TypeInv'
  <2>1. PumpOK' /\ ChunkInBounds'
    BY <1>9, PumpUnchanged DEF Commit, usbVars, PumpOK
  <2>2. BufferOK'
    <3>1. head \in Int /\ count[p] \in Int
      BY SizePositive DEF BufferOK, Index, WritersOK
    <3>2. Mask(head + count[p]) \in Index
      BY <3>1, MaskInIndex
    <3>3. QED
      BY <1>9, <3>2 DEF Commit, BufferOK
  <2>3. WritersOK'
    BY <1>9 DEF Commit, Goto, WritersOK, Writing
  <2>4. MessageOK(p)'
    BY <1>9 DEF Commit, Goto, MessageInProgress, MessageOK, WritersOK
  <2>5. QED
    BY <1>9, <2>1, <2>2, <2>3, <2>4, OthersUnchanged DEF Commit, Goto, WritersOK
<1>10. ASSUME NEW p \in Producers, Release(p) PROVE TypeInv'
  <2>1. BufferOK' /\ PumpOK' /\ ChunkInBounds'
    BY <1>10, PumpUnchanged DEF Release, BufferOK, bufVars, usbVars, PumpOK
  <2>2. WritersOK'
    BY <1>10 DEF Release, Goto, WritersOK
  <2>3. MessageOK(p)'
    BY <1>10 DEF Release, Goto, MessageOK, WritersOK
  <2>4. QED
    BY <1>10, <2>1, <2>2, <2>3, OthersUnchanged DEF Release, Goto, WritersOK
<1>11. ASSUME NEW p \in Producers, Signal(p) PROVE TypeInv'
  <2>1. BufferOK' /\ PumpOK' /\ ChunkInBounds'
    BY <1>11, PumpUnchanged DEF Signal, BufferOK, bufVars, usbVars, PumpOK
  <2>2. WritersOK'
    BY <1>11 DEF Signal, Goto, WritersOK
  <2>3. MessageOK(p)'
    BY <1>11 DEF Signal, Goto, MessageInProgress, MessageOK, WritersOK
  <2>4. QED
    BY <1>11, <2>1, <2>2, <2>3, OthersUnchanged DEF Signal, Goto, WritersOK
<1>12. ASSUME Pump PROVE TypeInv'
  <2>1. WritersOK' /\ MessageInProgress'
    BY <1>12, WritersUnchanged
    DEF Pump, PumpWake, PumpStart, PumpClaimUsb, PumpLoop, SendByte, SendAborted,
        SendDone, PumpReread, PumpCheckActive
  <2>2. ReadSize(head, tail) \in Nat /\ tail + ReadSize(head, tail) <= Size
    BY ReadSizeIsUnread DEF BufferOK
  <2>3. CASE PumpWake \/ PumpStart \/ PumpClaimUsb \/ PumpLoop
    <3>1. BufferOK' /\ PumpOK'
      BY <2>2, <2>3 DEF PumpWake, PumpStart, PumpClaimUsb, PumpLoop, GetReadPointer,
                        BufferOK, PumpOK, bufVars, usbVars
    <3>2. ChunkInBounds'
      BY <2>2, <2>3 DEF PumpWake, PumpStart, PumpClaimUsb, PumpLoop, GetReadPointer,
                        ChunkInBounds, PumpOK, bufVars
    <3>3. QED
      BY <2>1, <3>1, <3>2
  <2>4. CASE SendByte
    <3>1. readPtr \in Int /\ readSize \in Nat /\ sent \in Nat /\ readPtr >= 0
      BY SizePositive DEF PumpOK, Index
    <3>2. readPtr + readSize <= Size /\ sent < readSize /\ sent' = sent + 1
      BY <2>4 DEF SendByte, ChunkInBounds
    <3>3. readPtr + sent \in Index
      BY <3>1, <3>2, SizePositive DEF Index
    <3>4. BufferOK' /\ PumpOK'
      BY <2>4, <3>1, <3>3 DEF SendByte, BufferOK, PumpOK, bufVars, usbVars
    <3>5. ChunkInBounds'
      <4>1. sent' <= readSize
        BY <3>1, <3>2
      <4>2. QED
        BY <2>4, <4>1 DEF SendByte, ChunkInBounds, bufVars
    <3>6. QED
      BY <2>1, <3>4, <3>5
  <2>5. CASE SendDone
    <3>1. tail \in Int /\ readSize \in Int
      BY SizePositive DEF BufferOK, PumpOK, Index
    <3>2. Mask(tail + readSize) \in Index
      BY <3>1, MaskInIndex
    <3>3. BufferOK' /\ PumpOK' /\ ChunkInBounds'
      BY <2>5, <3>2 DEF SendDone, BufferOK, PumpOK, ChunkInBounds, usbVars
    <3>4. QED
      BY <2>1, <3>3
  <2>6. CASE SendAborted \/ PumpReread \/ PumpCheckActive
    <3>1. BufferOK' /\ PumpOK'
      BY <2>2, <2>6 DEF SendAborted, PumpReread, PumpCheckActive, GetReadPointer,
                        BufferOK, PumpOK, bufVars, usbVars
    <3>2. ChunkInBounds'
      <4>1. readSize \in Nat /\ readSize <= readSize
        BY DEF PumpOK
      <4>2. CASE SendAborted
        BY <4>1, <4>2 DEF SendAborted, ChunkInBounds, bufVars
      <4>3. CASE PumpReread
        BY <2>2, <4>3 DEF PumpReread, GetReadPointer, ChunkInBounds, PumpOK, bufVars
      <4>4. CASE PumpCheckActive
        BY <4>4 DEF PumpCheckActive, ChunkInBounds, bufVars
      <4>5. QED
        BY <2>6, <4>2, <4>3, <4>4
    <3>3. QED
      BY <2>1, <3>1, <3>2
  <2>7. QED
    BY <1>12, <2>3, <2>4, <2>5, <2>6 DEF Pump
<1>13. ASSUME UsbChange PROVE TypeInv'
  BY <1>13, PumpUnchanged, WritersUnchanged DEF UsbChange, BufferOK, PumpOK, bufVars
<1>14. CASE UNCHANGED vars
  BY <1>14, PumpUnchanged, WritersUnchanged DEF vars, BufferOK, PumpOK, bufVars, usbVars
<1>15. QED
  BY <1>1, <1>2, <1>3, <1>4, <1>5, <1>6, <1>7, <1>8, <1>9, <1>10, <1>11, <1>12,
     <1>13, <1>14 DEF Next, Generate

(* Type correctness, for every message: indices stay inside the region and *)
(* the driver is never handed bytes beyond its top.                        *)
THEOREM TypeCorrect == Spec => []TypeOK
<1>1. Spec => []TypeInv
  BY TypeInvInit, TypeInvStep, PTL DEF Spec
<1>2. TypeInv => TypeOK
  BY DEF TypeInv
<1>3. QED
  BY <1>1, <1>2, PTL

-----------------------------------------------------------------------------
(* Mutual exclusion of the writers. *)

LEMMA LockInit == Init => WriterOwnsLock
  BY DEF Init, WriterOwnsLock, Writing

LEMMA LockStep == WritersOK /\ WriterOwnsLock /\ [Next]_vars => WriterOwnsLock'
<1> SUFFICES ASSUME WritersOK, WriterOwnsLock, [Next]_vars,
                    NEW q \in Producers, pc'[q] \in Writing
             PROVE  writeLock' = q
  BY DEF WriterOwnsLock
<1> USE DEF WritersOK, WriterOwnsLock, Writing, Goto
<1>1. ASSUME NEW p \in Producers, NEW m \in Messages, Request(p, m) PROVE writeLock' = q
  BY <1>1 DEF Request
<1>2. ASSUME NEW p \in Producers, Claim(p) PROVE writeLock' = q
  BY <1>2, TxAssumption DEF Claim
<1>3. ASSUME NEW p \in Producers, CheckBestCase(p) \/ StartByte(p) \/ BeginChunk(p)
      PROVE  writeLock' = q
  BY <1>3 DEF CheckBestCase, StartByte, BeginChunk
<1>4. ASSUME NEW p \in Producers, WriteByte(p) \/ ChunkDoesNotFit(p) \/ StopByte(p)
      PROVE  writeLock' = q
  BY <1>4 DEF WriteByte, ChunkDoesNotFit, StopByte
<1>5. ASSUME NEW p \in Producers, Commit(p) \/ Release(p) \/ Signal(p)
      PROVE  writeLock' = q
  BY <1>5 DEF Commit, Release, Signal
<1>6. ASSUME Pump \/ UsbChange \/ UNCHANGED vars PROVE writeLock' = q
  BY <1>6 DEF Pump, PumpWake, PumpStart, PumpClaimUsb, PumpLoop, SendByte, SendAborted,
              SendDone, PumpReread, PumpCheckActive, UsbChange, vars, genVars
<1>7. QED
  BY <1>1, <1>2, <1>3, <1>4, <1>5, <1>6 DEF Next, Generate

(* Only the owner of the write lock is between Claim and Release. *)
THEOREM MutualExclusion == Spec => []WriterOwnsLock
<1>1. TypeInv => WritersOK
  BY DEF TypeInv, TypeOK
<1>2. QED
  BY <1>1, TypeInvInit, TypeInvStep, LockInit, LockStep, PTL DEF Spec

-----------------------------------------------------------------------------
(* No wake-up is lost, and the bus is given back: the parts of BytesLeave  *)
(* and UsbBytesLeave that need no fairness.                                *)

(* If a committed byte waits, the event is pending, or the pump will still *)
(* look at the buffer before it waits, or the thread that has committed is *)
(* about to signal.                                                        *)
WakeUpPending ==
  head # tail =>
    \/ event
    \/ pump \in {"start", "reread"}
    \/ pump \in {"loop", "send"} /\ readSize > 0
    \/ IsUsb /\ pump \in {"claim", "active"} /\ readSize > 0
    \/ \E p \in Producers : pc[p] = "signal" \/ (pc[p] = "release" /\ count[p] # -1)

(* The pump holds the bus exactly while it transfers. *)
Transferring == pump \in {"loop", "send", "reread", "active"}
BusFollows == IsUsb => (usbHeld <=> Transferring)

(* Only a step taken while the host is away makes the pump forget bytes    *)
(* that wait.                                                              *)
WakeUpKept == [][WakeUpPending /\ (IsUsb => usbActive) => WakeUpPending']_vars

(* The host has left in the middle of a transfer (serialmanager.c:348).    *)
Abandoned == pump = "active" /\ ~usbActive

(* The pump finds what waits. *)
LEMMA ReadSizeFindsBytes ==
  ASSUME NEW h \in Index, NEW t \in Index, h # t
  PROVE  ReadSize(h, t) > 0
  BY SizePositive DEF ReadSize, Index

LEMMA WakeUpStep ==
  ASSUME TypeInv, WakeUpPending, IsUsb => usbActive, [Next]_vars
  PROVE  WakeUpPending'
<1> USE DEF TypeInv, TypeOK
<1> DEFINE Signals == \E p \in Producers : pc[p] = "signal" \/ (pc[p] = "release" /\ count[p] # -1)
<1>1. ASSUME NEW p \in Producers,
             \/ \E m \in Messages : Request(p, m)
             \/ Claim(p) \/ CheckBestCase(p) \/ StartByte(p) \/ BeginChunk(p) \/ WriteByte(p)
             \/ ChunkDoesNotFit(p) \/ StopByte(p)
      PROVE  WakeUpPending'
  <2>1. UNCHANGED <<head, tail, event, pump, readSize>> /\ pc[p] \notin {"release", "signal"}
    BY <1>1 DEF Request, Claim, CheckBestCase, StartByte, BeginChunk, WriteByte,
           ChunkDoesNotFit, StopByte, bufVars, pumpVars
  <2>2. \A q \in Producers \ {p} : pc'[q] = pc[q] /\ count'[q] = count[q]
    BY <1>1 DEF Request, Claim, CheckBestCase, StartByte, BeginChunk, WriteByte,
           ChunkDoesNotFit, StopByte, WriteEND, Goto, WritersOK
  <2>3. Signals => Signals'
    BY <2>1, <2>2
  <2>4. QED
    BY <2>1, <2>3 DEF WakeUpPending
<1>2. ASSUME NEW p \in Producers, Commit(p) PROVE WakeUpPending'
  <2>1. /\ UNCHANGED <<tail, event, pump, readSize, count>>
        /\ pc[p] = "commit" /\ pc'[p] = "release"
        /\ \A q \in Producers \ {p} : pc'[q] = pc[q]
    BY <1>2 DEF Commit, Goto, WritersOK, pumpVars
  <2>2. CASE count[p] = -1
    <3>1. head' = head
      BY <1>2, <2>2 DEF Commit
    <3>2. Signals => Signals'
      BY <2>1
    <3>3. QED
      BY <2>1, <3>1, <3>2 DEF WakeUpPending
  <2>3. CASE count[p] # -1
    <3>1. Signals'
      BY <2>1, <2>3
    <3>2. QED
      BY <3>1 DEF WakeUpPending
  <2>4. QED
    BY <2>2, <2>3
<1>3. ASSUME NEW p \in Producers, Release(p) PROVE WakeUpPending'
  <2>1. /\ UNCHANGED <<head, tail, event, pump, readSize>>
        /\ pc[p] = "release"
        /\ count[p] # -1 => pc'[p] = "signal"
        /\ \A q \in Producers \ {p} : pc'[q] = pc[q] /\ count'[q] = count[q]
    BY <1>3 DEF Release, Goto, WritersOK, bufVars, pumpVars
  <2>2. Signals => Signals'
    BY <2>1
  <2>3. QED
    BY <2>1, <2>2 DEF WakeUpPending
<1>4. ASSUME NEW p \in Producers, Signal(p) PROVE WakeUpPending'
  BY <1>4 DEF Signal, WakeUpPending
<1>5. ASSUME UNCHANGED <<head, tail, pc, count, event>>,
             \/ /\ pump \notin {"start", "reread"}
                /\ ~(pump \in {"loop", "send"} /\ readSize > 0)
                /\ ~(IsUsb /\ pump \in {"claim", "active"} /\ readSize > 0)
             \/ pump' \in {"start", "reread"}
             \/ head # tail => /\ readSize' > 0
                              /\ \/ pump' \in {"loop", "send"}
                                 \/ IsUsb /\ pump' \in {"claim", "active"}
      PROVE  WakeUpPending'
  <2>1. Signals => Signals'
    BY <1>5
  <2>2. QED
    BY <1>5, <2>1 DEF WakeUpPending
<1>6. ASSUME PumpStart \/ PumpReread PROVE WakeUpPending'
  <2>1. /\ UNCHANGED <<head, tail, pc, count, event>>
        /\ readSize' = ReadSize(head, tail)
        /\ pump' = "loop" \/ (IsUsb /\ pump' \in {"claim", "active"})
    BY <1>6 DEF PumpStart, PumpReread, GetReadPointer, bufVars, genVars
  <2>2. head # tail => readSize' > 0
    BY <2>1, ReadSizeFindsBytes DEF BufferOK
  <2>3. QED
    BY <1>5, <2>1, <2>2
<1>7. ASSUME PumpWake \/ PumpClaimUsb \/ PumpLoop \/ SendDone \/ PumpCheckActive
      PROVE  WakeUpPending'
  <2>1. CASE SendDone
    BY <2>1 DEF SendDone, WakeUpPending
  <2>2. CASE PumpWake
    BY <2>2 DEF PumpWake, WakeUpPending
  <2>3. CASE PumpClaimUsb \/ PumpLoop \/ PumpCheckActive
    <3>1. UNCHANGED <<head, tail, pc, count, event, readSize>>
      BY <2>3 DEF PumpClaimUsb, PumpLoop, PumpCheckActive, bufVars, genVars
    <3>2. \/ /\ pump \notin {"start", "reread"}
             /\ ~(pump \in {"loop", "send"} /\ readSize > 0)
             /\ ~(IsUsb /\ pump \in {"claim", "active"} /\ readSize > 0)
          \/ pump' \in {"loop", "send"} /\ readSize' > 0
      BY <2>3, <3>1 DEF PumpClaimUsb, PumpLoop, PumpCheckActive
    <3>3. QED
      BY <1>5, <3>1, <3>2
  <2>4. QED
    BY <1>7, <2>1, <2>2, <2>3
<1>8. ASSUME SendByte \/ SendAborted \/ UsbChange \/ UNCHANGED vars PROVE WakeUpPending'
  <2>1. UNCHANGED <<head, tail, event, pump, readSize, pc, count>>
    BY <1>8 DEF SendByte, SendAborted, UsbChange, vars, bufVars, genVars, pumpVars
  <2>2. QED
    BY <2>1 DEF WakeUpPending
<1>9. QED
  BY <1>1, <1>2, <1>3, <1>4, <1>6, <1>7, <1>8 DEF Next, Generate, Pump

(* Over USB too the pump never goes to wait while a committed byte waits   *)
(* and nobody is about to wake it (serialmanager.c:194), but in a step it  *)
(* takes while the host is away.                                           *)
THEOREM OnlyAbsenceForgets == Spec => WakeUpKept
<1>1. TypeInv /\ [Next]_vars =>
        [WakeUpPending /\ (IsUsb => usbActive) => WakeUpPending']_vars
  BY WakeUpStep
<1>2. QED
  BY <1>1, TypeInvInit, TypeInvStep, PTL DEF Spec, WakeUpKept

(* On an AUX port it never does, whatever the producers write and however  *)
(* their commits and signals fall between the steps of the pump.           *)
THEOREM NoLostWakeUp ==
  ASSUME ~IsUsb
  PROVE  Spec => []WakeUpPending
<1>1. Init => WakeUpPending
  BY DEF Init, WakeUpPending
<1>2. TypeInv /\ WakeUpPending /\ [Next]_vars => WakeUpPending'
  BY WakeUpStep
<1>3. QED
  BY <1>1, <1>2, TypeInvInit, TypeInvStep, PTL DEF Spec

LEMMA BusStep == ASSUME BusFollows, ~Abandoned, [Next]_vars PROVE BusFollows'
<1>1. CASE UNCHANGED <<pump, usbHeld>>
  BY <1>1 DEF BusFollows, Transferring
<1>2. CASE Pump
  <2>1. CASE PumpWake \/ PumpStart \/ PumpClaimUsb \/ PumpLoop
    BY <2>1 DEF PumpWake, PumpStart, PumpClaimUsb, PumpLoop, BusFollows, Transferring, usbVars
  <2>2. CASE SendByte \/ SendAborted \/ SendDone
    BY <2>2 DEF SendByte, SendAborted, SendDone, BusFollows, Transferring, usbVars
  <2>3. CASE PumpReread \/ PumpCheckActive
    BY <2>3 DEF PumpReread, PumpCheckActive, Abandoned, BusFollows, Transferring, usbVars
  <2>4. QED
    BY <1>2, <2>1, <2>2, <2>3 DEF Pump
<1>3. CASE UsbChange \/ UNCHANGED vars
  BY <1>1, <1>3 DEF UsbChange, vars, pumpVars, usbVars
<1>4. ASSUME NEW p \in Producers,
             (\E m \in Messages : Request(p, m)) \/ Claim(p) \/ Generate(p)
      PROVE  UNCHANGED <<pump, usbHeld>>
  BY <1>4 DEF Request, Claim, Generate, CheckBestCase, StartByte, BeginChunk, WriteByte,
         ChunkDoesNotFit, StopByte, Commit, Release, Signal, pumpVars, usbVars
<1>5. QED
  BY <1>1, <1>2, <1>3, <1>4 DEF Next

(* The pump takes the bus for each transfer and gives it back at its end,  *)
(* so that it never waits for itself, unless the host once left in the     *)
(* middle of one: the path of serialmanager.c:350 is the only one that     *)
(* keeps the bus.                                                          *)
THEOREM BusGivenBack == Spec /\ []~Abandoned => []BusFollows
<1>1. Init => BusFollows
  BY DEF Init, BusFollows, Transferring
<1>2. BusFollows /\ ~Abandoned /\ [Next]_vars => BusFollows'
  BY BusStep
<1>3. QED
  BY <1>1, <1>2, PTL DEF Spec

-----------------------------------------------------------------------------
(* What a step of the encoder writes.                                      *)

(* m2 is m1 but for s, which is written from the c-th cell behind h on. *)
Puts(m1, m2, h, c, s) ==
  /\ m2 \in [Index -> Byte \cup {NONE}]
  /\ \A k \in Nat : c <= k /\ k < c + Len(s) => m2[Mask(h + k)] = s[k - c + 1]
  /\ \A i \in Index :
       (\A k \in Nat : c <= k /\ k < c + Len(s) => i # Mask(h + k)) => m2[i] = m1[i]

(* Two offsets behind head below Size are two cells. *)
LEMMA CellsDiffer ==
  ASSUME NEW x \in Index, NEW i \in 0 .. (Size - 1), NEW j \in 0 .. (Size - 1), i # j
  PROVE  Mask(x + i) # Mask(x + j)
<1>1. /\ Mask(x + i) = IF x + i < Size THEN x + i ELSE x + i - Size
      /\ Mask(x + j) = IF x + j < Size THEN x + j ELSE x + j - Size
  BY MaskAdd
<1>2. QED
  BY <1>1, SizePositive DEF Index

LEMMA PutsOne ==
  ASSUME NEW m1 \in [Index -> Byte \cup {NONE}], NEW h \in Index, NEW c \in Nat, c < Size,
         NEW b \in Byte
  PROVE  Puts(m1, [m1 EXCEPT ![Mask(h + c)] = b], h, c, <<b>>)
<1> DEFINE m2 == [m1 EXCEPT ![Mask(h + c)] = b]
<1>1. c \in 0 .. (Size - 1)
  BY SizePositive
<1>2. Mask(h + c) \in Index
  BY <1>1, MaskAdd
<1>3. m2 \in [Index -> Byte \cup {NONE}] /\ m2[Mask(h + c)] = b
      /\ \A i \in Index : i # Mask(h + c) => m2[i] = m1[i]
  BY <1>2
<1> HIDE DEF m2
<1>4. Len(<<b>>) = 1 /\ <<b>>[1] = b
  OBVIOUS
<1>5. \A k \in Nat : c <= k /\ k < c + Len(<<b>>) <=> k = c
  BY <1>4
<1>6. ASSUME NEW k \in Nat, c <= k, k < c + Len(<<b>>) PROVE m2[Mask(h + k)] = <<b>>[k - c + 1]
  <2>1. k = c /\ k - c + 1 = 1
    BY <1>5, <1>6
  <2>2. QED
    BY <1>3, <1>4, <2>1
<1>7. ASSUME NEW i \in Index, \A k \in Nat : c <= k /\ k < c + Len(<<b>>) => i # Mask(h + k)
      PROVE  m2[i] = m1[i]
  <2>1. i # Mask(h + c)
    BY <1>5, <1>7
  <2>2. QED
    BY <1>3, <2>1
<1>8. Puts(m1, m2, h, c, <<b>>)
  BY <1>3, <1>6, <1>7 DEF Puts
<1>9. QED
  BY <1>8 DEF m2

LEMMA PutsTwo ==
  ASSUME NEW m1 \in [Index -> Byte \cup {NONE}], NEW h \in Index, NEW c \in Nat, c + 1 < Size,
         NEW a \in Byte, NEW b \in Byte
  PROVE  Puts(m1, [m1 EXCEPT ![Mask(h + c)] = a, ![Mask(h + c + 1)] = b], h, c, <<a, b>>)
<1> DEFINE n == [m1 EXCEPT ![Mask(h + c)] = a]
           m2 == [n EXCEPT ![Mask(h + c + 1)] = b]
<1>1. c \in 0 .. (Size - 1) /\ c + 1 \in 0 .. (Size - 1) /\ h + (c + 1) = h + c + 1
  BY SizePositive DEF Index
<1>2. Mask(h + c) \in Index /\ Mask(h + c + 1) \in Index
  BY <1>1, MaskAdd
<1>3. Mask(h + c) # Mask(h + c + 1)
  <2>1. c # c + 1
    OBVIOUS
  <2>2. QED
    BY <1>1, <2>1, CellsDiffer
<1>4. n \in [Index -> Byte \cup {NONE}] /\ n[Mask(h + c)] = a
      /\ \A i \in Index : i # Mask(h + c) => n[i] = m1[i]
  BY <1>2
<1>5. [m1 EXCEPT ![Mask(h + c)] = a, ![Mask(h + c + 1)] = b] = m2
  OBVIOUS
<1> HIDE DEF n
<1>6. m2 \in [Index -> Byte \cup {NONE}] /\ m2[Mask(h + c + 1)] = b
      /\ \A i \in Index : i # Mask(h + c + 1) => m2[i] = n[i]
  BY <1>2, <1>4
<1> HIDE DEF m2
<1>7. Len(<<a, b>>) = 2 /\ <<a, b>>[1] = a /\ <<a, b>>[2] = b
  OBVIOUS
<1>8. ASSUME NEW k \in Nat, c <= k, k < c + Len(<<a, b>>)
      PROVE  m2[Mask(h + k)] = <<a, b>>[k - c + 1]
  <2>1. (k = c /\ k - c + 1 = 1) \/ (k = c + 1 /\ k - c + 1 = 2)
    BY <1>7, <1>8
  <2>2. m2[Mask(h + c)] = a /\ m2[Mask(h + (c + 1))] = b
    BY <1>1, <1>2, <1>3, <1>4, <1>6
  <2>3. QED
    BY <1>7, <2>1, <2>2
<1>9. ASSUME NEW i \in Index, \A k \in Nat : c <= k /\ k < c + Len(<<a, b>>) => i # Mask(h + k)
      PROVE  m2[i] = m1[i]
  <2>1. c + 1 \in Nat /\ c <= c /\ c < c + 2 /\ c <= c + 1 /\ c + 1 < c + 2
    OBVIOUS
  <2>2. i # Mask(h + c) /\ i # Mask(h + (c + 1))
    BY <1>7, <1>9, <2>1
  <2>3. QED
    BY <1>1, <1>4, <1>6, <2>2
<1>10. Puts(m1, m2, h, c, <<a, b>>)
  BY <1>6, <1>8, <1>9 DEF Puts
<1>11. QED
  BY <1>5, <1>10


-----------------------------------------------------------------------------
(* What a writer has counted, and what the pump may read meanwhile.        *)

(* count is the number of cells behind head that hold the frame as far as  *)
(* slip.c has come with it, or -1: the message was given up.               *)
PlacedOK(p) ==
  LET data == msg[p].data
  IN  /\ pc[p] = "start" => count[p] = 0
      /\ pc[p] = "chunk" => count[p] \in {-1, Len(Stuffed(data, pos[p])) + 1}
      /\ pc[p] = "byte" => count[p] = Len(Stuffed(data, pos[p])) + 1
      /\ pc[p] = "stop" =>
           count[p] = -1 \/ (pos[p] = Len(data) /\ count[p] = Len(Frame(data)) - 1)
      /\ pc[p] = "commit" => count[p] \in {-1, Len(Frame(data))}

Placement == \A p \in Producers : PlacedOK(p)

(* The inductive invariant of the path from the encoder to the driver:     *)
(* types, the lock, what each writer has counted and what the pump reads.  *)
PathInv == TypeInv /\ WriterOwnsLock /\ Placement /\ ChunkIsUnread

(* The numbers the steps below calculate with. *)
LEMMA SpaceFacts ==
  ASSUME BufferOK
  PROVE  /\ Unread(head, tail) \in 0 .. (Size - 1)
         /\ Space \in 0 .. (Size - 1)
         /\ Space = Size - 1 - Unread(head, tail)
  BY SpaceValue, UnreadValue, SizePositive DEF BufferOK, Space

(* A writer that moves leaves the counts of the others alone. *)
LEMMA OthersPlaced ==
  ASSUME Placement, NEW p \in Producers, PlacedOK(p)',
         \A q \in Producers \ {p} :
           pc'[q] = pc[q] /\ pos'[q] = pos[q] /\ msg'[q] = msg[q] /\ count'[q] = count[q]
  PROVE  Placement'
<1>1. ASSUME NEW q \in Producers \ {p} PROVE PlacedOK(q)'
  BY <1>1 DEF Placement, PlacedOK
<1>2. QED
  BY <1>1 DEF Placement

(* The opening END. *)
LEMMA StartPlaced ==
  ASSUME PathInv, NEW p \in Producers, StartByte(p)
  PROVE  /\ PlacedOK(p)'
         /\ count[p] = 0 /\ count'[p] \in {-1, 1}
         /\ count'[p] = -1 => mem' = mem
         /\ count'[p] = 1 => Puts(mem, mem', head, 0, <<SLIP_END>>)
<1> USE DEF PathInv, TypeInv, TypeOK
<1>1. pc[p] = "start" /\ pos[p] = 0 /\ count[p] = 0
  BY DEF StartByte, MessageInProgress, MessageOK, Placement, PlacedOK
<1>2. pc'[p] = "chunk" /\ pos'[p] = 0 /\ msg' = msg
  BY <1>1 DEF StartByte, Goto, WritersOK
<1>3. \/ count'[p] = -1 /\ mem' = mem
      \/ count'[p] = 1 /\ mem' = [mem EXCEPT ![Mask(head + 0)] = SLIP_END]
  BY <1>1 DEF StartByte, WriteEND, WritersOK
<1>4. Len(Stuffed(msg[p].data, 0)) = 0
  BY StuffedEmpty, EmptySeq
<1>5. PlacedOK(p)'
  BY <1>2, <1>3, <1>4 DEF PlacedOK
<1>6. SLIP_END \in Byte /\ 0 \in Nat /\ 0 < Size
  BY TxAssumption, SizePositive DEF Reserved
<1>7. Puts(mem, [mem EXCEPT ![Mask(head + 0)] = SLIP_END], head, 0, <<SLIP_END>>)
  BY <1>6, PutsOne DEF BufferOK
<1>8. QED
  BY <1>1, <1>3, <1>5, <1>7

(* Where a writer is in the encode loop. *)
LEMMA ByteFacts ==
  ASSUME PathInv, NEW p \in Producers, pc[p] = "byte"
  PROVE  /\ msg[p] \in Messages /\ msg[p].data \in Seq(Byte)
         /\ pos[p] \in Nat /\ pos[p] < Len(msg[p].data) /\ Len(msg[p].data) \in Nat
         /\ msg[p].data[pos[p] + 1] \in Byte
         /\ Len(Stuffed(msg[p].data, pos[p])) \in Nat
         /\ count[p] = Len(Stuffed(msg[p].data, pos[p])) + 1
<1> USE DEF PathInv, TypeInv, TypeOK
<1>1. /\ msg[p] \in Messages /\ pos[p] \in Nat /\ pos[p] < Len(msg[p].data)
      /\ count[p] = Len(Stuffed(msg[p].data, pos[p])) + 1
  BY DEF MessageInProgress, MessageOK, WritersOK, Placement, PlacedOK
<1>2. msg[p].data \in Seq(Byte) /\ Len(msg[p].data) \in Nat
  BY <1>1, MessageFacts
<1>3. msg[p].data[pos[p] + 1] \in Byte
  BY <1>1, <1>2, ElementOfSeq
<1>4. Len(Stuffed(msg[p].data, pos[p])) \in Nat
  BY <1>1, <1>2, StuffedBytes
<1>5. QED
  BY <1>1, <1>2, <1>3, <1>4

(* One turn of the encode loop: one byte or two, at the cells behind what  *)
(* was written, as long as the region is not smaller than that.            *)
LEMMA BytePlaced ==
  ASSUME PathInv, NEW p \in Producers, WriteByte(p)
  PROVE  /\ PlacedOK(p)'
         /\ count[p] \in Nat
         /\ count'[p] = count[p] + Len(Encode(msg[p].data[pos[p] + 1]))
         /\ budget'[p] = budget[p] - Len(Encode(msg[p].data[pos[p] + 1]))
         /\ count'[p] <= Size =>
              Puts(mem, mem', head, count[p], Encode(msg[p].data[pos[p] + 1]))
<1> USE DEF PathInv, TypeInv, TypeOK
<1> DEFINE d == msg[p].data
           l(n) == Len(Stuffed(d, n))
           b == d[pos[p] + 1]
           x == Encode(b)
<1>1. /\ pc[p] = "byte" /\ d \in Seq(Byte)
      /\ pos[p] \in Nat /\ pos[p] < Len(d) /\ Len(d) \in Nat
      /\ b \in Byte /\ l(pos[p]) \in Nat /\ count[p] = l(pos[p]) + 1
  BY ByteFacts DEF WriteByte
<1>2. count[p] \in Nat
  BY <1>1
<1>3. /\ count'[p] = count[p] + Len(x)
      /\ budget'[p] = budget[p] - Len(x)
      /\ count'[p] <= Size => Puts(mem, mem', head, count[p], x)
  <2>1. CASE b \in Reserved
    <3>1. x = <<SLIP_ESC, EscapeOf(b)>> /\ Len(x) = 2
      BY <1>1, <2>1, EncodeBytes
    <3>2. SLIP_ESC \in Byte /\ EscapeOf(b) \in Byte
      BY <2>1, TxAssumption DEF EscapeOf, Reserved
    <3>3. mem' = [mem EXCEPT ![Mask(head + count[p])] = SLIP_ESC,
                             ![Mask(head + count[p] + 1)] = EscapeOf(b)]
      BY <2>1 DEF WriteByte
    <3>4. count'[p] = count[p] + 2 /\ budget'[p] = budget[p] - 2
      BY <2>1 DEF WriteByte, WritersOK
    <3>5. ASSUME count'[p] <= Size PROVE Puts(mem, mem', head, count[p], x)
      <4>1. count[p] + 1 < Size
        BY <1>2, <3>4, <3>5, SizePositive
      <4>2. Puts(mem, mem', head, count[p], <<SLIP_ESC, EscapeOf(b)>>)
        BY <1>2, <3>2, <3>3, <4>1, PutsTwo DEF BufferOK
      <4>3. QED
        BY <3>1, <4>2
    <3>6. QED
      BY <3>1, <3>4, <3>5
  <2>2. CASE b \notin Reserved
    <3>1. x = <<b>> /\ Len(x) = 1
      BY <1>1, <2>2, EncodeBytes
    <3>2. mem' = [mem EXCEPT ![Mask(head + count[p])] = b]
      BY <2>2 DEF WriteByte
    <3>3. count'[p] = count[p] + 1 /\ budget'[p] = budget[p] - 1
      BY <2>2 DEF WriteByte, WritersOK
    <3>4. ASSUME count'[p] <= Size PROVE Puts(mem, mem', head, count[p], x)
      <4>1. count[p] < Size
        BY <1>2, <3>3, <3>4, SizePositive
      <4>2. Puts(mem, mem', head, count[p], <<b>>)
        BY <1>1, <1>2, <3>2, <4>1, PutsOne DEF BufferOK
      <4>3. QED
        BY <3>1, <4>2
    <3>5. QED
      BY <3>1, <3>3, <3>4
  <2>3. QED
    BY <2>1, <2>2
<1>4. pos'[p] = pos[p] + 1 /\ msg' = msg
  BY DEF WriteByte, WritersOK
<1>5. /\ pc'[p] \in {"byte", "chunk", "stop"}
      /\ pc'[p] = "stop" => ~(pos[p] + 1 < Len(d))
  BY DEF WriteByte, Goto, WritersOK
<1>6. /\ l(pos[p] + 1) = l(pos[p]) + Len(x) /\ Len(x) \in {1, 2}
      /\ Len(Frame(d)) = l(Len(d)) + 2
  BY <1>1, StuffedNext, FrameBytes, EncodeBytes
<1>7. count'[p] = l(pos[p] + 1) + 1
  <2> HIDE DEF l, d, x, b
  <2>1. QED
    BY <1>1, <1>3, <1>6
<1>8. pc'[p] = "stop" => pos[p] + 1 = Len(d) /\ count'[p] = Len(Frame(d)) - 1
  <2>1. SUFFICES ASSUME pc'[p] = "stop"
                 PROVE  pos[p] + 1 = Len(d) /\ count'[p] = Len(Frame(d)) - 1
    OBVIOUS
  <2>2. pos[p] + 1 = Len(d)
    BY <1>1, <1>5, <2>1
  <2> HIDE DEF l, d, x, b
  <2>3. QED
    BY <1>1, <1>6, <1>7, <2>2
<1>9. PlacedOK(p)'
  BY <1>4, <1>5, <1>7, <1>8 DEF PlacedOK
<1>10. QED
  BY <1>2, <1>3, <1>9

(* The closing END, or giving up. *)
LEMMA StopPlaced ==
  ASSUME PathInv, NEW p \in Producers, StopByte(p)
  PROVE  /\ PlacedOK(p)'
         /\ count'[p] = -1 => mem' = mem
         /\ count'[p] # -1 =>
              /\ count[p] \in Nat /\ count'[p] = count[p] + 1
              /\ U32(Space - count[p]) >= 1
              /\ pos[p] = Len(msg[p].data) /\ count[p] = Len(Frame(msg[p].data)) - 1
              /\ count'[p] <= Size => Puts(mem, mem', head, count[p], <<SLIP_END>>)
<1> USE DEF PathInv, TypeInv, TypeOK
<1> DEFINE f == Len(Frame(msg[p].data))
<1>1. /\ pc[p] = "stop" /\ msg[p] \in Messages
      /\ count[p] = -1 \/ (pos[p] = Len(msg[p].data) /\ count[p] = f - 1)
  BY DEF StopByte, MessageInProgress, MessageOK, Placement, PlacedOK
<1>2. f \in Nat /\ f >= 2
  BY <1>1, MessageFacts, FrameBytes
<1>3. \/ count'[p] = -1 /\ mem' = mem
      \/ /\ count[p] >= 0 /\ U32(Space - count[p]) >= 1
         /\ count'[p] = count[p] + 1
         /\ mem' = [mem EXCEPT ![Mask(head + count[p])] = SLIP_END]
  BY DEF StopByte, WriteEND, WritersOK
<1>4. pc'[p] = "commit" /\ msg' = msg
  BY DEF StopByte, Goto, WritersOK
<1>5. SLIP_END \in Byte /\ count[p] \in Int
  BY TxAssumption DEF Reserved, WritersOK
<1> HIDE DEF f
<1>6. CASE count'[p] = -1 /\ mem' = mem
  BY <1>4, <1>6 DEF PlacedOK
<1>7. CASE /\ count[p] >= 0 /\ U32(Space - count[p]) >= 1
           /\ count'[p] = count[p] + 1
           /\ mem' = [mem EXCEPT ![Mask(head + count[p])] = SLIP_END]
  <2>1. count[p] \in Nat /\ pos[p] = Len(msg[p].data) /\ count[p] = f - 1
    BY <1>1, <1>5, <1>7
  <2>2. count'[p] = f
    BY <1>2, <1>7, <2>1
  <2>3. PlacedOK(p)'
    BY <1>4, <2>2 DEF PlacedOK, f
  <2>4. ASSUME count'[p] <= Size PROVE Puts(mem, mem', head, count[p], <<SLIP_END>>)
    <3>1. count[p] < Size
      BY <1>7, <2>1, <2>4, SizePositive
    <3>2. QED
      BY <1>5, <1>7, <2>1, <3>1, PutsOne DEF BufferOK
  <2>5. count'[p] # -1
    BY <1>2, <2>2
  <2>6. QED
    BY <1>7, <2>1, <2>3, <2>4, <2>5 DEF f
<1>8. QED
  BY <1>3, <1>6, <1>7

(* A writer that leaves the pump and head alone keeps what the pump reads. *)
LEMMA ChunkKept ==
  ASSUME ChunkIsUnread, UNCHANGED <<head, tail, pumpVars>>
  PROVE  ChunkIsUnread'
  BY DEF ChunkIsUnread, pumpVars

(* Moving head by what fits keeps what the pump reads unread. *)
LEMMA CommitKeeps ==
  ASSUME TypeInv, ChunkIsUnread, NEW p \in Producers, Commit(p),
         count[p] = -1 \/ (count[p] \in Nat /\ count[p] <= Space)
  PROVE  ChunkIsUnread'
<1> USE DEF TypeInv, TypeOK
<1>1. CASE count[p] = -1
  <2>1. UNCHANGED <<head, tail, pumpVars>>
    BY <1>1 DEF Commit
  <2>2. QED
    BY <2>1, ChunkKept
<1>2. CASE count[p] # -1
  <2>1. count[p] \in Nat /\ count[p] <= Space
    BY <1>2
  <2>2. head' = Mask(head + count[p]) /\ tail' = tail
    BY <1>2 DEF Commit
  <2>3. Unread(head', tail') = Unread(head, tail) + count[p]
    BY <2>1, <2>2, AdvanceHead DEF BufferOK, Space
  <2>4. /\ readSize \in Nat /\ Unread(head, tail) \in Int /\ Unread(head', tail') \in Int
        /\ Unread(head, tail) <= Unread(head', tail')
    BY <2>1, <2>3, SpaceFacts DEF PumpOK
  <2>5. readSize <= Unread(head, tail) => readSize <= Unread(head', tail')
    BY <2>4
  <2>6. QED
    BY <2>2, <2>5 DEF Commit, ChunkIsUnread, pumpVars
<1>3. QED
  BY <1>1, <1>2

(* The pump only ever adds free space, and reads what is unread. *)
LEMMA PumpFrees ==
  ASSUME TypeInv, ChunkIsUnread, Pump
  PROVE  UNCHANGED genVars /\ head' = head /\ Space <= Space' /\ Space' \in Int /\ ChunkIsUnread'
<1> USE DEF TypeInv, TypeOK
<1>1. UNCHANGED genVars /\ head' = head
  BY DEF Pump, PumpWake, PumpStart, PumpClaimUsb, PumpLoop, SendByte, SendAborted,
         SendDone, PumpReread, PumpCheckActive, bufVars
<1>2. Space <= Space' /\ Space' \in Int /\ ChunkIsUnread'
  <2>1. CASE SendDone
    <3>1. tail' = Mask(tail + readSize) /\ readSize \in Nat
      BY <2>1 DEF SendDone, PumpOK
    <3>2. readSize <= Unread(head, tail)
      BY <2>1 DEF SendDone, ChunkIsUnread
    <3>3. tail' \in Index /\ Unread(head, tail') = Unread(head, tail) - readSize
      BY <3>1, <3>2, AdvanceTail DEF BufferOK
    <3>4. Space' = Size - 1 - Unread(head, tail')
      BY <1>1, <3>3, SpaceValue DEF Space, BufferOK
    <3>5. Space <= Space' /\ Space' \in Int
      BY <3>1, <3>3, <3>4, SpaceFacts, SizePositive
    <3>6. ChunkIsUnread'
      BY <2>1 DEF SendDone, ChunkIsUnread
    <3>7. QED
      BY <3>5, <3>6
  <2>2. CASE ~ SendDone
    <3>1. tail' = tail
      BY <2>2 DEF Pump, PumpWake, PumpStart, PumpClaimUsb, PumpLoop, SendByte,
                  SendAborted, PumpReread, PumpCheckActive, bufVars
    <3>2. Space' = Space /\ Space \in Int
      BY <1>1, <3>1, SpaceFacts DEF Space
    <3>3. ChunkIsUnread'
      <4>1. CASE PumpWake
        BY <4>1 DEF PumpWake, ChunkIsUnread
      <4>2. CASE PumpStart \/ PumpReread
        <5>1. sent = 0
          BY <4>2 DEF PumpStart, PumpReread, ChunkInBounds
        <5>2. /\ ReadSize(head, tail) \in Nat
              /\ tail + ReadSize(head, tail) <= Size
              /\ ReadSize(head, tail) <= Unread(head, tail)
          BY ReadSizeIsUnread DEF BufferOK
        <5>3. 0 <= ReadSize(head, tail)
          BY <5>2
        <5>4. sent' = sent
          BY <4>2 DEF PumpStart, PumpReread
        <5>5. pump' = "wait" \/ (readPtr' = tail /\ readSize' = ReadSize(head, tail))
          BY <4>2 DEF PumpStart, PumpReread, GetReadPointer
        <5>6. QED
          BY <1>1, <3>1, <5>1, <5>2, <5>3, <5>4, <5>5 DEF ChunkIsUnread
      <4>3. CASE PumpClaimUsb \/ PumpLoop \/ PumpCheckActive
        BY <1>1, <3>1, <4>3
        DEF PumpClaimUsb, PumpLoop, PumpCheckActive, ChunkIsUnread
      <4>4. CASE SendByte \/ SendAborted
        <5>1. sent' \in Int /\ sent' <= readSize
          BY <4>4 DEF SendByte, SendAborted, PumpOK
        <5>2. QED
          BY <1>1, <3>1, <4>4, <5>1 DEF SendByte, SendAborted, ChunkIsUnread
      <4>5. QED
        BY <2>2, <4>1, <4>2, <4>3, <4>4 DEF Pump
    <3>4. QED
      BY <3>2, <3>3
  <2>3. QED
    BY <2>1, <2>2
<1>3. QED
  BY <1>1, <1>2

LEMMA PathInit == Init => PathInv
<1> SUFFICES ASSUME Init PROVE PathInv
  OBVIOUS
<1>1. Placement
  BY DEF Init, Placement, PlacedOK
<1>2. ChunkIsUnread
  BY DEF Init, ChunkIsUnread
<1>3. QED
  BY <1>1, <1>2, TypeInvInit, LockInit DEF PathInv

LEMMA PathStep == NoOverrun /\ PathInv /\ [Next]_vars => PathInv'
<1> SUFFICES ASSUME NoOverrun, PathInv, [Next]_vars PROVE Placement' /\ ChunkIsUnread'
  BY TypeInvStep, LockStep DEF PathInv, TypeInv, TypeOK
<1> USE DEF PathInv, TypeInv, TypeOK
<1>1. ASSUME NEW p \in Producers, (\E m \in Messages : Request(p, m)) \/ Claim(p)
      PROVE  Placement' /\ ChunkIsUnread'
  <2>1. pc'[p] \in {"claim", "check"}
    BY <1>1 DEF Request, Claim, Goto, WritersOK
  <2>2. PlacedOK(p)'
    BY <2>1 DEF PlacedOK
  <2>3. QED
    BY <1>1, <2>2, OthersPlaced, ChunkKept DEF Request, Claim, Goto, WritersOK, bufVars
<1>2. ASSUME NEW p \in Producers, CheckBestCase(p) PROVE Placement' /\ ChunkIsUnread'
  <2>1. pc'[p] = "release" \/ (pc'[p] = "start" /\ count'[p] = 0)
    BY <1>2 DEF CheckBestCase, Goto, WritersOK
  <2>2. PlacedOK(p)'
    BY <2>1 DEF PlacedOK
  <2>3. QED
    BY <1>2, <2>2, OthersPlaced, ChunkKept DEF CheckBestCase, Goto, WritersOK, bufVars
<1>3. ASSUME NEW p \in Producers, StartByte(p) PROVE Placement' /\ ChunkIsUnread'
  <2>1. PlacedOK(p)'
    BY <1>3, StartPlaced
  <2>2. QED
    BY <1>3, <2>1, OthersPlaced, ChunkKept DEF StartByte, WriteEND, Goto, WritersOK
<1>4. ASSUME NEW p \in Producers, BeginChunk(p) PROVE Placement' /\ ChunkIsUnread'
  <2>1. /\ pc[p] = "chunk" /\ count' = count /\ pos' = pos /\ msg' = msg
        /\ \/ count[p] >= 0 /\ pc'[p] = "byte"
           \/ ~(count[p] >= 0) /\ pc'[p] = "stop"
    BY <1>4 DEF BeginChunk, Goto, WritersOK
  <2>2. count[p] \in {-1, Len(Stuffed(msg[p].data, pos[p])) + 1} /\ msg[p] \in Messages
        /\ pos[p] \in Nat /\ pos[p] < Len(msg[p].data)
    BY <2>1 DEF Placement, PlacedOK, MessageInProgress, MessageOK, WritersOK
  <2>3. Len(Stuffed(msg[p].data, pos[p])) \in Nat
    BY <2>2, MessageFacts, StuffedBytes
  <2>4. PlacedOK(p)'
    BY <2>1, <2>2, <2>3 DEF PlacedOK
  <2>5. QED
    BY <1>4, <2>4, OthersPlaced, ChunkKept DEF BeginChunk, Goto, WritersOK, bufVars
<1>5. ASSUME NEW p \in Producers, WriteByte(p) PROVE Placement' /\ ChunkIsUnread'
  <2>1. PlacedOK(p)'
    BY <1>5, BytePlaced
  <2>2. QED
    BY <1>5, <2>1, OthersPlaced, ChunkKept DEF WriteByte, Goto, WritersOK
<1>6. ASSUME NEW p \in Producers, ChunkDoesNotFit(p) PROVE Placement' /\ ChunkIsUnread'
  <2>1. pc'[p] = "stop" /\ count'[p] = -1
    BY <1>6 DEF ChunkDoesNotFit, Goto, WritersOK
  <2>2. PlacedOK(p)'
    BY <2>1 DEF PlacedOK
  <2>3. QED
    BY <1>6, <2>2, OthersPlaced, ChunkKept DEF ChunkDoesNotFit, Goto, WritersOK, bufVars
<1>7. ASSUME NEW p \in Producers, StopByte(p) PROVE Placement' /\ ChunkIsUnread'
  <2>1. PlacedOK(p)'
    BY <1>7, StopPlaced
  <2>2. QED
    BY <1>7, <2>1, OthersPlaced, ChunkKept DEF StopByte, WriteEND, Goto, WritersOK
<1>8. ASSUME NEW p \in Producers, Commit(p) PROVE Placement' /\ ChunkIsUnread'
  <2>1. /\ pc[p] = "commit" /\ msg[p] \in Messages
        /\ count[p] \in {-1, Len(Frame(msg[p].data))} /\ count[p] <= Space
    BY <1>8 DEF Commit, MessageInProgress, MessageOK, Placement, PlacedOK, NoOverrun
  <2>2. Len(Frame(msg[p].data)) \in Nat
    BY <2>1, MessageFacts, FrameBytes
  <2>3. ChunkIsUnread'
    BY <1>8, <2>1, <2>2, CommitKeeps
  <2>4. pc'[p] = "release"
    BY <1>8 DEF Commit, Goto, WritersOK
  <2>5. PlacedOK(p)'
    BY <2>4 DEF PlacedOK
  <2>6. QED
    BY <1>8, <2>3, <2>5, OthersPlaced DEF Commit, Goto, WritersOK
<1>9. ASSUME NEW p \in Producers, Release(p) \/ Signal(p) PROVE Placement' /\ ChunkIsUnread'
  <2>1. pc'[p] \in {"idle", "signal"}
    BY <1>9 DEF Release, Signal, Goto, WritersOK
  <2>2. PlacedOK(p)'
    BY <2>1 DEF PlacedOK
  <2>3. QED
    BY <1>9, <2>2, OthersPlaced, ChunkKept DEF Release, Signal, Goto, WritersOK, bufVars
<1>10. ASSUME Pump PROVE Placement' /\ ChunkIsUnread'
  <2>1. UNCHANGED genVars /\ ChunkIsUnread'
    BY <1>10, PumpFrees
  <2>2. QED
    BY <2>1 DEF Placement, PlacedOK, genVars
<1>11. ASSUME UsbChange \/ UNCHANGED vars PROVE Placement' /\ ChunkIsUnread'
  <2>1. UNCHANGED <<head, tail, pumpVars, genVars>>
    BY <1>11 DEF UsbChange, vars, bufVars
  <2>2. QED
    BY <2>1, ChunkKept DEF Placement, PlacedOK, genVars
<1>12. QED
  BY <1>1, <1>2, <1>3, <1>4, <1>5, <1>6, <1>7, <1>8, <1>9, <1>10, <1>11
  DEF Next, Generate

(* The invariant holds as long as no writer overruns. *)
LEMMA PathHolds == Spec /\ []NoOverrun => []PathInv
  BY PathInit, PathStep, PTL DEF Spec

(* The driver is only ever handed committed bytes that nobody overwrites   *)
(* or takes, although the pump reads them without the write lock.          *)
THEOREM ChunkStaysUnread == Spec /\ []NoOverrun => []ChunkIsUnread
<1>1. PathInv => ChunkIsUnread
  BY DEF PathInv
<1>2. QED
  BY <1>1, PathHolds, PTL

(* Only the encoder writes to the region, and as long as it does not       *)
(* overrun no further behind head than the cell that is always empty.      *)
LEMMA MemWrites ==
  ASSUME PathInv, NoOverrun', [Next]_vars, mem' # mem, head # tail
  PROVE  /\ head' = head /\ tail' = tail
         /\ \E c \in Nat, s \in Seq(Byte) :
              c + Len(s) <= Space + 1 /\ Puts(mem, mem', head, c, s)
<1> USE DEF PathInv, TypeInv, TypeOK
<1> DEFINE Written(c, s) == c + Len(s) <= Space + 1 /\ Puts(mem, mem', head, c, s)
<1>1. <<SLIP_END>> \in Seq(Byte) /\ Len(<<SLIP_END>>) = 1 /\ Space \in 0 .. (Size - 1)
  BY TxAssumption, SpaceFacts DEF Reserved
<1>2. ASSUME NEW p \in Producers, StartByte(p)
      PROVE  head' = head /\ tail' = tail /\ \E c \in Nat, s \in Seq(Byte) : Written(c, s)
  <2>1. head' = head /\ tail' = tail
    BY <1>2 DEF StartByte
  <2>2. Puts(mem, mem', head, 0, <<SLIP_END>>)
    BY <1>2, StartPlaced
  <2>3. Written(0, <<SLIP_END>>)
    BY <1>1, <2>2
  <2>4. QED
    BY <1>1, <2>1, <2>3
<1>3. ASSUME NEW p \in Producers, WriteByte(p)
      PROVE  head' = head /\ tail' = tail /\ \E c \in Nat, s \in Seq(Byte) : Written(c, s)
  <2> DEFINE x == Encode(msg[p].data[pos[p] + 1])
  <2>1. head' = head /\ tail' = tail /\ pc[p] = "byte" /\ Space' = Space
    BY <1>3 DEF WriteByte, Space
  <2>2. x \in Seq(Byte) /\ Len(x) \in {1, 2}
    BY <2>1, ByteFacts, EncodeBytes
  <2>3. /\ count[p] \in Nat /\ count'[p] = count[p] + Len(x)
        /\ count'[p] <= Size => Puts(mem, mem', head, count[p], x)
    BY <1>3, BytePlaced
  <2>4. pc'[p] \in {"chunk", "byte", "stop"}
    BY <1>3 DEF WriteByte, Goto, WritersOK
  <2>5. count'[p] <= Space + 1
    BY <2>1, <2>4 DEF NoOverrun
  <2> HIDE DEF x
  <2>6. count'[p] <= Size
    BY <1>1, <2>2, <2>3, <2>5, SizePositive
  <2>7. Written(count[p], x)
    BY <2>3, <2>5, <2>6
  <2>8. QED
    BY <2>1, <2>2, <2>3, <2>7
<1>4. ASSUME NEW p \in Producers, StopByte(p)
      PROVE  head' = head /\ tail' = tail /\ \E c \in Nat, s \in Seq(Byte) : Written(c, s)
  <2>1. head' = head /\ tail' = tail /\ Space' = Space /\ pc'[p] = "commit"
    BY <1>4 DEF StopByte, Space, Goto, WritersOK
  <2>2. /\ count[p] \in Nat /\ count'[p] = count[p] + 1
        /\ count'[p] <= Size => Puts(mem, mem', head, count[p], <<SLIP_END>>)
    BY <1>4, StopPlaced
  <2>3. count'[p] <= Space
    BY <2>1 DEF NoOverrun
  <2>4. count'[p] <= Size
    BY <1>1, <2>2, <2>3, SizePositive
  <2>5. Written(count[p], <<SLIP_END>>)
    BY <1>1, <2>2, <2>3, <2>4
  <2>6. QED
    BY <1>1, <2>1, <2>2, <2>5
<1>5. \E p \in Producers : StartByte(p) \/ WriteByte(p) \/ StopByte(p)
  <2>1. ~ (Pump \/ UsbChange \/ UNCHANGED vars)
    BY DEF Pump, PumpWake, PumpStart, PumpClaimUsb, PumpLoop, SendByte, SendAborted,
           SendDone, PumpReread, PumpCheckActive, UsbChange, vars, bufVars
  <2>2. \A p \in Producers : ~ ((\E m \in Messages : Request(p, m)) \/ Claim(p))
    BY DEF Request, Claim, bufVars
  <2>3. \A p \in Producers :
          ~ (CheckBestCase(p) \/ BeginChunk(p) \/ ChunkDoesNotFit(p) \/ Commit(p)
             \/ Release(p) \/ Signal(p))
    BY DEF CheckBestCase, BeginChunk, ChunkDoesNotFit, Commit, Release, Signal, bufVars
  <2>4. QED
    BY <2>1, <2>2, <2>3 DEF Next, Generate
<1>6. QED
  BY <1>2, <1>3, <1>4, <1>5

(* A byte that waits to be transmitted is not written to. *)
LEMMA UnreadKept ==
  ASSUME PathInv, NoOverrun', [Next]_vars, NEW i \in Index, IsUnread(i, head, tail)
  PROVE  mem'[i] = mem[i]
<1>1. SUFFICES ASSUME mem' # mem
               PROVE  mem'[i] = mem[i]
  OBVIOUS
<1>2. head \in Index /\ tail \in Index /\ Space \in Int
  BY SpaceFacts DEF PathInv, TypeInv, TypeOK, BufferOK
<1>3. head # tail
  <2>1. SUFFICES ASSUME head = tail PROVE FALSE
    OBVIOUS
  <2>2. Unread(head, tail) = 0
    BY <1>2, <2>1, UnreadValue, SizePositive DEF Index
  <2>3. Mask(i + Size - tail) \in Index
    BY <1>2, MaskInIndex, SizePositive DEF Index
  <2>4. QED
    BY <2>2, <2>3 DEF IsUnread, Index
<1>4. PICK c \in Nat, s \in Seq(Byte) : c + Len(s) <= Space + 1 /\ Puts(mem, mem', head, c, s)
  BY <1>1, <1>3, MemWrites
<1>5. Len(s) \in Nat
  BY LenProperties
<1>6. ASSUME NEW k \in Nat, c <= k, k < c + Len(s) PROVE i # Mask(head + k)
  <2>1. k <= SpaceLeft(head, tail)
    BY <1>2, <1>4, <1>5, <1>6 DEF Space
  <2>2. QED
    BY <1>2, <2>1, FreeCell
<1>7. QED
  BY <1>4, <1>6 DEF Puts

(* No step overwrites a byte that waits to be transmitted. *)
THEOREM UnreadIsStable == Spec /\ []NoOverrun => UnreadStable
<1>1. PathInv /\ NoOverrun' /\ [Next]_vars =>
        [\A i \in Index :
           IsUnread(i, head, tail) /\ IsUnread(i, head', tail') => mem'[i] = mem[i]]_vars
  BY UnreadKept
<1>2. QED
  BY <1>1, PathHolds, PTL DEF Spec, UnreadStable

-----------------------------------------------------------------------------
(* The transmit path is a queue of whole frames. *)

(* The cells of m from h on hold s. *)
Holds(m, h, s) == \A k \in Nat : k < Len(s) => m[Mask(h + k)] = s[k + 1]

(* Writing behind what was written adds to it. *)
LEMMA WritesAdd ==
  ASSUME NEW m1, NEW m2, NEW h \in Index, NEW r \in Seq(Byte), NEW s \in Seq(Byte),
         Len(r) + Len(s) <= Size, Holds(m1, h, r), Puts(m1, m2, h, Len(r), s)
  PROVE  Holds(m2, h, r \o s)
<1>1. Len(r) \in Nat /\ Len(s) \in Nat
  BY LenProperties
<1>2. /\ Len(r \o s) = Len(r) + Len(s)
      /\ \A i \in 1 .. (Len(r) + Len(s)) : (r \o s)[i] = IF i <= Len(r) THEN r[i] ELSE s[i - Len(r)]
  BY ConcatProperties
<1>3. ASSUME NEW k \in Nat, k < Len(r) + Len(s)
      PROVE  m2[Mask(h + k)] = (r \o s)[k + 1]
  <2>1. k + 1 \in 1 .. (Len(r) + Len(s)) /\ k \in 0 .. (Size - 1)
    BY <1>1, <1>3, SizePositive
  <2>2. CASE k < Len(r)
    <3>1. (r \o s)[k + 1] = r[k + 1] /\ m1[Mask(h + k)] = r[k + 1]
      BY <1>1, <1>2, <2>1, <2>2 DEF Holds
    <3>2. Mask(h + k) \in Index
      BY <2>1, MaskAdd
    <3>3. ASSUME NEW j \in Nat, Len(r) <= j, j < Len(r) + Len(s) PROVE Mask(h + k) # Mask(h + j)
      <4>1. j \in 0 .. (Size - 1) /\ k # j
        BY <1>1, <2>2, <3>3, SizePositive
      <4>2. QED
        BY <2>1, <4>1, CellsDiffer
    <3>4. QED
      BY <3>1, <3>2, <3>3 DEF Puts
  <2>3. CASE ~(k < Len(r))
    <3>1. (r \o s)[k + 1] = s[(k + 1) - Len(r)] /\ (k + 1) - Len(r) = k - Len(r) + 1
      BY <1>1, <1>2, <2>1, <2>3
    <3>2. m2[Mask(h + k)] = s[k - Len(r) + 1]
      BY <1>1, <1>3, <2>3 DEF Puts
    <3>3. QED
      BY <3>1, <3>2
  <2>4. QED
    BY <2>2, <2>3
<1>4. QED
  BY <1>2, <1>3 DEF Holds

(* What a writer has put behind head so far, unless it was given up or has *)
(* gone round the region: a frame, but for the bytes it has not come to.   *)
WrittenOK(p) ==
  count[p] # -1 /\ count[p] <= Size =>
    /\ pc[p] \in {"chunk", "byte", "stop"} =>
         Holds(mem, head, <<SLIP_END>> \o Stuffed(msg[p].data, pos[p]))
    /\ pc[p] = "commit" => Holds(mem, head, Frame(msg[p].data))

FrameWritten == \A p \in Producers : WrittenOK(p)

(* Only the owner of the lock is asked what it has written. *)
LEMMA OnlyWriter ==
  ASSUME PathInv, NEW p \in Producers, pc[p] \in Writing, pc' = [pc EXCEPT ![p] = pc'[p]],
         WrittenOK(p)'
  PROVE  FrameWritten'
<1>1. ASSUME NEW q \in Producers, q # p PROVE WrittenOK(q)'
  <2>1. pc'[q] \notin Writing
    BY <1>1 DEF PathInv, WriterOwnsLock, TypeInv, TypeOK, WritersOK
  <2>2. QED
    BY <2>1 DEF WrittenOK, Writing
<1>2. QED
  BY <1>1 DEF FrameWritten

LEMMA WrittenInit == Init => FrameWritten
  BY DEF Init, FrameWritten, WrittenOK

LEMMA StartWritten ==
  ASSUME PathInv, NEW p \in Producers, StartByte(p)
  PROVE  WrittenOK(p)'
<1> USE DEF PathInv, TypeInv, TypeOK
<1> DEFINE e == <<SLIP_END>>
<1>1. SUFFICES ASSUME count'[p] # -1
               PROVE  WrittenOK(p)'
  BY DEF WrittenOK
<1>2. Puts(mem, mem', head, 0, e)
  BY <1>1, StartPlaced
<1>3. pos[p] = 0 /\ pc'[p] = "chunk" /\ pos' = pos /\ head' = head
  BY DEF StartByte, Goto, WritersOK, MessageInProgress, MessageOK
<1>4. e \in Seq(Byte) /\ Len(e) = 1 /\ <<>> \in Seq(Byte) /\ Len(<<>>) = 0
  BY TxAssumption DEF Reserved
<1> HIDE DEF e
<1>5. Holds(mem, head, <<>>)
  BY <1>4 DEF Holds
<1>6. Len(<<>>) + Len(e) <= Size
  BY <1>4, SizePositive
<1>7. Holds(mem', head, <<>> \o e)
  BY <1>2, <1>4, <1>5, <1>6, WritesAdd DEF BufferOK
<1>8. <<>> \o e = e \o Stuffed(msg'[p].data, 0)
  BY <1>4, StuffedEmpty, ConcatEmptySeq
<1>9. Holds(mem', head', e \o Stuffed(msg'[p].data, pos'[p]))
  BY <1>3, <1>7, <1>8
<1>10. QED
  BY <1>3, <1>9 DEF WrittenOK, e

LEMMA ByteWritten ==
  ASSUME PathInv, FrameWritten, NEW p \in Producers, WriteByte(p)
  PROVE  WrittenOK(p)'
<1> USE DEF PathInv, TypeInv, TypeOK
<1> DEFINE e == <<SLIP_END>>
           d == msg[p].data
           s == Stuffed(d, pos[p])
           x == Encode(d[pos[p] + 1])
<1>1. SUFFICES ASSUME count'[p] <= Size
               PROVE  WrittenOK(p)'
  BY DEF WrittenOK
<1>2. /\ pc[p] = "byte"
      /\ d \in Seq(Byte) /\ pos[p] \in Nat /\ pos[p] < Len(d) /\ Len(d) \in Nat
      /\ d[pos[p] + 1] \in Byte
      /\ count[p] = Len(s) + 1 /\ Len(s) \in Nat
  BY ByteFacts DEF WriteByte
<1>3. /\ Puts(mem, mem', head, count[p], x)
      /\ count[p] \in Nat /\ count'[p] = count[p] + Len(x)
  BY <1>1, BytePlaced
<1>4. e \in Seq(Byte) /\ Len(e) = 1 /\ s \in Seq(Byte) /\ x \in Seq(Byte) /\ Len(x) \in Nat
  <2>1. e \in Seq(Byte) /\ Len(e) = 1
    BY TxAssumption DEF Reserved
  <2>2. s \in Seq(Byte)
    BY <1>2, StuffedBytes
  <2>3. x \in Seq(Byte) /\ Len(x) \in Nat
    BY <1>2, EncodeBytes
  <2>4. QED
    BY <2>1, <2>2, <2>3
<1>5. Holds(mem, head, e \o s)
  <2>1. count[p] # -1 /\ count[p] <= Size
    <3> HIDE DEF x
    <3>1. QED
      BY <1>1, <1>3, <1>4, SizePositive
  <2>2. QED
    BY <1>2, <2>1 DEF FrameWritten, WrittenOK
<1>6. Stuffed(d, pos[p] + 1) = s \o x
  BY <1>2, StuffedNext
<1>7. /\ pos'[p] = pos[p] + 1 /\ msg' = msg /\ head' = head
      /\ pc'[p] \in {"byte", "chunk", "stop"}
  BY DEF WriteByte, Goto, WritersOK
<1> HIDE DEF e, s, x
<1>8. e \o s \in Seq(Byte) /\ Len(e \o s) = count[p]
  <2>1. e \o s \in Seq(Byte) /\ Len(e \o s) = Len(e) + Len(s)
    BY <1>4, ConcatProperties
  <2>2. QED
    BY <1>2, <1>4, <2>1
<1>9. Len(e \o s) + Len(x) <= Size /\ head \in Index
  BY <1>1, <1>3, <1>8 DEF BufferOK
<1>10. Holds(mem', head, (e \o s) \o x)
  BY <1>3, <1>4, <1>5, <1>8, <1>9, WritesAdd
<1>11. (e \o s) \o x = e \o Stuffed(d, pos[p] + 1)
  <2>1. (e \o s) \o x = e \o (s \o x)
    BY <1>4, ConcatAssociative
  <2>2. QED
    BY <1>6, <2>1
<1>12. Holds(mem', head', e \o Stuffed(msg'[p].data, pos'[p]))
  BY <1>7, <1>10, <1>11
<1>13. QED
  BY <1>7, <1>12 DEF WrittenOK, e

LEMMA StopWritten ==
  ASSUME PathInv, FrameWritten, NEW p \in Producers, StopByte(p)
  PROVE  WrittenOK(p)'
<1> USE DEF PathInv, TypeInv, TypeOK
<1> DEFINE e == <<SLIP_END>>
           d == msg[p].data
           s == Stuffed(d, Len(d))
<1>1. SUFFICES ASSUME count'[p] # -1, count'[p] <= Size
               PROVE  WrittenOK(p)'
  BY DEF WrittenOK
<1>2. /\ count[p] \in Nat /\ count'[p] = count[p] + 1
      /\ pos[p] = Len(d) /\ count[p] = Len(Frame(d)) - 1
      /\ Puts(mem, mem', head, count[p], e)
  BY <1>1, StopPlaced
<1>3. pc[p] = "stop" /\ d \in Seq(Byte) /\ Len(d) \in Nat
  BY MessageFacts DEF StopByte, MessageInProgress, MessageOK
<1>4. /\ Frame(d) = (e \o s) \o e /\ Len(Frame(d)) = Len(s) + 2
      /\ s \in Seq(Byte) /\ Len(s) \in Nat
  <2>1. Frame(d) = (e \o s) \o e /\ Len(Frame(d)) = Len(s) + 2
    BY <1>3, FrameBytes
  <2>2. Len(d) <= Len(d)
    BY <1>3
  <2>3. s \in Seq(Byte) /\ Len(s) \in Nat
    BY <1>3, <2>2, StuffedBytes
  <2>4. QED
    BY <2>1, <2>3
<1>5. e \in Seq(Byte) /\ Len(e) = 1
  BY TxAssumption DEF Reserved
<1>6. Holds(mem, head, e \o s)
  <2>1. count[p] # -1 /\ count[p] <= Size
    BY <1>1, <1>2, SizePositive
  <2>2. QED
    BY <1>2, <1>3, <2>1 DEF FrameWritten, WrittenOK
<1>7. msg' = msg /\ head' = head /\ pc'[p] = "commit"
  BY DEF StopByte, Goto, WritersOK
<1> HIDE DEF e, s
<1>8. e \o s \in Seq(Byte) /\ Len(e \o s) = count[p]
  BY <1>2, <1>4, <1>5, ConcatProperties
<1>9. Len(e \o s) + Len(e) <= Size /\ head \in Index
  BY <1>1, <1>2, <1>5, <1>8 DEF BufferOK
<1>10. Holds(mem', head, (e \o s) \o e)
  BY <1>2, <1>5, <1>6, <1>8, <1>9, WritesAdd
<1>11. Holds(mem', head', Frame(msg'[p].data))
  BY <1>4, <1>7, <1>10
<1>12. QED
  BY <1>7, <1>11 DEF WrittenOK

LEMMA WrittenStep ==
  ASSUME PathInv, FrameWritten, [Next]_vars
  PROVE  FrameWritten'
<1> USE DEF PathInv, TypeInv, TypeOK
<1>1. ASSUME NEW p \in Producers, (\E m \in Messages : Request(p, m)) \/ Claim(p)
      PROVE  FrameWritten'
  <2>1. pc'[p] \in {"claim", "check"} /\ UNCHANGED <<head, mem, pos, count>>
    BY <1>1 DEF Request, Claim, Goto, WritersOK, bufVars
  <2>2. \A q \in Producers \ {p} : pc'[q] = pc[q] /\ msg'[q] = msg[q]
    BY <1>1 DEF Request, Claim, Goto, WritersOK
  <2>3. ASSUME NEW q \in Producers PROVE WrittenOK(q)'
    BY <2>1, <2>2 DEF WrittenOK, FrameWritten
  <2>4. QED
    BY <2>3 DEF FrameWritten
<1>2. ASSUME NEW p \in Producers, Signal(p)
      PROVE  FrameWritten'
  <2>1. pc'[p] = "idle" /\ UNCHANGED <<head, mem, pos, msg, count>>
    BY <1>2 DEF Signal, Goto, WritersOK, bufVars
  <2>2. \A q \in Producers \ {p} : pc'[q] = pc[q]
    BY <1>2 DEF Signal, Goto, WritersOK
  <2>3. ASSUME NEW q \in Producers PROVE WrittenOK(q)'
    BY <2>1, <2>2 DEF WrittenOK, FrameWritten
  <2>4. QED
    BY <2>3 DEF FrameWritten
<1>3. ASSUME NEW p \in Producers, CheckBestCase(p) \/ ChunkDoesNotFit(p) \/ Commit(p) \/ Release(p)
      PROVE  FrameWritten'
  <2>1. /\ pc'[p] \notin {"chunk", "byte", "stop", "commit"} \/ count'[p] = -1
        /\ pc[p] \in Writing
    BY <1>3 DEF CheckBestCase, ChunkDoesNotFit, Commit, Release, Goto, WritersOK, Writing
  <2>2. WrittenOK(p)'
    BY <2>1 DEF WrittenOK
  <2>3. pc' = [pc EXCEPT ![p] = pc'[p]]
    BY <1>3 DEF CheckBestCase, ChunkDoesNotFit, Commit, Release, Goto, WritersOK
  <2>4. QED
    BY <2>1, <2>2, <2>3, OnlyWriter
<1>4. ASSUME NEW p \in Producers, BeginChunk(p)
      PROVE  FrameWritten'
  <2>1. /\ pc[p] = "chunk" /\ UNCHANGED <<head, mem, pos, msg, count>>
        /\ pc'[p] = "byte" \/ (pc'[p] = "stop" /\ ~(count[p] >= 0))
        /\ pc' = [pc EXCEPT ![p] = pc'[p]]
    BY <1>4 DEF BeginChunk, Goto, bufVars, WritersOK
  <2>2. WrittenOK(p) /\ pc[p] \in Writing
    BY <2>1 DEF FrameWritten, Writing
  <2>3. WrittenOK(p)'
    BY <2>1, <2>2 DEF WrittenOK
  <2>4. QED
    BY <2>1, <2>2, <2>3, OnlyWriter
<1>5. ASSUME NEW p \in Producers, StartByte(p) \/ WriteByte(p) \/ StopByte(p)
      PROVE  FrameWritten'
  <2>1. pc[p] \in Writing /\ pc' = [pc EXCEPT ![p] = pc'[p]]
    BY <1>5 DEF StartByte, WriteByte, StopByte, Goto, WritersOK, Writing
  <2>2. WrittenOK(p)'
    BY <1>5, StartWritten, ByteWritten, StopWritten
  <2>3. QED
    BY <2>1, <2>2, OnlyWriter
<1>6. ASSUME Pump \/ UsbChange \/ UNCHANGED vars
      PROVE  FrameWritten'
  <2>1. UNCHANGED <<head, mem, genVars>>
    BY <1>6 DEF Pump, PumpWake, PumpStart, PumpClaimUsb, PumpLoop, SendByte, SendAborted,
           SendDone, PumpReread, PumpCheckActive, UsbChange, vars, bufVars
  <2>2. QED
    BY <2>1 DEF FrameWritten, WrittenOK, genVars
<1>7. QED
  BY <1>1, <1>2, <1>3, <1>4, <1>5, <1>6 DEF Next, Generate

(* How many bytes wait once s of them have been taken, the wrap included. *)
LEMMA WaitingValue ==
  ASSUME NEW h \in Index, NEW t \in Index, NEW s \in Nat, s <= Unread(h, t)
  PROVE  Mask(h + Size - t - s) = Unread(h, t) - s
<1>1. /\ Unread(h, t) = IF h < t THEN h + Size - t ELSE h - t
      /\ Unread(h, t) \in 0 .. (Size - 1)
  BY UnreadValue
<1>2. CASE h < t
  <2>1. h + Size - t - s \in 0 .. (Size - 1)
    BY <1>1, <1>2, SizePositive DEF Index
  <2>2. Mask(h + Size - t - s) = h + Size - t - s
    BY <2>1, MaskLow
  <2>3. QED
    BY <1>1, <1>2, <2>2, SizePositive DEF Index
<1>3. CASE ~(h < t)
  <2>1. h + Size - t - s \in Size .. (2 * Size - 1)
    BY <1>1, <1>3, SizePositive DEF Index
  <2>2. QED
    BY <1>1, <1>3, <2>1, MaskHigh, SizePositive DEF Index
<1>4. QED
  BY <1>2, <1>3

(* The cells the queue is read from are unread. *)
LEMMA WaitingCell ==
  ASSUME NEW h \in Index, NEW t \in Index, NEW k \in Nat, k < Unread(h, t)
  PROVE  Mask(t + k) \in Index /\ IsUnread(Mask(t + k), h, t)
<1>1. k \in 0 .. (Size - 1)
  BY UnreadValue, SizePositive
<1>2. /\ Mask(t + k) = IF t + k < Size THEN t + k ELSE t + k - Size
      /\ Mask(t + k) \in Index
  BY <1>1, MaskAdd
<1>3. Mask(Mask(t + k) + Size - t) = k
  <2>1. CASE t + k < Size
    <3>1. Mask(t + k) + Size - t = k + Size /\ k + Size \in Size .. (2 * Size - 1)
      BY <1>1, <1>2, <2>1, SizePositive DEF Index
    <3>2. QED
      BY <1>1, <3>1, MaskHigh, SizePositive
  <2>2. CASE ~(t + k < Size)
    <3>1. Mask(t + k) + Size - t = k
      BY <1>1, <1>2, <2>2, SizePositive DEF Index
    <3>2. QED
      BY <1>1, <3>1, MaskLow
  <2>3. QED
    BY <2>1, <2>2
<1>4. QED
  BY <1>2, <1>3 DEF IsUnread

(* The queue, without the remainder in its length. *)
LEMMA QueueValue ==
  ASSUME PathInv
  PROVE  /\ sent \in Nat /\ sent <= Unread(head, tail)
         /\ Unread(head, tail) - sent \in 0 .. (Size - 1)
         /\ Queue = [i \in 1 .. (Unread(head, tail) - sent) |-> mem[Mask(tail + sent + i - 1)]]
         /\ Queue \in Seq(Byte \cup {NONE})
<1> USE DEF PathInv, TypeInv, TypeOK
<1>1. sent \in Nat /\ readSize \in Nat /\ head \in Index /\ tail \in Index
  BY DEF PumpOK, BufferOK
<1>2. Unread(head, tail) \in 0 .. (Size - 1)
  BY <1>1, UnreadValue
<1>3. sent <= Unread(head, tail)
  BY <1>1, <1>2 DEF ChunkInBounds, ChunkIsUnread
<1>4. Unread(head, tail) - sent \in 0 .. (Size - 1)
  BY <1>1, <1>2, <1>3, SizePositive
<1>5. Queue = [i \in 1 .. (Unread(head, tail) - sent) |-> mem[Mask(tail + sent + i - 1)]]
  BY <1>1, <1>3, WaitingValue DEF Queue
<1>6. ASSUME NEW i \in 1 .. (Unread(head, tail) - sent)
      PROVE  mem[Mask(tail + sent + i - 1)] \in Byte \cup {NONE}
  <2>1. sent + i - 1 \in Nat /\ sent + i - 1 < Unread(head, tail)
    BY <1>1, <1>2, <1>4
  <2>2. tail + (sent + i - 1) = tail + sent + i - 1
    BY <1>1, <1>4, SizePositive DEF Index
  <2>3. Mask(tail + sent + i - 1) \in Index
    BY <1>1, <2>1, <2>2, WaitingCell
  <2>4. QED
    BY <2>3 DEF BufferOK
<1>7. Queue \in Seq(Byte \cup {NONE})
  BY <1>4, <1>5, <1>6
<1>8. QED
  BY <1>1, <1>3, <1>4, <1>5, <1>7

(* The empty queue. *)
LEMMA FifoInit == Init => Fifo!Init
<1> SUFFICES ASSUME Init PROVE Queue = <<>>
  BY DEF Init, Fifo!Init
<1>1. Unread(head, tail) = 0 /\ sent = 0 /\ PathInv
  BY PathInit, UnreadValue, SizePositive DEF Init, Index
<1>2. Queue = [i \in 1 .. 0 |-> mem[Mask(tail + sent + i - 1)]]
  BY <1>1, QueueValue
<1>3. QED
  BY <1>2

(* Encoding behind head does not show. *)
LEMMA WritingHidden ==
  ASSUME PathInv, NoOverrun', [Next]_vars, UNCHANGED <<head, tail, sent>>
  PROVE  Queue' = Queue
<1> USE DEF PathInv, TypeInv, TypeOK
<1> DEFINE w == Unread(head, tail) - sent
<1>1. /\ w \in 0 .. (Size - 1) /\ sent \in Nat /\ tail \in Index /\ head \in Index
      /\ Queue = [i \in 1 .. w |-> mem[Mask(tail + sent + i - 1)]]
  BY QueueValue DEF BufferOK
<1>2. Queue' = [i \in 1 .. w |-> mem'[Mask(tail + sent + i - 1)]]
  BY <1>1, QueueValue, WaitingValue DEF Queue
<1>3. ASSUME NEW i \in 1 .. w
      PROVE  mem'[Mask(tail + sent + i - 1)] = mem[Mask(tail + sent + i - 1)]
  <2>1. sent + i - 1 \in Nat /\ sent + i - 1 < Unread(head, tail)
    BY <1>1, UnreadValue
  <2>2. tail + (sent + i - 1) = tail + sent + i - 1
    BY <1>1, SizePositive DEF Index
  <2>3. /\ Mask(tail + sent + i - 1) \in Index
        /\ IsUnread(Mask(tail + sent + i - 1), head, tail)
    BY <1>1, <2>1, <2>2, WaitingCell
  <2>4. QED
    BY <2>3, UnreadKept
<1>4. QED
  BY <1>1, <1>2, <1>3

(* The driver takes the oldest byte. *)
LEMMA SendByteTransmits == PathInv /\ SendByte => Fifo!Transmit
<1> SUFFICES ASSUME PathInv, SendByte PROVE Fifo!Transmit
  OBVIOUS
<1> USE DEF PathInv, TypeInv, TypeOK
<1> DEFINE w == Unread(head, tail) - sent
<1>1. /\ w \in 0 .. (Size - 1) /\ sent \in Nat /\ tail \in Index /\ head \in Index
      /\ Queue = [i \in 1 .. w |-> mem[Mask(tail + sent + i - 1)]]
      /\ Queue \in Seq(Byte \cup {NONE}) /\ Len(Queue) = w
  BY QueueValue DEF BufferOK
<1>2. /\ readPtr = tail /\ readPtr + readSize <= Size /\ readSize <= Unread(head, tail)
      /\ sent < readSize /\ readSize \in Nat
  BY DEF SendByte, ChunkIsUnread, PumpOK
<1>3. sent + 1 \in Nat /\ sent + 1 <= Unread(head, tail) /\ w - 1 \in Nat
  BY <1>1, <1>2, UnreadValue
<1>4. /\ wire' = mem[readPtr + sent] /\ sent' = sent + 1
      /\ UNCHANGED <<head, tail, mem, usbActive>>
  BY DEF SendByte, bufVars, usbVars
<1>5. Queue' = [i \in 1 .. (w - 1) |-> mem[Mask(tail + (sent + 1) + i - 1)]]
  <2>1. Mask(head + Size - tail - (sent + 1)) = Unread(head, tail) - (sent + 1)
    BY <1>1, <1>3, WaitingValue
  <2>2. Unread(head, tail) - (sent + 1) = w - 1
    BY <1>1, <1>3, UnreadValue
  <2>3. QED
    BY <1>4, <2>1, <2>2 DEF Queue
<1>6. Tail(Queue) = [i \in 1 .. (w - 1) |-> Queue[i + 1]]
  BY <1>1, <1>3
<1>7. ASSUME NEW i \in 1 .. (w - 1)
      PROVE  Queue[i + 1] = mem[Mask(tail + (sent + 1) + i - 1)]
  <2>1. i + 1 \in 1 .. w /\ tail + sent + (i + 1) - 1 = tail + (sent + 1) + i - 1
    BY <1>1, <1>3, SizePositive DEF Index
  <2>2. QED
    BY <1>1, <2>1
<1>8. Queue' = Tail(Queue)
  BY <1>5, <1>6, <1>7
<1>9. Head(Queue) = mem[readPtr + sent]
  <2>1. 1 \in 1 .. w /\ tail + sent + 1 - 1 = tail + sent
    BY <1>1, <1>3, SizePositive DEF Index
  <2>2. Mask(tail + sent) = tail + sent
    <3>1. tail + sent \in 0 .. (Size - 1)
      BY <1>1, <1>2, SizePositive DEF Index
    <3>2. QED
      BY <3>1, MaskLow
  <2>3. Queue[1] = mem[tail + sent]
    BY <1>1, <2>1, <2>2
  <2>4. QED
    BY <1>1, <1>2, <2>3
<1>10. Queue # <<>>
  BY <1>1, <1>3
<1>11. QED
  BY <1>4, <1>8, <1>9, <1>10 DEF Fifo!Transmit

(* A host that left takes the rest of the chunk with it. *)
LEMMA AbortLoses == PathInv /\ SendAborted => Fifo!Lose
<1> SUFFICES ASSUME PathInv, SendAborted PROVE Fifo!Lose
  OBVIOUS
<1> USE DEF PathInv, TypeInv, TypeOK
<1> DEFINE w == Unread(head, tail) - sent
           n == readSize - sent
<1>1. /\ w \in 0 .. (Size - 1) /\ sent \in Nat /\ tail \in Index /\ head \in Index
      /\ Queue = [i \in 1 .. w |-> mem[Mask(tail + sent + i - 1)]]
      /\ Queue \in Seq(Byte \cup {NONE}) /\ Len(Queue) = w
  BY QueueValue DEF BufferOK
<1>2. sent < readSize /\ readSize \in Nat /\ readSize <= Unread(head, tail)
  BY DEF SendAborted, ChunkIsUnread, PumpOK
<1>3. n \in 1 .. w /\ w - n = Unread(head, tail) - readSize
  BY <1>1, <1>2, UnreadValue
<1>4. /\ sent' = readSize /\ IsUsb /\ ~usbActive
      /\ UNCHANGED <<head, tail, mem, usbActive, wire>>
  BY DEF SendAborted, bufVars, usbVars
<1>5. Queue' = [i \in 1 .. (w - n) |-> mem[Mask(tail + readSize + i - 1)]]
  <2>1. Mask(head + Size - tail - readSize) = Unread(head, tail) - readSize
    BY <1>1, <1>2, WaitingValue
  <2>2. QED
    BY <1>3, <1>4, <2>1 DEF Queue
<1>6. SubSeq(Queue, n + 1, Len(Queue)) = [i \in 1 .. (w - n) |-> Queue[n + i]]
  <2>1. n \in Nat /\ w \in Nat /\ n + 1 \in Nat /\ w - (n + 1) + 1 = w - n
    BY <1>1, <1>3
  <2> HIDE DEF w, n
  <2>2. SubSeq(Queue, n + 1, w) = [i \in 1 .. (w - (n + 1) + 1) |-> Queue[n + 1 + i - 1]]
    BY <1>1, <1>3, <2>1
  <2>3. \A i \in 1 .. (w - n) : n + 1 + i - 1 = n + i
    BY <2>1
  <2>4. QED
    BY <1>1, <2>1, <2>2, <2>3
<1>7. ASSUME NEW i \in 1 .. (w - n)
      PROVE  Queue[n + i] = mem[Mask(tail + readSize + i - 1)]
  <2>1. n + i \in 1 .. w /\ tail + sent + (n + i) - 1 = tail + readSize + i - 1
    BY <1>1, <1>2, <1>3, SizePositive DEF Index
  <2>2. QED
    BY <1>1, <2>1
<1>8. Queue' = SubSeq(Queue, n + 1, Len(Queue))
  BY <1>5, <1>6, <1>7
<1>9. n \in 1 .. Len(Queue)
  BY <1>1, <1>3
<1>10. QED
  BY <1>4, <1>8, <1>9 DEF Fifo!Lose

(* Moving tail over what the driver has taken does not show. *)
LEMMA SendDoneHidden == PathInv /\ SendDone => Queue' = Queue
<1> SUFFICES ASSUME PathInv, SendDone PROVE Queue' = Queue
  OBVIOUS
<1> USE DEF PathInv, TypeInv, TypeOK
<1> DEFINE w == Unread(head, tail) - sent
<1>1. /\ w \in 0 .. (Size - 1) /\ sent \in Nat /\ tail \in Index /\ head \in Index
      /\ Queue = [i \in 1 .. w |-> mem[Mask(tail + sent + i - 1)]]
      /\ sent <= Unread(head, tail)
  BY QueueValue DEF BufferOK
<1>2. /\ sent = readSize /\ tail' = Mask(tail + sent) /\ sent' = 0
      /\ UNCHANGED <<head, mem>>
  BY DEF SendDone
<1>3. Mask(tail + sent) \in Index /\ Unread(head, Mask(tail + sent)) = w
  BY <1>1, AdvanceTail
<1>4. Queue' = [i \in 1 .. w |-> mem[Mask(Mask(tail + sent) + i - 1)]]
  <2>1. Mask(head + Size - Mask(tail + sent) - 0) = Unread(head, Mask(tail + sent)) - 0
    BY <1>1, <1>3, WaitingValue
  <2>2. /\ Unread(head, Mask(tail + sent)) - 0 = w
        /\ \A i \in 1 .. w : Mask(tail + sent) + 0 + i - 1 = Mask(tail + sent) + i - 1
    BY <1>1, <1>3, SizePositive DEF Index
  <2>3. QED
    BY <1>2, <2>1, <2>2 DEF Queue
<1>5. ASSUME NEW i \in 1 .. w
      PROVE  Mask(Mask(tail + sent) + i - 1) = Mask(tail + sent + i - 1)
  <2>1. /\ sent + i - 1 \in 0 .. (Size - 1) /\ i - 1 \in 0 .. (Size - 1)
        /\ sent \in 0 .. (Size - 1)
    BY <1>1, UnreadValue, SizePositive
  <2>2. tail + (sent + i - 1) = tail + sent + i - 1
        /\ Mask(tail + sent) + (i - 1) = Mask(tail + sent) + i - 1
    BY <1>1, <1>3, SizePositive DEF Index
  <2>3. Mask(tail + sent) = IF tail + sent < Size THEN tail + sent ELSE tail + sent - Size
    BY <1>1, <2>1, MaskAdd
  <2>4. Mask(tail + sent + i - 1) =
          IF tail + sent + i - 1 < Size THEN tail + sent + i - 1 ELSE tail + sent + i - 1 - Size
    <3> DEFINE c == sent + i - 1
    <3>1. c \in 0 .. (Size - 1) /\ tail + c = tail + sent + i - 1
      BY <2>1, <2>2
    <3> HIDE DEF c
    <3>2. Mask(tail + c) = IF tail + c < Size THEN tail + c ELSE tail + c - Size
      BY <1>1, <3>1, MaskAdd
    <3>3. QED
      BY <1>1, <3>1, <3>2, SizePositive DEF Index
  <2>5. Mask(Mask(tail + sent) + i - 1) =
          IF Mask(tail + sent) + i - 1 < Size THEN Mask(tail + sent) + i - 1
          ELSE Mask(tail + sent) + i - 1 - Size
    BY <1>3, <2>1, <2>2, MaskAdd
  <2>6. QED
    BY <1>1, <2>1, <2>3, <2>4, <2>5, SizePositive DEF Index
<1>6. QED
  BY <1>1, <1>4, <1>5

(* The frame behind head joins the queue in one step. *)
LEMMA CommitAccepts ==
  ASSUME PathInv, NoOverrun, FrameWritten, NEW p \in Producers, Commit(p), count[p] # -1
  PROVE  Fifo!Accept(msg[p])
<1> USE DEF PathInv, TypeInv, TypeOK
<1> DEFINE F == Frame(msg[p].data)
           f == Len(F)
           u == Unread(head, tail)
           w == u - sent
<1>1. /\ w \in 0 .. (Size - 1) /\ sent \in Nat /\ tail \in Index /\ head \in Index
      /\ Queue = [i \in 1 .. w |-> mem[Mask(tail + sent + i - 1)]]
      /\ Queue \in Seq(Byte \cup {NONE}) /\ Len(Queue) = w
      /\ sent <= u
  BY QueueValue DEF BufferOK
<1>2. /\ pc[p] = "commit" /\ msg[p] \in Messages
      /\ count[p] = f /\ f <= Space
  BY DEF Commit, MessageInProgress, MessageOK, Placement, PlacedOK, NoOverrun
<1>3. F \in Seq(Byte) /\ f \in Nat
  BY <1>2, MessageFacts, FrameBytes
<1>4. u \in 0 .. (Size - 1) /\ u + f <= Size - 1
  <2> HIDE DEF f
  <2>1. QED
    BY <1>2, <1>3, SpaceFacts, SizePositive
<1>5. head' = Mask(head + f) /\ UNCHANGED <<tail, mem, sent, wire, usbActive>>
  <2>1. count[p] # -1
    BY <1>2, <1>3
  <2>2. QED
    BY <1>2, <2>1 DEF Commit, pumpVars, usbVars
<1>6. head' \in Index /\ Unread(head', tail) = u + f
  BY <1>1, <1>2, <1>3, <1>5, AdvanceHead DEF Space
<1>7. Holds(mem, head, F)
  <2>1. count[p] <= Size
    <3> HIDE DEF f
    <3>1. QED
      BY <1>2, <1>3, <1>4, SizePositive
  <2>2. QED
    BY <1>2, <2>1 DEF FrameWritten, WrittenOK
<1> HIDE DEF F, f, u, w
<1>8. Queue' = [i \in 1 .. (w + f) |-> mem[Mask(tail + sent + i - 1)]]
  <2>1. Mask(head' + Size - tail - sent) = Unread(head', tail) - sent
    BY <1>1, <1>3, <1>4, <1>6, WaitingValue
  <2>2. Unread(head', tail) - sent = w + f
    BY <1>1, <1>3, <1>4, <1>6 DEF w
  <2>3. QED
    BY <1>5, <2>1, <2>2 DEF Queue
<1>9. ASSUME NEW j \in Nat, j < f
      PROVE  mem[Mask(tail + u + j)] = F[j + 1]
  <2>1. u + j \in 0 .. (Size - 1) /\ j \in 0 .. (Size - 1)
    BY <1>3, <1>4, <1>9, SizePositive
  <2>2. u = IF head < tail THEN head + Size - tail ELSE head - tail
    BY <1>1, UnreadValue DEF u
  <2>3. Mask(head + j) = IF head + j < Size THEN head + j ELSE head + j - Size
    BY <1>1, <2>1, MaskAdd
  <2>4. Mask(tail + (u + j)) =
          IF tail + (u + j) < Size THEN tail + (u + j) ELSE tail + (u + j) - Size
    BY <1>1, <2>1, MaskAdd
  <2>5. tail + (u + j) = tail + u + j
    BY <1>1, <1>4, SizePositive DEF Index
  <2>6. Mask(tail + u + j) = Mask(head + j)
    BY <1>1, <2>1, <2>2, <2>3, <2>4, <2>5, SizePositive DEF Index
  <2>7. QED
    BY <1>7, <1>9, <2>6 DEF Holds, f
<1>10. Queue \o F = [i \in 1 .. (w + f) |-> IF i <= w THEN Queue[i] ELSE F[i - w]]
  BY <1>1, <1>3 DEF f
<1>11. ASSUME NEW i \in 1 .. (w + f)
       PROVE  mem[Mask(tail + sent + i - 1)] = IF i <= w THEN Queue[i] ELSE F[i - w]
  <2>1. CASE i <= w
    <3>1. i \in 1 .. w
      BY <1>1, <1>3, <2>1
    <3>2. QED
      BY <1>1, <2>1, <3>1
  <2>2. CASE ~(i <= w)
    <3>1. /\ i - w - 1 \in Nat /\ i - w - 1 < f /\ (i - w - 1) + 1 = i - w
          /\ tail + sent + i - 1 = tail + u + (i - w - 1)
      BY <1>1, <1>3, <1>4, <2>2, SizePositive DEF Index, w
    <3>2. mem[Mask(tail + sent + i - 1)] = F[(i - w - 1) + 1]
      BY <1>9, <3>1
    <3>3. QED
      BY <2>2, <3>1, <3>2
  <2>3. QED
    BY <2>1, <2>2
<1>12. Queue' = Queue \o F
  BY <1>8, <1>10, <1>11
<1>13. Len(Queue) + Len(F) < Size
  BY <1>1, <1>3, <1>4, SizePositive DEF f, w
<1>14. Fifo!Frame(msg[p].data) = F
  BY SameFrame DEF F
<1>15. QED
  BY <1>5, <1>12, <1>13, <1>14 DEF Fifo!Accept

(* Every step of the port is a step of the queue, or does not show. *)
LEMMA FifoStep ==
  ASSUME PathInv, NoOverrun, NoOverrun', FrameWritten, [Next]_vars
  PROVE  [Fifo!Next]_<<Queue, wire, usbActive>>
<1>1. ASSUME NEW p \in Producers,
             \/ \E m \in Messages : Request(p, m)
             \/ Claim(p) \/ CheckBestCase(p) \/ StartByte(p) \/ BeginChunk(p) \/ WriteByte(p)
             \/ ChunkDoesNotFit(p) \/ StopByte(p) \/ Release(p) \/ Signal(p)
      PROVE  UNCHANGED <<Queue, wire, usbActive>>
  <2>1. UNCHANGED <<head, tail, sent, wire, usbActive>>
    BY <1>1 DEF Request, Claim, CheckBestCase, StartByte, BeginChunk, WriteByte,
           ChunkDoesNotFit, StopByte, Release, Signal, bufVars, pumpVars, usbVars
  <2>2. QED
    BY <2>1, WritingHidden
<1>2. ASSUME NEW p \in Producers, Commit(p), count[p] # -1
      PROVE  Fifo!Next
  <2>1. msg[p] \in Messages
    BY <1>2 DEF Commit, PathInv, TypeInv, MessageInProgress, MessageOK
  <2>2. QED
    BY <1>2, <2>1, CommitAccepts DEF Fifo!Next
<1>3. ASSUME NEW p \in Producers, Commit(p), count[p] = -1
      PROVE  UNCHANGED <<Queue, wire, usbActive>>
  <2>1. UNCHANGED <<head, tail, sent, wire, usbActive>>
    BY <1>3 DEF Commit, pumpVars, usbVars
  <2>2. QED
    BY <2>1, WritingHidden
<1>4. ASSUME PumpWake \/ PumpStart \/ PumpClaimUsb \/ PumpLoop \/ PumpReread
             \/ PumpCheckActive \/ UNCHANGED vars
      PROVE  UNCHANGED <<Queue, wire, usbActive>>
  <2>1. UNCHANGED <<head, tail, sent, wire, usbActive>>
    BY <1>4 DEF PumpWake, PumpStart, PumpClaimUsb, PumpLoop, PumpReread, PumpCheckActive,
           vars, bufVars, pumpVars, usbVars
  <2>2. QED
    BY <2>1, WritingHidden
<1>5. CASE SendByte
  BY <1>5, SendByteTransmits DEF Fifo!Next
<1>6. CASE SendAborted
  BY <1>6, AbortLoses DEF Fifo!Next
<1>7. CASE SendDone
  <2>1. UNCHANGED <<wire, usbActive>>
    BY <1>7 DEF SendDone, usbVars
  <2>2. QED
    BY <1>7, <2>1, SendDoneHidden
<1>8. CASE UsbChange
  <2>1. UNCHANGED <<head, tail, sent, wire>>
    BY <1>8 DEF UsbChange, bufVars, pumpVars
  <2>2. Queue' = Queue
    BY <2>1, WritingHidden
  <2>3. IsUsb /\ usbActive' = ~usbActive
    BY <1>8 DEF UsbChange
  <2>4. QED
    BY <2>1, <2>2, <2>3 DEF Fifo!HostChange, Fifo!Next
<1>9. QED
  BY <1>1, <1>2, <1>3, <1>4, <1>5, <1>6, <1>7, <1>8 DEF Next, Generate, Pump

(* The buffer, its writers and the data pump together are a queue of whole *)
(* frames, for every size of the buffer, any number of threads and all     *)
(* payloads, those included that are given up half way, as long as no      *)
(* writer overruns.                                                        *)
THEOREM FifoImplemented == Spec /\ []NoOverrun => ImplementsFifo
<1>1. Init => FrameWritten /\ Fifo!Init
  BY WrittenInit, FifoInit
<1>2. PathInv /\ FrameWritten /\ [Next]_vars => FrameWritten'
  BY WrittenStep
<1>3. PathInv /\ NoOverrun /\ NoOverrun' /\ FrameWritten /\ [Next]_vars
        => [Fifo!Next]_<<Queue, wire, usbActive>>
  BY FifoStep
<1>4. QED
  BY <1>1, <1>2, <1>3, PathHolds, PTL DEF Spec, ImplementsFifo, Fifo!Spec

-----------------------------------------------------------------------------
(* What does not overrun: the best-case test true of what it lets pass.    *)

(* How far each writer is, and the room it still has. *)
Inv == PathInv /\ WriterProgress

(* A size_t difference that does not go below zero is what it seems. *)
LEMMA U32Id == \A x \in 0 .. (Size - 1) : U32(x) = x
<1>1. \A x \in 0 .. (WordSize - 1) : U32(x) = x
  BY TxAssumption, SMT DEF U32
<1>2. WordSize > Size
  BY TxAssumption, SizePositive
<1>3. QED
  BY <1>1, <1>2, TxAssumption, SizePositive

(* An END with room for it is written at a free cell. *)
LEMMA WriteENDFits ==
  ASSUME BufferOK, WritersOK, NEW p \in Producers, WriteEND(p),
         count[p] \in Nat, count[p] < Space
  PROVE  /\ mem' = [mem EXCEPT ![Mask(head + count[p])] = SLIP_END]
         /\ count' = [count EXCEPT ![p] = count[p] + 1]
<1>1. Space - count[p] \in 0 .. (Size - 1) /\ Space - count[p] >= 1
  BY SpaceFacts, SizePositive
<1>2. U32(Space - count[p]) >= 1
  BY <1>1, U32Id
<1>3. count[p] >= 0
  OBVIOUS
<1>4. QED
  BY <1>2, <1>3 DEF WriteEND

(* A writer that moves leaves the others where they are, as long as the    *)
(* space they counted on is not taken.                                     *)
LEMMA OthersProgress ==
  ASSUME WriterProgress, NEW p \in Producers, ProgressOK(p)',
         head' = head, tail' = tail,
         \A q \in Producers \ {p} :
           /\ pc'[q] = pc[q] /\ pos'[q] = pos[q] /\ msg'[q] = msg[q]
           /\ count'[q] = count[q] /\ budget'[q] = budget[q]
  PROVE  WriterProgress'
<1>1. Space' = Space
  BY DEF Space
<1>2. ASSUME NEW q \in Producers \ {p} PROVE ProgressOK(q)'
  BY <1>1, <1>2 DEF WriterProgress, ProgressOK, IsChunkEnd
<1>3. QED
  BY <1>2 DEF WriterProgress

(* A writer that is as far as that has not overrun. *)
LEMMA ProgressFits == Inv => NoOverrun
<1> SUFFICES ASSUME Inv, NEW p \in Producers
             PROVE  /\ pc[p] \in {"chunk", "byte", "stop"} => count[p] <= Space + 1
                    /\ pc[p] = "commit" => count[p] <= Space
  BY DEF NoOverrun
<1> USE DEF Inv, PathInv, TypeInv, TypeOK
<1> DEFINE d == msg[p].data
           l(n) == Len(Stuffed(d, n))
<1>1. SUFFICES ASSUME pc[p] \in {"chunk", "byte", "stop", "commit"}
               PROVE  count[p] <= Space
  BY SpaceFacts DEF WritersOK
<1>2. msg[p] \in Messages /\ Len(Frame(d)) <= Space
  BY <1>1 DEF MessageInProgress, MessageOK, WriterProgress, ProgressOK
<1>3. d \in Seq(Byte) /\ Len(d) \in Nat /\ Space \in Int /\ Len(Frame(d)) \in Nat
      /\ Len(Frame(d)) = l(Len(d)) + 2
  BY <1>2, MessageFacts, SpaceFacts, FrameBytes
<1>4. CASE pc[p] \in {"chunk", "byte"}
  <2>1. pos[p] \in Nat /\ pos[p] < Len(d) /\ count[p] = l(pos[p]) + 1
    BY <1>4 DEF MessageInProgress, MessageOK, WritersOK, WriterProgress, ProgressOK
  <2>2. l(pos[p]) \in Nat /\ l(Len(d)) \in Nat /\ l(pos[p]) + (Len(d) - pos[p]) <= l(Len(d))
    BY <1>3, <2>1, StuffedGrows
  <2> HIDE DEF l, d
  <2>3. QED
    BY <1>2, <1>3, <2>1, <2>2
<1>5. CASE pc[p] \in {"stop", "commit"}
  <2>1. count[p] \in {Len(Frame(d)) - 1, Len(Frame(d))}
    BY <1>5 DEF WriterProgress, ProgressOK
  <2> HIDE DEF d
  <2>2. QED
    BY <1>2, <1>3, <2>1
<1>6. QED
  BY <1>1, <1>4, <1>5

LEMMA CheckProgress ==
  ASSUME BestCaseIsTrue, Inv, NEW p \in Producers, CheckBestCase(p)
  PROVE  ProgressOK(p)'
<1> USE DEF Inv, PathInv, TypeInv, TypeOK
<1>1. pc' = [pc EXCEPT ![p] = pc'[p]] /\ pc'[p] \in {"start", "release"} /\ msg' = msg
  BY DEF CheckBestCase, Goto, WritersOK
<1>2. CASE Space < Len(msg[p].data) + 2
  <2>1. pc'[p] = "release"
    BY <1>2 DEF CheckBestCase, Goto, WritersOK
  <2>2. QED
    BY <2>1 DEF ProgressOK
<1>3. CASE ~(Space < Len(msg[p].data) + 2)
  <2>1. pc'[p] = "start" /\ count'[p] = 0 /\ pc[p] = "check"
    BY <1>3 DEF CheckBestCase, Goto, WritersOK
  <2>2. Space' = Space
    BY DEF CheckBestCase, bufVars, Space
  <2>3. msg[p] \in Messages
    BY DEF CheckBestCase, MessageInProgress, MessageOK
  <2>4. Space >= Len(msg[p].data) + 2
    BY <1>3, <2>3, MessageFacts, SpaceFacts
  <2>5. Space >= Len(Frame(msg[p].data))
    BY <2>1, <2>4 DEF BestCaseIsTrue
  <2>6. Len(Frame(msg[p].data)) <= Space
    BY <2>3, <2>5, MessageFacts, FrameBytes, SpaceFacts
  <2>7. QED
    BY <1>1, <2>1, <2>2, <2>6 DEF ProgressOK
<1>4. QED
  BY <1>2, <1>3

LEMMA StartProgress ==
  ASSUME Inv, NEW p \in Producers, StartByte(p)
  PROVE  ProgressOK(p)'
<1> USE DEF Inv, PathInv, TypeInv, TypeOK
<1> DEFINE d == msg[p].data
<1>1. /\ pc[p] = "start" /\ msg[p] \in Messages /\ pos[p] = 0
      /\ count[p] = 0 /\ Len(Frame(d)) <= Space
  BY DEF StartByte, MessageInProgress, MessageOK, WriterProgress, ProgressOK
<1>2. Len(Frame(d)) \in Nat /\ Len(Frame(d)) >= 2 /\ Space \in 0 .. (Size - 1)
  BY <1>1, MessageFacts, FrameBytes, SpaceFacts
<1>3. count[p] \in Nat /\ count[p] < Space
  BY <1>1, <1>2
<1>4. count' = [count EXCEPT ![p] = count[p] + 1]
  BY <1>3, WriteENDFits DEF StartByte
<1>5. /\ pc'[p] = "chunk" /\ count'[p] = 1 /\ pos'[p] = 0
      /\ msg' = msg /\ Space' = Space
  BY <1>1, <1>4 DEF StartByte, Goto, WritersOK, Space
<1>6. Len(Stuffed(d, 0)) + 1 = 1
  BY StuffedEmpty, EmptySeq
<1>7. QED
  BY <1>1, <1>5, <1>6 DEF ProgressOK

LEMMA BeginProgress ==
  ASSUME Inv, NEW p \in Producers, BeginChunk(p)
  PROVE  ProgressOK(p)'
<1> USE DEF Inv, PathInv, TypeInv, TypeOK
<1> DEFINE d == msg[p].data
           l(n) == Len(Stuffed(d, n))
<1>1. /\ pc[p] = "chunk" /\ msg[p] \in Messages /\ pos[p] \in Nat
      /\ pos[p] < Len(d)
      /\ count[p] = l(pos[p]) + 1 /\ Len(Frame(d)) <= Space
  BY DEF BeginChunk, MessageInProgress, MessageOK, WritersOK, WriterProgress, ProgressOK
<1>2. d \in Seq(Byte) /\ Len(d) \in Nat /\ Space \in Int
  BY <1>1, MessageFacts, SpaceFacts
<1>3. l(pos[p]) \in Nat
  BY <1>1, <1>2, StuffedBytes
<1>4. count[p] >= 0
  BY <1>1, <1>3
<1>5. PICK e \in msg[p].ends :
        /\ IsChunkEnd(p, e)
        /\ budget' = [budget EXCEPT ![p] =
              IF U32(Space - count[p] + 1) \div 2 >= e - pos[p]
              THEN 2 * (e - pos[p]) ELSE Space]
  BY <1>4 DEF BeginChunk
<1>6. e \in Nat /\ e <= Len(d) /\ pos[p] < e
  BY <1>1, <1>5, MessageFacts, TxAssumption DEF IsMessage, IsChunkEnd
<1>7. budget'[p] \in {2 * (e - pos[p]), Space}
  BY <1>5 DEF WritersOK
<1>8. l(e) \in Nat /\ l(e) <= l(pos[p]) + 2 * (e - pos[p])
  BY <1>1, <1>2, <1>6, StuffedGrows
<1>9. l(e) <= Space
  <2>1. Len(d) <= Len(d)
    BY <1>2
  <2>2. l(Len(d)) \in Nat /\ l(e) + (Len(d) - e) <= l(Len(d))
    BY <1>2, <1>6, <2>1, StuffedGrows
  <2>3. Len(Frame(d)) = l(Len(d)) + 2
    BY <1>2, FrameBytes
  <2> HIDE DEF l, d
  <2>4. QED
    BY <1>1, <1>2, <1>6, <1>8, <2>2, <2>3
<1>10. budget'[p] >= l(e) - l(pos[p])
  <2> HIDE DEF l, d
  <2>1. QED
    BY <1>1, <1>2, <1>3, <1>6, <1>7, <1>8, <1>9
<1>11. /\ pc'[p] = "byte" /\ count' = count /\ pos' = pos
       /\ msg' = msg /\ Space' = Space
  BY <1>4 DEF BeginChunk, Goto, WritersOK, bufVars, Space
<1>12. QED
  BY <1>1, <1>5, <1>10, <1>11 DEF ProgressOK, IsChunkEnd

LEMMA ByteProgress ==
  ASSUME Inv, NEW p \in Producers, WriteByte(p)
  PROVE  ProgressOK(p)'
<1> USE DEF Inv, PathInv, TypeInv, TypeOK
<1> DEFINE d == msg[p].data
           l(n) == Len(Stuffed(d, n))
           x == Encode(d[pos[p] + 1])
<1>1. /\ pc[p] = "byte" /\ msg[p] \in Messages /\ d \in Seq(Byte)
      /\ pos[p] \in Nat /\ pos[p] < Len(d) /\ Len(d) \in Nat
      /\ d[pos[p] + 1] \in Byte /\ l(pos[p]) \in Nat
      /\ count[p] = l(pos[p]) + 1 /\ budget[p] \in Int
  BY ByteFacts DEF WriteByte, WritersOK
<1>2. /\ l(pos[p] + 1) = l(pos[p]) + Len(x) /\ Len(x) \in {1, 2}
      /\ Len(Frame(d)) = l(Len(d)) + 2 /\ Len(Frame(d)) <= Space
  BY <1>1, StuffedNext, EncodeBytes, FrameBytes DEF WriterProgress, ProgressOK
<1>3. /\ count'[p] = count[p] + Len(x) /\ budget'[p] = budget[p] - Len(x)
      /\ PlacedOK(p)'
  BY BytePlaced
<1>4. /\ pos'[p] = pos[p] + 1 /\ msg' = msg /\ Space' = Space
      /\ pc'[p] \in {"byte", "chunk", "stop"}
      /\ pc'[p] = "byte" => pos[p] + 1 \notin msg[p].ends
  BY DEF WriteByte, WritersOK, Space, Goto
<1>5. count'[p] = l(pos[p] + 1) + 1 /\ count'[p] # -1
  <2> HIDE DEF l, d, x
  <2>1. QED
    BY <1>1, <1>2, <1>3
<1>6. pc'[p] = "byte" =>
         \E e \in msg[p].ends :
           /\ e > pos[p] + 1
           /\ \A f \in msg[p].ends : f <= pos[p] + 1 \/ e <= f
           /\ budget'[p] >= l(e) - l(pos[p] + 1)
  <2>1. SUFFICES ASSUME pc'[p] = "byte"
                 PROVE  \E e \in msg[p].ends :
                          /\ e > pos[p] + 1
                          /\ \A f \in msg[p].ends : f <= pos[p] + 1 \/ e <= f
                          /\ budget'[p] >= l(e) - l(pos[p] + 1)
    OBVIOUS
  <2>2. PICK e \in msg[p].ends : IsChunkEnd(p, e) /\ budget[p] >= l(e) - l(pos[p])
    BY <1>1 DEF WriterProgress, ProgressOK
  <2>3. msg[p].ends \subseteq Nat /\ e <= Len(d)
    BY <1>1, MessageFacts, TxAssumption DEF IsMessage
  <2>4. e # pos[p] + 1
    BY <1>4, <2>1
  <2>5. e > pos[p] + 1
    BY <1>1, <2>2, <2>3, <2>4 DEF IsChunkEnd
  <2>6. \A f \in msg[p].ends : f <= pos[p] + 1 \/ e <= f
    BY <1>1, <2>2, <2>3 DEF IsChunkEnd
  <2>7. l(e) \in Nat
    BY <1>1, <2>3, StuffedBytes
  <2>8. budget'[p] >= l(e) - l(pos[p] + 1)
    <3> HIDE DEF l, d, x
    <3>1. QED
      BY <1>1, <1>2, <1>3, <2>2, <2>7
  <2>9. QED
    BY <2>5, <2>6, <2>8
<1>7. pc'[p] = "stop" => count'[p] = Len(Frame(d)) - 1
  BY <1>3, <1>4, <1>5 DEF PlacedOK
<1>8. QED
  BY <1>2, <1>4, <1>5, <1>6, <1>7 DEF ProgressOK, IsChunkEnd

(* The encode loop of a message that fits is never out of space. *)
LEMMA ChunkFits ==
  ASSUME Inv, NEW p \in Producers
  PROVE  ~ ChunkDoesNotFit(p)
<1> SUFFICES ASSUME ChunkDoesNotFit(p) PROVE FALSE
  OBVIOUS
<1> DEFINE d == msg[p].data
           l(n) == Len(Stuffed(d, n))
<1>1. /\ pc[p] = "byte" /\ budget[p] <= 0 /\ budget[p] \in Int
      /\ msg[p] \in Messages /\ pos[p] \in Nat /\ d \in Seq(Byte)
  BY ByteFacts DEF ChunkDoesNotFit, Inv, PathInv, TypeInv, TypeOK, WritersOK
<1>2. PICK e \in msg[p].ends : IsChunkEnd(p, e) /\ budget[p] >= l(e) - l(pos[p])
  BY <1>1 DEF Inv, WriterProgress, ProgressOK
<1>3. e \in Nat /\ e > pos[p] /\ e <= Len(d)
  BY <1>1, <1>2, MessageFacts, TxAssumption DEF IsMessage, IsChunkEnd
<1>4. l(pos[p]) \in Nat /\ l(e) \in Nat /\ l(pos[p]) + (e - pos[p]) <= l(e)
  BY <1>1, <1>3, StuffedGrows
<1> HIDE DEF l, d
<1>5. QED
  BY <1>1, <1>2, <1>3, <1>4

LEMMA StopProgress ==
  ASSUME Inv, NEW p \in Producers, StopByte(p)
  PROVE  ProgressOK(p)'
<1> USE DEF Inv, PathInv, TypeInv, TypeOK
<1> DEFINE f == Len(Frame(msg[p].data))
<1>1. /\ pc[p] = "stop" /\ msg[p] \in Messages
      /\ count[p] = f - 1 /\ f <= Space
  BY DEF StopByte, MessageInProgress, MessageOK, WriterProgress, ProgressOK
<1>2. f \in Nat /\ f >= 2 /\ Space \in 0 .. (Size - 1)
  BY <1>1, MessageFacts, FrameBytes, SpaceFacts
<1>3. count[p] \in Nat /\ count[p] < Space
  <2> HIDE DEF f
  <2>1. QED
    BY <1>1, <1>2
<1>4. count' = [count EXCEPT ![p] = count[p] + 1]
  BY <1>3, WriteENDFits DEF StopByte
<1>5. count'[p] = f
  <2>1. count'[p] = count[p] + 1
    BY <1>4 DEF WritersOK
  <2> HIDE DEF f
  <2>2. QED
    BY <1>1, <1>2, <2>1
<1>6. pc'[p] = "commit" /\ msg' = msg /\ Space' = Space
  BY DEF StopByte, Goto, WritersOK, Space
<1>7. QED
  BY <1>1, <1>5, <1>6 DEF ProgressOK

(* No other writer counts on the space a commit takes, since none is past  *)
(* its claim.                                                              *)
LEMMA CommitProgress ==
  ASSUME Inv, NEW p \in Producers, Commit(p)
  PROVE  WriterProgress'
<1> USE DEF Inv, PathInv, TypeInv, TypeOK
<1>1. ASSUME NEW q \in Producers PROVE ProgressOK(q)'
  <2>1. CASE q = p
    <3>1. pc'[q] = "release"
      BY <2>1 DEF Commit, Goto, WritersOK
    <3>2. QED
      BY <3>1 DEF ProgressOK
  <2>2. CASE q # p
    <3>1. pc'[q] = pc[q] /\ pc[p] = "commit"
      BY <2>2 DEF Commit, Goto, WritersOK
    <3>2. pc[q] \notin Writing
      BY <2>2, <3>1 DEF WriterOwnsLock, Writing
    <3>3. QED
      BY <3>1, <3>2 DEF ProgressOK, Writing
  <2>3. QED
    BY <2>1, <2>2
<1>2. QED
  BY <1>1 DEF WriterProgress

(* The pump takes nobody's room. *)
LEMMA PumpProgress ==
  ASSUME Inv, Pump
  PROVE  WriterProgress'
<1> USE DEF Inv, PathInv
<1>1. UNCHANGED genVars /\ Space <= Space' /\ Space' \in Int
  BY PumpFrees
<1> USE DEF TypeInv, TypeOK
<1>2. ASSUME NEW q \in Producers PROVE ProgressOK(q)'
  <2>1. ProgressOK(q)
    BY DEF WriterProgress
  <2>2. msg[q] \in Messages /\ Len(Frame(msg[q].data)) <= Space
           => Len(Frame(msg[q].data)) <= Space'
    BY <1>1, MessageFacts, FrameBytes, SpaceFacts
  <2>3. pc[q] \in {"start", "chunk", "byte", "stop", "commit"} => msg[q] \in Messages
    BY DEF MessageInProgress, MessageOK
  <2>4. QED
    BY <1>1, <2>1, <2>2, <2>3 DEF ProgressOK, IsChunkEnd, genVars
<1>3. QED
  BY <1>2 DEF WriterProgress

LEMMA InvInit == Init => Inv
<1>1. Init => WriterProgress
  BY DEF Init, WriterProgress, ProgressOK
<1>2. QED
  BY <1>1, PathInit DEF Inv

LEMMA InvStep == BestCaseIsTrue /\ Inv /\ [Next]_vars => Inv'
<1> SUFFICES ASSUME BestCaseIsTrue, Inv, [Next]_vars PROVE WriterProgress'
  BY PathStep, ProgressFits DEF Inv
<1> USE DEF Inv, PathInv, TypeInv, TypeOK
<1>1. ASSUME NEW p \in Producers,
             (\E m \in Messages : Request(p, m)) \/ Claim(p) \/ Release(p) \/ Signal(p)
      PROVE  WriterProgress'
  <2>1. pc'[p] \in {"claim", "check", "idle", "signal"}
    BY <1>1 DEF Request, Claim, Release, Signal, Goto, WritersOK
  <2>2. ProgressOK(p)'
    BY <2>1 DEF ProgressOK
  <2>3. QED
    BY <1>1, <2>2, OthersProgress DEF Request, Claim, Release, Signal, Goto, WritersOK, bufVars
<1>2. ASSUME NEW p \in Producers, CheckBestCase(p) PROVE WriterProgress'
  <2>1. ProgressOK(p)'
    BY <1>2, CheckProgress
  <2>2. QED
    BY <1>2, <2>1, OthersProgress DEF CheckBestCase, Goto, WritersOK, bufVars
<1>3. ASSUME NEW p \in Producers, StartByte(p) \/ StopByte(p) PROVE WriterProgress'
  <2>1. ProgressOK(p)'
    BY <1>3, StartProgress, StopProgress
  <2>2. QED
    BY <1>3, <2>1, OthersProgress DEF StartByte, StopByte, WriteEND, Goto, WritersOK
<1>4. ASSUME NEW p \in Producers, BeginChunk(p) PROVE WriterProgress'
  <2>1. ProgressOK(p)'
    BY <1>4, BeginProgress
  <2>2. \A q \in Producers \ {p} : budget'[q] = budget[q]
    BY <1>4 DEF BeginChunk, WritersOK
  <2>3. QED
    BY <1>4, <2>1, <2>2, OthersProgress DEF BeginChunk, Goto, WritersOK, bufVars
<1>5. ASSUME NEW p \in Producers, WriteByte(p) PROVE WriterProgress'
  <2>1. ProgressOK(p)'
    BY <1>5, ByteProgress
  <2>2. QED
    BY <1>5, <2>1, OthersProgress DEF WriteByte, Goto, WritersOK
<1>6. ASSUME NEW p \in Producers, ChunkDoesNotFit(p) PROVE WriterProgress'
  BY <1>6, ChunkFits
<1>7. ASSUME NEW p \in Producers, Commit(p) PROVE WriterProgress'
  BY <1>7, CommitProgress
<1>8. ASSUME Pump PROVE WriterProgress'
  BY <1>8, PumpProgress
<1>9. ASSUME UsbChange \/ UNCHANGED vars PROVE WriterProgress'
  <2>1. UNCHANGED genVars /\ Space' = Space
    BY <1>9 DEF UsbChange, vars, bufVars, Space
  <2>2. QED
    BY <2>1 DEF WriterProgress, ProgressOK, IsChunkEnd, genVars
<1>10. QED
  BY <1>1, <1>2, <1>3, <1>4, <1>5, <1>6, <1>7, <1>8, <1>9 DEF Next, Generate

(* The invariant holds as long as the best-case test is true. *)
LEMMA InvHolds == Spec /\ []BestCaseIsTrue => []Inv
  BY InvInit, InvStep, PTL DEF Spec

(* The encoder's bookkeeping is exact, escapes included: count, pos and    *)
(* the space found free by the best-case test (slip.c:174) stay in step    *)
(* through every interleaving with the pump and with writers that wait,    *)
(* and no writer overruns.                                                 *)
THEOREM WriterProgressCorrect ==
  Spec /\ []BestCaseIsTrue => [](WriterProgress /\ NoOverrun)
<1>1. Inv => WriterProgress /\ NoOverrun
  BY ProgressFits DEF Inv
<1>2. QED
  BY <1>1, InvHolds, PTL

(* A frame about to be committed lies in free cells: HAL_SUCCESS is the    *)
(* truth (kflypacket_generators.c:208) unless the best-case test was not.  *)
THEOREM CommittedFrameFits == Spec /\ []BestCaseIsTrue => []SuccessMeansItFit
<1>1. WriterProgress /\ NoOverrun => SuccessMeansItFit
  BY DEF NoOverrun, SuccessMeansItFit
<1>2. QED
  BY <1>1, WriterProgressCorrect, PTL

(* The best-case test is true of a message without reserved bytes. *)
LEMMA PlainIsTrue ==
  ASSUME PlainMessages
  PROVE  Spec => []BestCaseIsTrue
<1>1. TypeInv => BestCaseIsTrue
  <2>1. SUFFICES ASSUME TypeInv, NEW p \in Producers, pc[p] = "check",
                        Space >= Len(msg[p].data) + 2
                 PROVE  Space >= Len(Frame(msg[p].data))
    BY DEF BestCaseIsTrue
  <2>2. msg[p] \in Messages
    BY <2>1 DEF TypeInv, MessageInProgress, MessageOK
  <2>3. msg[p].data \in Seq(Byte) /\ \A i \in 1 .. Len(msg[p].data) : msg[p].data[i] \notin Reserved
    BY <2>2, MessageFacts DEF PlainMessages
  <2>4. Len(Frame(msg[p].data)) = Len(msg[p].data) + 2
    BY <2>3, StuffedPlain, FrameBytes
  <2>5. QED
    BY <2>1, <2>4
<1>2. QED
  BY <1>1, TypeInvInit, TypeInvStep, PTL DEF Spec

(* "the 'no special case' is guaranteed to fit" (slip.c:110): once the     *)
(* best-case test passed, a message without reserved bytes does not fail.  *)
THEOREM PlainNeverFails ==
  ASSUME PlainMessages
  PROVE  Spec => []PlainMessageNeverFails
<1>1. Inv => PlainMessageNeverFails
  <2>1. SUFFICES ASSUME Inv, NEW p \in Producers, pc[p] \in {"stop", "commit"}
                 PROVE  count[p] # -1
    BY DEF PlainMessageNeverFails
  <2>2. msg[p] \in Messages
    BY <2>1 DEF Inv, PathInv, TypeInv, MessageInProgress, MessageOK
  <2>3. count[p] \in {Len(Frame(msg[p].data)) - 1, Len(Frame(msg[p].data))}
    BY <2>1 DEF Inv, WriterProgress, ProgressOK
  <2>4. Len(Frame(msg[p].data)) \in Nat /\ Len(Frame(msg[p].data)) >= 2
    BY <2>2, MessageFacts, FrameBytes
  <2>5. QED
    BY <2>3, <2>4
<1>2. QED
  BY <1>1, PlainIsTrue, InvHolds, PTL

-----------------------------------------------------------------------------
(* What does not overrun, without further condition: payloads with at most *)
(* one byte to escape.                                                     *)

(* What the best-case test found free is one short of the frame at most. *)
RoomOK(p) ==
  /\ pc[p] \in {"start", "chunk", "byte", "stop"} => Len(Frame(msg[p].data)) <= Space + 1
  /\ pc[p] = "commit" => count[p] <= Space

Room == \A p \in Producers : RoomOK(p)

LEMMA RoomFits == PathInv /\ Room => NoOverrun
<1> SUFFICES ASSUME PathInv, Room, NEW p \in Producers,
                    pc[p] \in {"chunk", "byte", "stop"}
             PROVE  count[p] <= Space + 1
  BY DEF NoOverrun, Room, RoomOK
<1> USE DEF PathInv, TypeInv, TypeOK
<1> DEFINE d == msg[p].data
           l(n) == Len(Stuffed(d, n))
<1>1. msg[p] \in Messages /\ Len(Frame(d)) <= Space + 1
  BY DEF MessageInProgress, MessageOK, Room, RoomOK
<1>2. d \in Seq(Byte) /\ Len(d) \in Nat /\ Space \in 0 .. (Size - 1) /\ Len(Frame(d)) \in Nat
      /\ Len(Frame(d)) = l(Len(d)) + 2
  BY <1>1, MessageFacts, SpaceFacts, FrameBytes
<1>3. CASE pc[p] \in {"chunk", "byte"} /\ count[p] # -1
  <2>1. pos[p] \in Nat /\ pos[p] < Len(d) /\ count[p] = l(pos[p]) + 1
    BY <1>3 DEF MessageInProgress, MessageOK, WritersOK, Placement, PlacedOK
  <2>2. l(pos[p]) \in Nat /\ l(Len(d)) \in Nat /\ l(pos[p]) + (Len(d) - pos[p]) <= l(Len(d))
    BY <1>2, <2>1, StuffedGrows
  <2> HIDE DEF l, d
  <2>3. QED
    BY <1>1, <1>2, <2>1, <2>2
<1>4. CASE pc[p] = "stop" /\ count[p] # -1
  <2>1. count[p] = Len(Frame(d)) - 1
    BY <1>4 DEF Placement, PlacedOK
  <2> HIDE DEF d
  <2>2. QED
    BY <1>1, <1>2, <2>1
<1>5. CASE count[p] = -1
  BY <1>2, <1>5
<1>6. QED
  BY <1>3, <1>4, <1>5

(* A writer that moves leaves the room of the others alone. *)
LEMMA OthersRoom ==
  ASSUME Room, NEW p \in Producers, RoomOK(p)', head' = head, tail' = tail,
         \A q \in Producers \ {p} :
           pc'[q] = pc[q] /\ msg'[q] = msg[q] /\ count'[q] = count[q]
  PROVE  Room'
<1>1. Space' = Space
  BY DEF Space
<1>2. ASSUME NEW q \in Producers \ {p} PROVE RoomOK(q)'
  BY <1>1, <1>2 DEF Room, RoomOK
<1>3. QED
  BY <1>2 DEF Room

LEMMA RoomStep ==
  ASSUME OneReservedByte, PathInv, Room, [Next]_vars
  PROVE  Room'
<1> USE DEF PathInv, TypeInv, TypeOK
<1>1. ASSUME NEW p \in Producers,
             (\E m \in Messages : Request(p, m)) \/ Claim(p) \/ Release(p) \/ Signal(p)
      PROVE  Room'
  <2>1. pc'[p] \in {"claim", "check", "idle", "signal"}
    BY <1>1 DEF Request, Claim, Release, Signal, Goto, WritersOK
  <2>2. RoomOK(p)'
    BY <2>1 DEF RoomOK
  <2>3. QED
    BY <1>1, <2>2, OthersRoom DEF Request, Claim, Release, Signal, Goto, WritersOK, bufVars
<1>2. ASSUME NEW p \in Producers, CheckBestCase(p) PROVE Room'
  <2>1. /\ pc[p] = "check" /\ msg[p] \in Messages /\ msg' = msg /\ Space' = Space
        /\ \/ pc'[p] = "release"
           \/ pc'[p] = "start" /\ ~(Space < Len(msg[p].data) + 2)
    BY <1>2 DEF CheckBestCase, Goto, WritersOK, bufVars, Space, MessageInProgress, MessageOK
  <2> DEFINE d == msg[p].data
  <2>2. d \in Seq(Byte) /\ Len(d) \in Nat /\ Space \in Int
    BY <2>1, MessageFacts, SpaceFacts
  <2>3. Len(Stuffed(d, Len(d))) <= Len(d) + 1
    BY <2>1, <2>2, StuffedOnce DEF OneReservedByte
  <2>4. Len(Frame(d)) = Len(Stuffed(d, Len(d))) + 2 /\ Len(Frame(d)) \in Nat
    BY <2>2, FrameBytes
  <2>5. Len(Stuffed(d, Len(d))) \in Nat
    <3>1. Len(d) <= Len(d)
      BY <2>2
    <3>2. QED
      BY <2>2, <3>1, StuffedBytes
  <2>6. Space >= Len(d) + 2 => Len(Frame(d)) <= Space + 1
    BY <2>2, <2>3, <2>4, <2>5
  <2>7. RoomOK(p)'
    BY <2>1, <2>2, <2>6 DEF RoomOK
  <2>8. QED
    BY <1>2, <2>7, OthersRoom DEF CheckBestCase, Goto, WritersOK, bufVars
<1>3. ASSUME NEW p \in Producers,
             StartByte(p) \/ BeginChunk(p) \/ WriteByte(p) \/ ChunkDoesNotFit(p)
      PROVE  Room'
  <2>1. /\ pc[p] \in {"start", "chunk", "byte"} /\ pc'[p] \in {"chunk", "byte", "stop"}
        /\ msg' = msg /\ Space' = Space
    BY <1>3 DEF StartByte, BeginChunk, WriteByte, ChunkDoesNotFit, Goto, WritersOK,
                bufVars, Space
  <2>2. RoomOK(p)'
    BY <2>1 DEF Room, RoomOK
  <2>3. /\ head' = head /\ tail' = tail
        /\ \A q \in Producers \ {p} :
             pc'[q] = pc[q] /\ msg'[q] = msg[q] /\ count'[q] = count[q]
    BY <1>3 DEF StartByte, BeginChunk, WriteByte, WriteEND, ChunkDoesNotFit, Goto, WritersOK,
                bufVars
  <2>4. QED
    BY <2>2, <2>3, OthersRoom
<1>4. ASSUME NEW p \in Producers, StopByte(p) PROVE Room'
  <2>1. /\ pc[p] = "stop" /\ pc'[p] = "commit" /\ msg[p] \in Messages /\ Space' = Space
        /\ Len(Frame(msg[p].data)) <= Space + 1
    BY <1>4 DEF StopByte, Goto, WritersOK, Space, Room, RoomOK, MessageInProgress, MessageOK
  <2>2. Space \in 0 .. (Size - 1) /\ Len(Frame(msg[p].data)) \in Nat
    BY <2>1, MessageFacts, FrameBytes, SpaceFacts
  <2>3. ASSUME count'[p] = -1 PROVE RoomOK(p)'
    BY <2>1, <2>2, <2>3 DEF RoomOK
  <2>4. ASSUME count'[p] # -1 PROVE RoomOK(p)'
    <3>1. /\ count[p] \in Nat /\ count'[p] = count[p] + 1
          /\ U32(Space - count[p]) >= 1
          /\ count[p] = Len(Frame(msg[p].data)) - 1
      BY <1>4, <2>4, StopPlaced
    <3>2. Space - count[p] \in 0 .. (Size - 1)
      BY <2>1, <2>2, <3>1, SizePositive
    <3>3. Space - count[p] >= 1
      BY <3>1, <3>2, U32Id
    <3>4. count'[p] <= Space
      BY <2>2, <3>1, <3>3
    <3>5. QED
      BY <2>1, <3>4 DEF RoomOK
  <2>5. RoomOK(p)'
    BY <2>3, <2>4
  <2>6. QED
    BY <1>4, <2>5, OthersRoom DEF StopByte, WriteEND, Goto, WritersOK
<1>5. ASSUME NEW p \in Producers, Commit(p) PROVE Room'
  <2>1. ASSUME NEW q \in Producers PROVE pc'[q] \notin {"start", "chunk", "byte", "stop", "commit"}
    BY <1>5 DEF Commit, Goto, WritersOK, WriterOwnsLock, Writing
  <2>2. QED
    BY <2>1 DEF Room, RoomOK
<1>6. ASSUME Pump PROVE Room'
  <2>1. UNCHANGED genVars /\ Space <= Space' /\ Space' \in Int
    BY <1>6, PumpFrees
  <2>2. Space \in Int
    BY SpaceFacts
  <2>3. ASSUME NEW q \in Producers PROVE RoomOK(q)'
    <3>1. RoomOK(q) /\ count[q] \in Int
      BY DEF Room, WritersOK
    <3>2. pc[q] \in {"start", "chunk", "byte", "stop"} => Len(Frame(msg[q].data)) \in Nat
      BY MessageFacts, FrameBytes DEF MessageInProgress, MessageOK
    <3>3. QED
      BY <2>1, <2>2, <3>1, <3>2 DEF RoomOK, genVars
  <2>4. QED
    BY <2>3 DEF Room
<1>7. ASSUME UsbChange \/ UNCHANGED vars PROVE Room'
  <2>1. UNCHANGED genVars /\ Space' = Space
    BY <1>7 DEF UsbChange, vars, bufVars, Space
  <2>2. QED
    BY <2>1 DEF Room, RoomOK, genVars
<1>8. QED
  BY <1>1, <1>2, <1>3, <1>4, <1>5, <1>6, <1>7 DEF Next, Generate

(* With at most one byte to escape the encoder's arithmetic holds: what    *)
(* the best-case test and the test for the closing END let pass fits, and  *)
(* a frame that is one byte too long is given up at its closing END.  Two  *)
(* are too many: see the README.                                           *)
THEOREM OneReservedFits ==
  ASSUME OneReservedByte
  PROVE  Spec => []NoOverrun
<1>1. Init => PathInv /\ Room
  BY PathInit DEF Init, Room, RoomOK
<1>2. PathInv /\ Room /\ [Next]_vars => (PathInv /\ Room)'
  BY RoomFits, PathStep, RoomStep
<1>3. QED
  BY <1>1, <1>2, RoomFits, PTL DEF Spec

(* For such payloads the transmit path is a queue of whole frames, without *)
(* further condition.                                                      *)
THEOREM OneReservedFifo ==
  ASSUME OneReservedByte
  PROVE  Spec => ImplementsFifo
  BY FifoImplemented, OneReservedFits, PTL

=============================================================================
