------------------------- MODULE HttpExchangeProofs -------------------------
(***************************************************************************)
(* Theorems about the exchange between client, proxy and server, for       *)
(* requests, answers and buffers of any size, however they are cut.        *)
(***************************************************************************)
EXTENDS HttpExchange, SetInduction, SequenceTheorems

(* The provers do not know that a literal is a string.                     *)
Literals == {"GET", "Host", "User-Agent", "Connection", "Proxy-Connection", NL, "\r", "NUL", "http://", ":", "/", "80",
             "HTTP", "HTTP/1.0", "200", "403", "404", "501", "type", "length", "Server", "home.html", "(none)"}
Word == STRING \union Literals
Bytes == Seq(Word)

LEMMA Words ==
  /\ Literals \subseteq Word
  /\ Seq(STRING) \subseteq Bytes
  /\ Seq(Seq(STRING)) \subseteq Seq(Bytes)
<1>1. STRING \subseteq Word /\ Literals \subseteq Word
  BY DEF Word
<1>2. ASSUME NEW s \in Seq(STRING) PROVE s \in Bytes
  BY <1>1, SeqMonotonic DEF Bytes
<1>3. Seq(STRING) \subseteq Bytes
  BY <1>2
<1>4. ASSUME NEW s \in Seq(Seq(STRING)) PROVE s \in Seq(Bytes)
  BY <1>3, SeqMonotonic
<1> QED
  BY <1>1, <1>3, <1>4

-----------------------------------------------------------------------------
(* Sequences of bytes.                                                     *)

LEMMA Concat ==
  ASSUME NEW a \in Bytes, NEW b \in Bytes
  PROVE  /\ a \o b \in Bytes
         /\ Len(a \o b) = Len(a) + Len(b)
         /\ \A i \in 1 .. Len(a) : (a \o b)[i] = a[i]
         /\ \A i \in 1 .. Len(b) : (a \o b)[Len(a) + i] = b[i]
  BY ConcatProperties, LenProperties DEF Bytes

LEMMA Empties ==
  /\ <<>> \in Bytes
  /\ \A a \in Bytes : a \o <<>> = a /\ <<>> \o a = a
  /\ \A a, b \in Bytes : a \o b = <<>> => a = <<>> /\ b = <<>>
  /\ \A a \in Bytes : Len(a) \in Nat /\ DOMAIN a = 1 .. Len(a) /\ (Len(a) = 0 <=> a = <<>>)
<1>1. ASSUME NEW a \in Bytes PROVE a \o <<>> = a /\ <<>> \o a = a
  BY ConcatEmptySeq DEF Bytes
<1>2. ASSUME NEW a \in Bytes, NEW b \in Bytes, a \o b = <<>> PROVE a = <<>> /\ b = <<>>
  BY <1>2, ConcatSimplifications DEF Bytes
<1>3. ASSUME NEW a \in Bytes PROVE Len(a) \in Nat /\ DOMAIN a = 1 .. Len(a) /\ (Len(a) = 0 <=> a = <<>>)
  BY EmptySeq, LenProperties DEF Bytes
<1>4. <<>> \in Bytes
  BY EmptySeq DEF Bytes
<1> QED
  BY <1>1, <1>2, <1>3, <1>4

LEMMA Assoc ==
  ASSUME NEW a \in Bytes, NEW b \in Bytes, NEW c \in Bytes
  PROVE  (a \o b) \o c = a \o (b \o c)
  BY ConcatAssociative DEF Bytes

LEMMA Cancel ==
  ASSUME NEW a \in Bytes, NEW b \in Bytes, NEW c \in Bytes, a \o b = a \o c
  PROVE  b = c
  BY ConcatSimplifications DEF Bytes

(* Any number of bytes can be taken from the front.                        *)
LEMMA Split ==
  ASSUME NEW a \in Bytes, NEW k \in 0 .. Len(a)
  PROVE  /\ SubSeq(a, 1, k) \in Bytes /\ from(a, k + 1) \in Bytes
         /\ Len(SubSeq(a, 1, k)) = k
         /\ \A i \in 1 .. k : SubSeq(a, 1, k)[i] = a[i]
         /\ SubSeq(a, 1, k) \o from(a, k + 1) = a
<1>1. Len(a) \in Nat /\ DOMAIN a = 1 .. Len(a) /\ \A i \in 1 .. Len(a) : a[i] \in Word
  BY LenProperties, ElementOfSeq DEF Bytes
<1>2. /\ SubSeq(a, 1, k) \in Bytes /\ Len(SubSeq(a, 1, k)) = k
      /\ \A i \in 1 .. k : SubSeq(a, 1, k)[i] = a[i]
  <2>1. \A i \in 1 .. k : a[i] \in Word
    BY <1>1
  <2>2. /\ SubSeq(a, 1, k) \in Seq(Word) /\ Len(SubSeq(a, 1, k)) = IF 1 <= k THEN k - 1 + 1 ELSE 0
        /\ \A i \in 1 .. k - 1 + 1 : SubSeq(a, 1, k)[i] = a[1 + i - 1]
    BY <1>1, <2>1, SubSeqProperties
  <2> QED
    BY <1>1, <2>2 DEF Bytes
<1>3. from(a, k + 1) \in Bytes
  <2>1. \A i \in k + 1 .. Len(a) : a[i] \in Word
    BY <1>1
  <2>2. k + 1 \in Int /\ Len(a) \in Int
    BY <1>1
  <2>3. SubSeq(a, k + 1, Len(a)) \in Seq(Word)
    BY <2>1, <2>2, SubSeqProperties
  <2> QED
    BY <2>3 DEF from, Bytes
<1>4. SubSeq(a, 1, k) \o from(a, k + 1) = a
  <2>1. 1 \in 1 .. Len(a) + 1 /\ k \in 1 - 1 .. Len(a) /\ Len(a) \in k .. Len(a) /\ a \in Seq(Word)
    BY <1>1 DEF Bytes
  <2>2. SubSeq(a, 1, k) \o SubSeq(a, k + 1, Len(a)) = SubSeq(a, 1, Len(a))
    BY <2>1, ConcatAdjacentSubSeq
  <2>3. SubSeq(a, 1, Len(a)) = a
    BY SubSeqFull DEF Bytes
  <2> QED
    BY <2>2, <2>3 DEF from
<1> QED
  BY <1>2, <1>3, <1>4

LEMMA Tuples ==
  ASSUME NEW S, NEW a \in S, NEW b \in S, NEW c \in S
  PROVE  /\ <<a>> \in Seq(S) /\ Len(<<a>>) = 1
         /\ <<a, b>> \in Seq(S) /\ Len(<<a, b>>) = 2
         /\ <<a, b, c>> \in Seq(S) /\ Len(<<a, b, c>>) = 3
  OBVIOUS

LEMMA Same ==
  ASSUME NEW a \in Bytes, NEW b \in Bytes, Len(a) = Len(b), \A i \in 1 .. Len(a) : a[i] = b[i]
  PROVE  a = b
  BY SeqEqual DEF Bytes

LEMMA Prefix ==
  ASSUME NEW a \in Bytes, NEW b \in Bytes
  PROVE  IsPrefix(a, a \o b)
<1>1. Len(a) \in Nat /\ Len(b) \in Nat
  BY Empties
<1>2. SubSeq(a \o b, 1, Len(a)) \in Bytes /\ Len(SubSeq(a \o b, 1, Len(a))) = Len(a)
      /\ \A i \in 1 .. Len(a) : SubSeq(a \o b, 1, Len(a))[i] = (a \o b)[i]
  <2>1. a \o b \in Bytes /\ Len(a) \in 0 .. Len(a \o b)
    BY <1>1, Concat
  <2> QED
    BY <2>1, Split
<1>3. SubSeq(a, 1, Len(a)) = a
  BY SubSeqFull DEF Bytes
<1>4. SubSeq(a \o b, 1, Len(a)) = a
  BY <1>1, <1>2, Concat, Same
<1> QED
  BY <1>1, <1>3, <1>4, Concat DEF IsPrefix

LEMMA Suffix ==
  ASSUME NEW a \in Bytes, NEW b \in Bytes
  PROVE  IsSuffix(b, a \o b)
<1> DEFINE c == a \o b
<1>1. Len(a) \in Nat /\ Len(b) \in Nat /\ Len(c) = Len(a) + Len(b) /\ c \in Bytes
  BY Empties, Concat
<1>2. ASSUME NEW s \in Bytes
      PROVE  Reverse(s) \in Bytes /\ Len(Reverse(s)) = Len(s)
             /\ \A i \in 1 .. Len(s) : Reverse(s)[i] = s[Len(s) - i + 1]
  <2>1. Len(s) \in Nat /\ \A i \in 1 .. Len(s) : s[i] \in Word
    BY Empties, ElementOfSeq DEF Bytes
  <2>2. \A i \in 1 .. Len(s) : s[Len(s) - i + 1] \in Word
    BY <2>1
  <2> QED
    BY <2>1, <2>2 DEF Reverse, Bytes
<1>3. \A i \in 1 .. Len(b) : Reverse(c)[i] = Reverse(b)[i]
  <2> TAKE i \in 1 .. Len(b)
  <2>1. Reverse(b)[i] = b[Len(b) - i + 1]
    BY <1>2
  <2>3. Reverse(c)[i] = c[Len(c) - i + 1] /\ Len(c) - i + 1 = Len(a) + (Len(b) - i + 1)
    <3> HIDE DEF c
    <3>1. i \in 1 .. Len(c)
      BY <1>1
    <3>2. \A j \in 1 .. Len(c) : Reverse(c)[j] = c[Len(c) - j + 1]
      BY <1>1, <1>2
    <3> QED
      BY <1>1, <3>1, <3>2
  <2>2. Len(b) - i + 1 \in 1 .. Len(b)
    BY <1>1
  <2> QED
    BY <2>1, <2>2, <2>3, Concat
<1>4. SubSeq(Reverse(c), 1, Len(b)) = Reverse(b)
  <2> HIDE DEF c
  <2>1. Len(b) \in 0 .. Len(Reverse(c)) /\ Reverse(c) \in Bytes
    BY <1>1, <1>2
  <2>2. SubSeq(Reverse(c), 1, Len(b)) \in Bytes /\ Len(SubSeq(Reverse(c), 1, Len(b))) = Len(b)
        /\ \A i \in 1 .. Len(b) : SubSeq(Reverse(c), 1, Len(b))[i] = Reverse(c)[i]
    BY <2>1, Split
  <2>3. Reverse(b) \in Bytes /\ Len(Reverse(b)) = Len(b)
    BY <1>2
  <2> QED
    BY <1>3, <2>2, <2>3, Same
<1>5. SubSeq(Reverse(b), 1, Len(b)) = Reverse(b)
  BY <1>2, SubSeqFull DEF Bytes
<1>6. Len(Reverse(b)) = Len(b) /\ Len(Reverse(c)) = Len(c)
  <2> HIDE DEF c
  <2> QED
    BY <1>1, <1>2
<1> HIDE DEF c
<1>7. IsSuffix(b, c)
  BY <1>1, <1>4, <1>5, <1>6 DEF IsSuffix, IsPrefix
<1> QED
  BY <1>7 DEF c

-----------------------------------------------------------------------------
(* Reading lines.                                                          *)

(* A line under way: its room is not exceeded, and nothing follows its     *)
(* newline.                                                                *)
Partial == { l \in Bytes : Len(l) < MAXLINE /\ \A i \in 1 .. Len(l) - 1 : l[i] # NL }

(* What is copied into the line is taken from the buffer.                  *)
LEMMA CopiedConserves ==
  ASSUME NEW rp \in [line : Partial, buf : Bytes], ~complete(rp.line)
  PROVE  /\ copied(rp) \in [line : Partial, buf : Bytes]
         /\ copied(rp).line \o copied(rp).buf = rp.line \o rp.buf
<1> DEFINE I == { i \in 1 .. Len(rp.buf) : rp.buf[i] = NL }
           newline == SelectInSeq(rp.buf, LAMBDA c : c = NL)
           room == MAXLINE - 1 - Len(rp.line)
           k == least(room, IF newline = 0 THEN Len(rp.buf) ELSE newline)
<1>1. rp.line \in Bytes /\ rp.buf \in Bytes /\ Len(rp.line) \in Nat /\ Len(rp.buf) \in Nat /\ Len(rp.line) < MAXLINE
  BY Empties DEF Partial
<1>2. \A i \in 1 .. Len(rp.line) : rp.line[i] # NL
  BY <1>1, Empties DEF complete, Partial, Last
<1>3. IF I = {} THEN newline = 0 ELSE newline \in I /\ \A i \in I : newline <= i
  <2>1. I # {} => \E i \in I : \A j \in I : i <= j
    <3>1. I \in SUBSET Nat
      OBVIOUS
    <3> HIDE DEF I
    <3> QED
      BY <3>1, LeastNat
  <2>2. newline = IF I # {} THEN Min(I) ELSE 0
    BY DEF SelectInSeq
  <2> HIDE DEF I, newline
  <2> QED
    BY <2>1, <2>2 DEF Min
<1>4. k \in 0 .. Len(rp.buf) /\ k <= room /\ \A i \in 1 .. k - 1 : rp.buf[i] # NL
  <2>1. room \in Nat
    BY <1>1, RioAssumption
  <2>2. CASE I = {}
    BY <1>1, <1>3, <2>1, <2>2 DEF least
  <2>3. CASE I # {}
    <3>1. newline \in 1 .. Len(rp.buf) /\ \A i \in I : newline <= i
      <4>1. newline \in I /\ \A i \in I : newline <= i
        BY <1>3, <2>3
      <4> HIDE DEF newline
      <4> QED
        BY <4>1
    <3>2. ASSUME NEW i \in 1 .. newline - 1 PROVE rp.buf[i] # NL
      <4> HIDE DEF newline
      <4>1. i \in 1 .. Len(rp.buf) /\ ~(newline <= i)
        BY <1>1, <3>1
      <4>2. i \notin I
        BY <3>1, <4>1
      <4> QED
        BY <4>1, <4>2
    <3> HIDE DEF newline, I, room
    <3> QED
      BY <1>1, <2>1, <3>1, <3>2 DEF least
  <2> QED
    BY <2>2, <2>3
<1>5. copied(rp) = [buf |-> from(rp.buf, k + 1), line |-> rp.line \o SubSeq(rp.buf, 1, k)]
  BY DEF copied
<1> HIDE DEF k, newline, I
<1> DEFINE part == SubSeq(rp.buf, 1, k)
           left == from(rp.buf, k + 1)
<1>6. /\ part \in Bytes /\ left \in Bytes /\ Len(part) = k /\ part \o left = rp.buf
      /\ \A i \in 1 .. k : part[i] = rp.buf[i]
  BY <1>1, <1>4, Split
<1> HIDE DEF part, left
<1>7. rp.line \o part \in Partial
  <2>1. rp.line \o part \in Bytes /\ Len(rp.line \o part) = Len(rp.line) + k
    BY <1>1, <1>6, Concat
  <2>2. ASSUME NEW i \in 1 .. Len(rp.line) + k - 1
        PROVE  (rp.line \o part)[i] # NL
    <3>1. CASE i <= Len(rp.line)
      BY <1>1, <1>2, <1>6, <3>1, Concat
    <3>2. CASE i > Len(rp.line)
      <4>1. i - Len(rp.line) \in 1 .. k - 1 /\ i = Len(rp.line) + (i - Len(rp.line))
        BY <1>1, <1>4, <3>2
      <4>2. (rp.line \o part)[i] = part[i - Len(rp.line)]
        BY <1>1, <1>4, <1>6, <4>1, Concat
      <4> QED
        BY <1>4, <1>6, <4>1, <4>2
    <3>3. i <= Len(rp.line) \/ i > Len(rp.line)
      BY <1>1, <1>4
    <3> QED
      BY <3>1, <3>2, <3>3, Zenon
  <2>3. Len(rp.line \o part) < MAXLINE
    BY <1>1, <1>4, <2>1, RioAssumption
  <2>4. \A i \in 1 .. Len(rp.line \o part) - 1 : (rp.line \o part)[i] # NL
    <3>1. \A i \in 1 .. Len(rp.line) + k - 1 : (rp.line \o part)[i] # NL
      BY <2>2
    <3> QED
      BY <1>1, <1>4, <1>6, <2>1, <3>1
  <2> QED
    BY <2>1, <2>3, <2>4, Zenon DEF Partial
<1>8. (rp.line \o part) \o left = rp.line \o rp.buf
  <2>1. (rp.line \o part) \o left = rp.line \o (part \o left)
    BY <1>1, <1>6, Assoc
  <2> QED
    BY <1>6, <2>1
<1>9. copied(rp) = [buf |-> left, line |-> rp.line \o part]
  BY <1>5 DEF part, left
<1> QED
  BY <1>6, <1>7, <1>8, <1>9

(* The line that is returned is the first line of what comes.              *)
LEMMA FirstLine ==
  ASSUME NEW l \in Partial, NEW rest_ \in Bytes, NEW f \in Bytes, NEW more \in Bytes,
         complete(l) \/ rest_ = <<>>,
         l \o rest_ = f \o more, IsLine(f), Len(f) < MAXLINE
  PROVE  l = f /\ rest_ = more
<1>1. l \in Bytes /\ Len(l) \in Nat /\ Len(f) \in Nat /\ Len(rest_) \in Nat /\ Len(more) \in Nat
      /\ DOMAIN f = 1 .. Len(f) /\ Len(f) > 0
  BY Empties DEF Partial, IsLine
<1>2. f[Len(f)] = NL /\ \A i \in 1 .. Len(f) : f[i] = NL => i = Len(f)
  <2>1. Len(f) \in 1 .. Len(f)
    BY <1>1
  <2>2. \A i \in 1 .. Len(f) : (f[i] = NL) <=> (i = Len(f))
    BY <1>1, Zenon DEF IsLine
  <2> QED
    BY <2>1, <2>2
<1>3. Len(l) + Len(rest_) = Len(f) + Len(more)
  BY <1>1, Concat
<1>4. \A i \in 1 .. Len(l) : i \in 1 .. Len(f) => l[i] = f[i]
  BY <1>1, Concat
<1>5. ~(Len(l) < Len(f))
  <2> SUFFICES ASSUME Len(l) < Len(f) PROVE FALSE
    OBVIOUS
  <2>1. rest_ # <<>>
    BY <1>1, <1>3, Empties
  <2>2. l # <<>> /\ l[Len(l)] = NL
    BY <1>1, <2>1, RioAssumption DEF complete, Last
  <2>3. Len(l) \in 1 .. Len(f) /\ Len(l) \in 1 .. Len(l) /\ Len(l) # Len(f)
    BY <1>1, <2>2, Empties
  <2>4. f[Len(l)] = NL
    BY <1>4, <2>2, <2>3
  <2> QED
    BY <1>2, <2>3, <2>4
<1>6. ~(Len(l) > Len(f))
  <2> SUFFICES ASSUME Len(l) > Len(f) PROVE FALSE
    OBVIOUS
  <2>1. Len(f) \in 1 .. Len(l) - 1 /\ Len(f) \in 1 .. Len(l) /\ Len(f) \in 1 .. Len(f)
    BY <1>1
  <2>2. l[Len(f)] = NL
    BY <1>2, <1>4, <2>1
  <2> QED
    BY <2>1, <2>2 DEF Partial
<1>7. l = f
  BY <1>1, <1>4, <1>5, <1>6, Same
<1> QED
  BY <1>1, <1>7, Cancel

-----------------------------------------------------------------------------
(* The lines one after the other.                                          *)

LEMMA Without ==
  ASSUME NEW names, NEW ls \in Seq(Bytes)
  PROVE  /\ without(names, ls, 0) = <<>>
         /\ \A n \in 1 .. Len(ls) :
               without(names, ls, n) = IF ls[n][1] \in names THEN without(names, ls, n - 1)
                                       ELSE without(names, ls, n - 1) \o ls[n]
         /\ \A n \in 0 .. Len(ls) : without(names, ls, n) \in Bytes
<1> DEFINE step(f, k) == IF ls[k][1] \in names THEN f[k - 1] ELSE f[k - 1] \o ls[k]
           Rec(f, m) == f = [k \in 0 .. m |-> IF k = 0 THEN <<>> ELSE step(f, k)]
           S == {m \in 0 .. Len(ls) : \E f \in [0 .. m -> Bytes] : Rec(f, m)}
           kept == CHOOSE f : Rec(f, Len(ls))
<1>1. Len(ls) \in Nat /\ \A k \in 1 .. Len(ls) : ls[k] \in Bytes
  BY LenProperties, ElementOfSeq
<1>2. 0 \in S
  <2> DEFINE z == [k \in 0 .. 0 |-> <<>>]
  <2>1. z \in [0 .. 0 -> Bytes]
    BY Empties
  <2>2. z = [k \in 0 .. 0 |-> IF k = 0 THEN <<>> ELSE step(z, k)]
    <3> HIDE DEF step
    <3> QED
      OBVIOUS
  <2>3. Rec(z, 0)
    BY <2>2
  <2> HIDE DEF z, Rec
  <2> QED
    BY <1>1, <2>1, <2>3
<1>3. ASSUME NEW m \in 0 .. Len(ls) - 1, m \in S PROVE m + 1 \in S
  <2>1. PICK f \in [0 .. m -> Bytes] : Rec(f, m)
    BY <1>3
  <2> DEFINE g == [k \in 0 .. m + 1 |-> IF k = m + 1 THEN step(f, m + 1) ELSE f[k]]
  <2>2. m \in Nat /\ m + 1 \in 1 .. Len(ls) /\ f[m] \in Bytes /\ m + 1 - 1 = m /\ m + 1 # 0
    BY <1>1
  <2>3. step(f, m + 1) \in Bytes
    <3>1. f[m] \o ls[m + 1] \in Bytes
      BY <1>1, <2>2, Concat
    <3> QED
      BY <2>2, <3>1
  <2>4. g \in [0 .. m + 1 -> Bytes]
    <3> HIDE DEF step
    <3> QED
      BY <2>2, <2>3
  <2>5. ASSUME NEW k \in 0 .. m + 1
        PROVE  g[k] = IF k = 0 THEN <<>> ELSE step(g, k)
    <3>1. k # 0 => g[k - 1] = f[k - 1]
      <4> HIDE DEF step
      <4> QED
        BY <2>2
    <3>2. k # 0 => step(g, k) = step(f, k)
      <4> HIDE DEF g
      <4> QED
        BY <3>1
    <3>3. CASE k = m + 1
      <4> HIDE DEF step
      <4> QED
        BY <2>2, <3>2, <3>3
    <3>4. CASE k \in 0 .. m
      <4>1. f[k] = IF k = 0 THEN <<>> ELSE step(f, k)
        <5> HIDE DEF step
        <5> QED
          BY <2>1, <3>4
      <4>2. g[k] = f[k]
        <5> HIDE DEF step
        <5> QED
          BY <2>2, <3>4
      <4> HIDE DEF step, g
      <4> QED
        BY <3>2, <4>1, <4>2
    <3> QED
      BY <2>2, <3>3, <3>4
  <2>6. Rec(g, m + 1)
    <3> HIDE DEF step
    <3> QED
      BY <2>5
  <2> HIDE DEF g, Rec
  <2> QED
    BY <1>1, <2>4, <2>6
<1>4. PICK f \in [0 .. Len(ls) -> Bytes] : Rec(f, Len(ls))
  <2> HIDE DEF S
  <2>1. 0 .. Len(ls) \subseteq S
    BY <1>1, <1>2, <1>3, UpTo
  <2>2. Len(ls) \in S
    BY <1>1, <2>1
  <2> QED
    BY <2>2 DEF S
<1>5. Rec(kept, Len(ls))
  <2> HIDE DEF Rec
  <2> QED
    BY <1>4
<1>6. \A n : without(names, ls, n) = kept[n]
  BY DEF without
<1> HIDE DEF kept
<1>7. kept[0] = <<>> /\ \A n \in 1 .. Len(ls) : kept[n] = step(kept, n)
  <2> HIDE DEF step
  <2> QED
    BY <1>1, <1>5
<1>8. \A n \in 0 .. Len(ls) : kept[n] \in Bytes
  <2> DEFINE T == {n \in 0 .. Len(ls) : kept[n] \in Bytes}
  <2>1. 0 \in T
    BY <1>1, <1>7, Empties
  <2>2. ASSUME NEW k \in 0 .. Len(ls) - 1, k \in T PROVE k + 1 \in T
    <3>1. k + 1 \in 1 .. Len(ls) /\ k + 1 - 1 = k /\ kept[k] \in Bytes /\ k + 1 \in 0 .. Len(ls)
      BY <1>1, <2>2
    <3>2. kept[k] \o ls[k + 1] \in Bytes
      BY <1>1, <3>1, Concat
    <3>3. kept[k + 1] = IF ls[k + 1][1] \in names THEN kept[k] ELSE kept[k] \o ls[k + 1]
      BY <1>7, <3>1
    <3> QED
      BY <3>1, <3>2, <3>3
  <2> HIDE DEF T
  <2>3. 0 .. Len(ls) \subseteq T
    BY <1>1, <2>1, <2>2, UpTo
  <2> QED
    BY <2>3 DEF T
<1> QED
  BY <1>6, <1>7, <1>8

(* The first n lines, and the others.                                      *)
first(ls, n) == without({}, ls, n)

LEMMA First ==
  ASSUME NEW ls \in Seq(Bytes)
  PROVE  /\ first(ls, 0) = <<>>
         /\ \A n \in 1 .. Len(ls) : first(ls, n) = first(ls, n - 1) \o ls[n]
         /\ \A n \in 0 .. Len(ls) - 1 : first(ls, n + 1) = first(ls, n) \o ls[n + 1]
         /\ \A n \in 0 .. Len(ls) : first(ls, n) \in Bytes
<1>1. /\ without({}, ls, 0) = <<>>
      /\ \A n \in 1 .. Len(ls) :
            without({}, ls, n) = IF ls[n][1] \in {} THEN without({}, ls, n - 1) ELSE without({}, ls, n - 1) \o ls[n]
      /\ \A n \in 0 .. Len(ls) : without({}, ls, n) \in Bytes
  BY Without
<1>2. \A n : ls[n][1] \notin {}
  OBVIOUS
<1>3. \A n \in 1 .. Len(ls) : first(ls, n) = first(ls, n - 1) \o ls[n]
  BY <1>1, <1>2 DEF first
<1>4. ASSUME NEW n \in 0 .. Len(ls) - 1 PROVE first(ls, n + 1) = first(ls, n) \o ls[n + 1]
  <2> DEFINE k == n + 1
  <2>1. k \in 1 .. Len(ls) /\ k - 1 = n
    BY LenProperties
  <2> HIDE DEF k
  <2>2. first(ls, k) = first(ls, k - 1) \o ls[k]
    BY <1>3, <2>1
  <2> QED
    BY <2>1, <2>2 DEF k
<1> QED
  BY <1>1, <1>3, <1>4 DEF first

LEMMA FirstOf ==
  ASSUME NEW ls \in Seq(Bytes), NEW n \in 0 .. Len(ls)
  PROVE  \E more \in Bytes : first(ls, Len(ls)) = first(ls, n) \o more
<1> DEFINE all == first(ls, Len(ls))
           more_after(d) == \E more \in Bytes : all = first(ls, Len(ls) - d) \o more
           S == {d \in 0 .. Len(ls) : more_after(d)}
<1>1. Len(ls) \in Nat /\ \A k \in 1 .. Len(ls) : ls[k] \in Bytes
  BY LenProperties, ElementOfSeq
<1>2. /\ \A k \in 1 .. Len(ls) : first(ls, k) = first(ls, k - 1) \o ls[k]
      /\ \A k \in 0 .. Len(ls) : first(ls, k) \in Bytes
  BY First
<1>3. all \in Bytes /\ Len(ls) - 0 = Len(ls)
  BY <1>1, <1>2
<1> HIDE DEF all
<1>4. 0 \in S
  <2>1. all = first(ls, Len(ls) - 0) \o <<>> /\ <<>> \in Bytes
    BY <1>3, Empties DEF all
  <2>2. more_after(0)
    BY <2>1
  <2> HIDE DEF more_after
  <2> QED
    BY <1>1, <2>2
<1>5. ASSUME NEW d \in 0 .. Len(ls) - 1, d \in S PROVE d + 1 \in S
  <2>1. PICK more \in Bytes : all = first(ls, Len(ls) - d) \o more
    BY <1>5
  <2> DEFINE k == Len(ls) - d
  <2>2. k \in 1 .. Len(ls) /\ k - 1 \in 0 .. Len(ls) /\ k - 1 = Len(ls) - (d + 1) /\ d + 1 \in 0 .. Len(ls)
    BY <1>1
  <2>3. all = first(ls, k) \o more
    BY <2>1
  <2> HIDE DEF k
  <2>4. first(ls, k) = first(ls, k - 1) \o ls[k] /\ first(ls, k - 1) \in Bytes /\ ls[k] \in Bytes
    BY <1>1, <1>2, <2>2
  <2>5. (first(ls, k - 1) \o ls[k]) \o more = first(ls, k - 1) \o (ls[k] \o more)
    BY <2>4, Assoc
  <2>6. ls[k] \o more \in Bytes
    BY <2>4, Concat
  <2>7. all = first(ls, Len(ls) - (d + 1)) \o (ls[k] \o more)
    BY <2>2, <2>3, <2>4, <2>5
  <2> QED
    BY <2>2, <2>6, <2>7
<1>6. 0 .. Len(ls) \subseteq S
  <2> HIDE DEF S
  <2> QED
    BY <1>1, <1>4, <1>5, UpTo
<1>7. Len(ls) - n \in S /\ Len(ls) - (Len(ls) - n) = n
  <2>1. Len(ls) - n \in 0 .. Len(ls) /\ Len(ls) - (Len(ls) - n) = n
    BY <1>1
  <2> HIDE DEF S
  <2> QED
    BY <1>6, <2>1
<1> QED
  BY <1>7 DEF all

(* FlattenSeq is all the lines.                                            *)
LEMMA Flatten ==
  ASSUME NEW ls \in Seq(Bytes)
  PROVE  FlattenSeq(ls) = first(ls, Len(ls))
<1> DEFINE n == Len(ls)
           flatten == CHOOSE f : f = [i \in 1 .. n |-> IF i = 1 THEN ls[i] ELSE f[i - 1] \o ls[i]]
           g == [i \in 1 .. n |-> first(ls, i)]
<1>1. n \in Nat /\ \A k \in 1 .. n : ls[k] \in Bytes
  BY LenProperties, ElementOfSeq
<1>7. /\ first(ls, 0) = <<>>
      /\ \A k \in 1 .. n : first(ls, k) = first(ls, k - 1) \o ls[k]
      /\ \A k \in 0 .. n - 1 : first(ls, k + 1) = first(ls, k) \o ls[k + 1]
  BY First
<1>2. n = 0 => FlattenSeq(ls) = first(ls, n)
  <2>1. n = 0 => ls = <<>>
    BY EmptySeq
  <2> QED
    BY <1>7, <2>1 DEF FlattenSeq
<1>3. g = [i \in 1 .. n |-> IF i = 1 THEN ls[i] ELSE g[i - 1] \o ls[i]]
  <2>1. ASSUME NEW i \in 1 .. n PROVE first(ls, i) = IF i = 1 THEN ls[i] ELSE g[i - 1] \o ls[i]
    <3>1. first(ls, i) = first(ls, i - 1) \o ls[i] /\ first(ls, 0) = <<>> /\ ls[i] \in Bytes
      BY <1>1, <1>7
    <3>2. CASE i = 1
      <4>1. <<>> \o ls[i] = ls[i] /\ i - 1 = 0
        BY <3>1, <3>2, Empties
      <4> QED
        BY <3>1, <3>2, <4>1
    <3>3. CASE i # 1
      <4>1. i - 1 \in 1 .. n
        BY <1>1, <3>3
      <4>2. g[i - 1] = first(ls, i - 1)
        BY <4>1
      <4> QED
        BY <3>1, <3>3, <4>2
    <3> QED
      BY <3>2, <3>3
  <2> DEFINE h == [i \in 1 .. n |-> IF i = 1 THEN ls[i] ELSE g[i - 1] \o ls[i]]
  <2>2. \A i \in 1 .. n : g[i] = h[i]
    BY <2>1
  <2> QED
    BY <2>2
<1>4. flatten = [i \in 1 .. n |-> IF i = 1 THEN ls[i] ELSE flatten[i - 1] \o ls[i]]
  <2> HIDE DEF g, n
  <2>1. \E f : f = [i \in 1 .. n |-> IF i = 1 THEN ls[i] ELSE f[i - 1] \o ls[i]]
    BY <1>3
  <2> QED
    BY <2>1, Zenon
<1> HIDE DEF flatten
<1>5. \A i \in 1 .. n : flatten[i] = first(ls, i)
  <2> DEFINE T == {i \in 0 .. n : i = 0 \/ flatten[i] = first(ls, i)}
  <2>1. 0 \in T
    BY <1>1
  <2>2. ASSUME NEW i \in 0 .. n - 1, i \in T PROVE i + 1 \in T
    <3>1. i + 1 \in 1 .. n /\ i + 1 - 1 = i /\ i + 1 \in 0 .. n /\ (i = 0 <=> i + 1 = 1)
      BY <1>1
    <3>2. first(ls, i + 1) = first(ls, i) \o ls[i + 1] /\ first(ls, 0) = <<>> /\ ls[i + 1] \in Bytes
      BY <1>1, <1>7, <3>1
    <3>3. flatten[i + 1] = IF i + 1 = 1 THEN ls[i + 1] ELSE flatten[i] \o ls[i + 1]
      <4> DEFINE k == i + 1
      <4>1. k \in 1 .. n /\ k - 1 = i
        BY <3>1
      <4> HIDE DEF n, k
      <4>2. flatten[k] = IF k = 1 THEN ls[k] ELSE flatten[k - 1] \o ls[k]
        BY <1>4, <4>1
      <4> QED
        BY <4>1, <4>2 DEF k
    <3>4. CASE i = 0
      <4>1. <<>> \o ls[i + 1] = ls[i + 1]
        BY <3>2, Empties
      <4> QED
        BY <3>1, <3>2, <3>3, <3>4, <4>1
    <3>5. CASE i # 0
      BY <2>2, <3>1, <3>2, <3>3, <3>5
    <3> QED
      BY <3>4, <3>5
  <2> HIDE DEF T
  <2>3. 0 .. n \subseteq T
    BY <1>1, <2>1, <2>2, UpTo
  <2> QED
    BY <1>1, <2>3 DEF T
<1>6. n # 0 => FlattenSeq(ls) = flatten[n]
  BY DEF FlattenSeq, flatten
<1> HIDE DEF n
<1>8. n # 0 => n \in 1 .. n
  BY <1>1
<1> QED
  BY <1>1, <1>2, <1>5, <1>6, <1>8 DEF n

(* The head first.                                                         *)
LEMMA FlattenHead ==
  ASSUME NEW ls \in Seq(Bytes), ls # <<>>
  PROVE  /\ Head(ls) \in Bytes /\ Tail(ls) \in Seq(Bytes)
         /\ FlattenSeq(ls) = Head(ls) \o FlattenSeq(Tail(ls))
         /\ FlattenSeq(ls) \in Bytes /\ FlattenSeq(Tail(ls)) \in Bytes
<1> DEFINE h == Head(ls)
           tl == Tail(ls)
           same(n) == first(ls, n + 1) = h \o first(tl, n)
           S == {n \in 0 .. Len(tl) : same(n)}
<1>1. /\ Len(ls) \in Nat /\ h = ls[1] /\ h \in Bytes /\ tl \in Seq(Bytes) /\ Len(tl) = Len(ls) - 1
      /\ \A i \in 1 .. Len(tl) : tl[i] = ls[i + 1]
  BY HeadTailProperties, LenProperties
<1>2. Len(tl) \in Nat /\ (\A i \in 1 .. Len(tl) : tl[i] \in Bytes) /\ \A i \in 0 .. Len(tl) : first(tl, i) \in Bytes
  BY <1>1, LenProperties, ElementOfSeq, First
<1>9. /\ first(ls, 0) = <<>> /\ first(tl, 0) = <<>>
      /\ \A k \in 0 .. Len(ls) - 1 : first(ls, k + 1) = first(ls, k) \o ls[k + 1]
      /\ \A k \in 0 .. Len(tl) - 1 : first(tl, k + 1) = first(tl, k) \o tl[k + 1]
  <2> HIDE DEF tl, h
  <2> QED
    BY <1>1, First
<1> HIDE DEF tl, h
<1>3. 0 \in S
  <2>1. 0 \in 0 .. Len(ls) - 1 /\ 0 + 1 = 1 /\ 0 \in 0 .. Len(tl)
    BY <1>1, <1>2
  <2>2. first(ls, 1) = <<>> \o h /\ first(tl, 0) = <<>>
    BY <1>1, <1>9, <2>1
  <2>3. <<>> \o h = h /\ h \o <<>> = h
    BY <1>1, Empties
  <2>4. same(0)
    BY <2>1, <2>2, <2>3
  <2> HIDE DEF same
  <2> QED
    BY <2>1, <2>4
<1>4. ASSUME NEW n \in 0 .. Len(tl) - 1, n \in S PROVE n + 1 \in S
  <2> DEFINE k == n + 1
  <2>1. k \in 1 .. Len(tl) /\ k \in 0 .. Len(tl) /\ k \in 0 .. Len(ls) - 1 /\ n \in 0 .. Len(tl)
    BY <1>1, <1>2
  <2> HIDE DEF k
  <2>2. first(ls, k + 1) = first(ls, k) \o ls[k + 1]
    BY <1>9, <2>1
  <2>6. first(tl, n + 1) = first(tl, n) \o tl[n + 1]
    BY <1>9
  <2>3. ls[k + 1] = tl[k] /\ tl[k] \in Bytes /\ first(tl, n) \in Bytes
    BY <1>1, <1>2, <2>1
  <2>4. first(ls, n + 1) = h \o first(tl, n)
    BY <1>4
  <2>5. (h \o first(tl, n)) \o tl[k] = h \o (first(tl, n) \o tl[k])
    BY <1>1, <2>3, Assoc
  <2>7. same(k)
    BY <2>2, <2>3, <2>4, <2>5, <2>6 DEF k
  <2> HIDE DEF same
  <2> QED
    BY <2>1, <2>7 DEF k
<1>5. Len(tl) \in S
  <2> HIDE DEF S
  <2>1. 0 .. Len(tl) \subseteq S
    BY <1>2, <1>3, <1>4, UpTo
  <2> QED
    BY <1>2, <2>1
<1>6. FlattenSeq(ls) = first(ls, Len(ls)) /\ FlattenSeq(tl) = first(tl, Len(tl))
  BY <1>1, Flatten
<1>7. first(tl, Len(tl)) \in Bytes
  BY <1>2
<1>8. first(ls, Len(ls)) = h \o first(tl, Len(tl))
  <2>1. Len(tl) + 1 = Len(ls)
    BY <1>1
  <2> QED
    BY <1>5, <2>1
<1>10. h \o first(tl, Len(tl)) \in Bytes
  BY <1>1, <1>7, Concat
<1> QED
  BY <1>1, <1>6, <1>7, <1>8, <1>10 DEF h, tl

-----------------------------------------------------------------------------
(* Uris.                                                                   *)

LEMMA ContainsEither ==
  ASSUME NEW a \in Bytes, NEW b \in Bytes, NEW c
  PROVE  Contains(a \o b, c) <=> Contains(a, c) \/ Contains(b, c)
<1>1. /\ a \o b \in Bytes
      /\ Len(a \o b) = Len(a) + Len(b)
      /\ \A i \in 1 .. Len(a) : (a \o b)[i] = a[i]
      /\ \A i \in 1 .. Len(b) : (a \o b)[Len(a) + i] = b[i]
  BY Concat
<1>2. Len(a) \in Nat /\ Len(b) \in Nat
  BY Empties
<1> DEFINE w == a \o b
<1> HIDE DEF w
<1>3. ASSUME NEW i \in 1 .. Len(w), w[i] = c PROVE Contains(a, c) \/ Contains(b, c)
  <2>1. CASE i <= Len(a)
    <3>1. i \in 1 .. Len(a) /\ a[i] = c
      BY <1>1, <1>2, <1>3, <2>1 DEF w
    <3> QED
      BY <3>1 DEF Contains
  <2>2. CASE i > Len(a)
    <3>1. i - Len(a) \in 1 .. Len(b) /\ i = Len(a) + (i - Len(a))
      BY <1>1, <1>2, <2>2 DEF w
    <3>2. b[i - Len(a)] = c
      BY <1>1, <1>3, <3>1 DEF w
    <3> QED
      BY <3>1, <3>2 DEF Contains
  <2> QED
    BY <1>1, <1>2, <2>1, <2>2 DEF w
<1>4. ASSUME NEW i \in 1 .. Len(a), a[i] = c PROVE Contains(w, c)
  <2>1. i \in 1 .. Len(w) /\ w[i] = c
    BY <1>1, <1>2, <1>4 DEF w
  <2> QED
    BY <2>1 DEF Contains
<1>5. ASSUME NEW i \in 1 .. Len(b), b[i] = c PROVE Contains(w, c)
  <2>1. Len(a) + i \in 1 .. Len(w) /\ w[Len(a) + i] = c
    BY <1>1, <1>2, <1>5 DEF w
  <2> QED
    BY <2>1 DEF Contains
<1>6. Contains(w, c) => Contains(a, c) \/ Contains(b, c)
  <2> SUFFICES ASSUME Contains(w, c) PROVE Contains(a, c) \/ Contains(b, c)
    OBVIOUS
  <2>1. PICK i \in 1 .. Len(w) : w[i] = c
    BY DEF Contains
  <2> QED
    BY <1>3, <2>1
<1>7. Contains(a, c) \/ Contains(b, c) => Contains(w, c)
  BY <1>4, <1>5 DEF Contains
<1> QED
  BY <1>6, <1>7 DEF w

LEMMA ContainsOne ==
  ASSUME NEW d \in Word, NEW c
  PROVE  <<d>> \in Bytes /\ Len(<<d>>) = 1 /\ <<d>>[1] = d /\ (Contains(<<d>>, c) <=> d = c) /\ ~Contains(<<>>, c)
<1>1. <<d>> \in Bytes /\ Len(<<d>>) = 1
  BY Tuples DEF Bytes
<1>2. <<d>>[1] = d /\ 1 .. 1 = {1} /\ Len(<<>>) = 0 /\ 1 .. 0 = {}
  OBVIOUS
<1> QED
  BY <1>1, <1>2 DEF Contains

(* The two parts of a sequence, and the first of a byte.                   *)
LEMMA Parts ==
  ASSUME NEW a \in Bytes, NEW b \in Bytes
  PROVE  SubSeq(a \o b, 1, Len(a)) = a /\ from(a \o b, Len(a) + 1) = b
<1> DEFINE w == a \o b
<1>1. w \in Bytes /\ Len(a) \in 0 .. Len(w) /\ \A i \in 1 .. Len(a) : w[i] = a[i]
  <2>1. Len(a) \in Nat /\ Len(b) \in Nat
    BY Empties
  <2>2. w \in Bytes /\ Len(w) = Len(a) + Len(b) /\ \A i \in 1 .. Len(a) : w[i] = a[i]
    BY Concat
  <2> HIDE DEF w
  <2> QED
    BY <2>1, <2>2
<1> HIDE DEF w
<1> DEFINE p == SubSeq(w, 1, Len(a))
           q == from(w, Len(a) + 1)
<1>2. p \in Bytes /\ q \in Bytes /\ Len(p) = Len(a) /\ (\A i \in 1 .. Len(a) : p[i] = w[i]) /\ p \o q = w
  BY <1>1, Split
<1> HIDE DEF p, q
<1>3. \A i \in 1 .. Len(p) : p[i] = a[i]
  BY <1>1, <1>2
<1>4. p = a
  BY <1>2, <1>3, Same
<1>5. a \o q = a \o b
  BY <1>2, <1>4 DEF w
<1>6. q = b
  BY <1>2, <1>5, Cancel
<1> QED
  BY <1>4, <1>6 DEF p, q, w

LEMMA Index ==
  ASSUME NEW w \in Bytes, NEW c, NEW k \in 1 .. Len(w), w[k] = c, \A i \in 1 .. k - 1 : w[i] # c
  PROVE  /\ before(w, c) = SubSeq(w, 1, k - 1)
         /\ after(w, c) = from(w, k + 1)
<1> DEFINE I == { i \in 1 .. Len(w) : w[i] = c }
           index == SelectInSeq(w, LAMBDA x : x = c)
<1>1. Len(w) \in Nat
  BY Empties
<1>2. k \in I /\ \A i \in I : k <= i
  BY <1>1
<1>3. I \subseteq Int
  BY <1>1
<1>4. index = Min(I)
  BY <1>2 DEF SelectInSeq
<1> HIDE DEF I
<1>5. \A x \in I : (\A y \in I : x <= y) => x = k
  BY <1>1, <1>2, <1>3
<1>6. Min(I) = k
  BY <1>2, <1>5 DEF Min
<1>7. index = k /\ k # 0
  BY <1>1, <1>4, <1>6
<1>8. before(w, c) = IF index = 0 THEN w ELSE SubSeq(w, 1, index - 1)
  BY DEF before
<1>9. after(w, c) = IF index = 0 THEN <<>> ELSE from(w, index + 1)
  BY DEF after
<1> HIDE DEF index
<1> QED
  BY <1>7, <1>8, <1>9

(* What is before and after the first of a byte.                           *)
LEMMA Absent ==
  ASSUME NEW a \in Bytes, NEW c, ~Contains(a, c)
  PROVE  before(a, c) = a /\ after(a, c) = <<>> /\ rest(a, c) = <<>>
<1>1. { i \in 1 .. Len(a) : a[i] = c } = {}
  BY DEF Contains
<1>2. before(a, c) = a /\ after(a, c) = <<>>
  BY <1>1 DEF before, after, SelectInSeq
<1>3. SubSeq(a, Len(a) + 1, Len(a)) = <<>>
  <2>1. Len(a) + 1 \in Int /\ Len(a) \in Int /\ Len(a) < Len(a) + 1
    BY Empties
  <2> QED
    BY <2>1, SubSeqEmpty
<1> QED
  BY <1>2, <1>3 DEF rest, from

LEMMA Cut ==
  ASSUME NEW a \in Bytes, NEW c \in Word, NEW b \in Bytes, ~Contains(a, c)
  PROVE  /\ before(a \o (<<c>> \o b), c) = a
         /\ after(a \o (<<c>> \o b), c) = b
         /\ rest(a \o (<<c>> \o b), c) = <<c>> \o b
<1> DEFINE one == <<c>>
           ac == a \o one
           cb == one \o b
           w == a \o cb
           n == Len(a)
<1>1. n \in Nat /\ Len(b) \in Nat
  BY Empties
<1>2. one \in Bytes /\ Len(one) = 1 /\ one[1] = c /\ 1 \in 1 .. 1
  <2>1. one \in Bytes /\ Len(one) = 1 /\ one[1] = c
    BY ContainsOne
  <2> QED
    BY <2>1
<1> HIDE DEF one
<1>3. cb \in Bytes /\ Len(cb) = 1 + Len(b) /\ cb[1] = c
  <2>1. cb \in Bytes /\ Len(cb) = Len(one) + Len(b) /\ \A i \in 1 .. Len(one) : cb[i] = one[i]
    BY <1>2, Concat
  <2> HIDE DEF cb
  <2> QED
    BY <1>2, <2>1
<1>4. ac \in Bytes /\ Len(ac) = n + 1
  <2>1. ac \in Bytes /\ Len(ac) = n + Len(one)
    BY <1>2, Concat
  <2> HIDE DEF ac
  <2> QED
    BY <1>2, <2>1
<1> HIDE DEF cb
<1>5. w \in Bytes /\ n + 1 \in 1 .. Len(w) /\ w[n + 1] = c /\ \A i \in 1 .. n : w[i] # c
  <2>1. w \in Bytes /\ Len(w) = n + Len(cb) /\ (\A i \in 1 .. n : w[i] = a[i])
        /\ \A i \in 1 .. Len(cb) : w[n + i] = cb[i]
    BY <1>3, Concat
  <2>2. \A i \in 1 .. n : a[i] # c
    BY DEF Contains
  <2> HIDE DEF w, n
  <2>3. 1 \in 1 .. Len(cb)
    BY <1>1, <1>3
  <2>4. w[n + 1] = c
    BY <1>3, <2>1, <2>3
  <2>5. n + 1 \in 1 .. Len(w)
    BY <1>1, <1>3, <2>1
  <2>6. \A i \in 1 .. n : w[i] # c
    BY <2>1, <2>2
  <2> QED
    BY <2>1, <2>4, <2>5, <2>6
<1>6. w = ac \o b
  BY <1>2, Assoc DEF cb
<1> HIDE DEF ac
<1>7. SubSeq(w, 1, n) = a /\ from(w, n + 1) = cb
  BY <1>3, Parts
<1>8. from(w, n + 1 + 1) = b
  BY <1>4, <1>6, Parts
<1> DEFINE k == n + 1
<1>9. k \in 1 .. Len(w) /\ k - 1 = n /\ \A i \in 1 .. k - 1 : w[i] # c
  <2> HIDE DEF w, n
  <2>1. k - 1 = n
    BY <1>1
  <2>2. k \in 1 .. Len(w)
    BY <1>5
  <2> HIDE DEF k
  <2> QED
    BY <1>5, <2>1, <2>2
<1>10. before(w, c) = SubSeq(w, 1, k - 1) /\ after(w, c) = from(w, k + 1)
  <2>1. w[k] = c
    BY <1>5
  <2> HIDE DEF w, k
  <2> QED
    BY <1>5, <1>9, <2>1, Index
<1>11. before(w, c) = a /\ after(w, c) = b
  <2> HIDE DEF w, n
  <2> QED
    BY <1>7, <1>8, <1>9, <1>10
<1>12. rest(w, c) = cb
  BY <1>7, <1>11 DEF rest
<1> QED
  BY <1>11, <1>12 DEF cb, one

(* However a uri is written, what it means is parsed.                      *)
LEMMA Slash ==
  ASSUME NEW p \in Bytes, p # <<>>, Head(p) = "/"
  PROVE  \E tl \in Bytes : p = <<"/">> \o tl
<1>1. Len(p) \in Nat \ {0}
  BY Empties, EmptySeq DEF Bytes
<1>2. 1 \in 0 .. Len(p)
  BY <1>1
<1>3. /\ SubSeq(p, 1, 1) \in Bytes /\ from(p, 2) \in Bytes /\ Len(SubSeq(p, 1, 1)) = 1
      /\ \A i \in 1 .. 1 : SubSeq(p, 1, 1)[i] = p[i]
      /\ SubSeq(p, 1, 1) \o from(p, 2) = p
  <2>1. /\ SubSeq(p, 1, 1) \in Bytes /\ from(p, 1 + 1) \in Bytes /\ Len(SubSeq(p, 1, 1)) = 1
        /\ \A i \in 1 .. 1 : SubSeq(p, 1, 1)[i] = p[i]
        /\ SubSeq(p, 1, 1) \o from(p, 1 + 1) = p
    BY <1>2, Split
  <2>2. 1 + 1 = 2
    OBVIOUS
  <2> QED
    BY <2>1, <2>2
<1>4. "/" \in Word /\ p[1] = "/"
  BY Words DEF Literals
<1>5. <<"/">> \in Bytes /\ Len(<<"/">>) = 1 /\ <<"/">>[1] = "/"
  BY <1>4, ContainsOne
<1>6. \A i \in 1 .. 1 : SubSeq(p, 1, 1)[i] = <<"/">>[i]
  BY <1>3, <1>4, <1>5
<1>7. SubSeq(p, 1, 1) = <<"/">>
  BY <1>3, <1>5, <1>6, Same
<1> QED
  BY <1>3, <1>7

LEMMA Parsed ==
  ASSUME NEW u \in DOMAIN Means, NEW junk
  PROVE  parse_uri(UriText[u], junk) = [host |-> Means[u].host, port |-> Means[u].port, path |-> Means[u].path]
<1> DEFINE host == Means[u].host
           port == Means[u].port
           path == Means[u].path
           http == <<"http://">>
           colon == <<":">>
<1>1. /\ host \in Bytes /\ port \in Bytes /\ path \in Bytes
      /\ host # <<>> /\ port # <<>> /\ path # <<>> /\ Head(path) = "/"
  BY MeansAssumption, Words
<1>2. /\ ~Contains(host, "http://") /\ ~Contains(host, ":") /\ ~Contains(host, "/")
      /\ ~Contains(port, "http://") /\ ~Contains(port, "/")
  BY MeansAssumption DEF has
<1>3. PICK scheme, sign :
           /\ UriText[u] = scheme \o host \o sign \o path
           /\ scheme = http \/ (scheme = <<>> /\ ~Contains(path, "http://"))
           /\ sign = colon \o port \/ (sign = <<>> /\ port = <<"80">> /\ ~Contains(path, ":"))
  BY MeansAssumption DEF writes
<1>4. PICK tl \in Bytes : path = <<"/">> \o tl
  BY <1>1, Slash
<1>5. http \in Bytes /\ colon \in Bytes /\ \A c : (Contains(colon, c) <=> ":" = c) /\ ~Contains(<<>>, c)
  <2>1. "http://" \in Word /\ ":" \in Word
    BY Words DEF Literals
  <2>2. http \in Bytes
    BY <2>1, ContainsOne
  <2>3. colon \in Bytes /\ \A c : (Contains(colon, c) <=> ":" = c) /\ ~Contains(<<>>, c)
    BY <2>1, ContainsOne
  <2> QED
    BY <2>2, <2>3
<1> HIDE DEF host, port, path, http
<1>6. sign \in Bytes /\ ~Contains(sign, "http://") /\ scheme \in Bytes
  <2>1. sign = <<>> => sign \in Bytes /\ ~Contains(sign, "http://")
    BY <1>5, Empties
  <2>2. colon \o port \in Bytes /\ ~Contains(colon \o port, "http://")
    <3>1. colon \o port \in Bytes
      BY <1>1, <1>5, Concat
    <3>2. Contains(colon \o port, "http://") <=> Contains(colon, "http://") \/ Contains(port, "http://")
      BY <1>1, <1>5, ContainsEither
    <3>3. ":" # "http://"
      OBVIOUS
    <3> QED
      BY <1>2, <1>5, <3>1, <3>2, <3>3
  <2>3. scheme \in Bytes
    BY <1>3, <1>5, Empties
  <2> QED
    BY <1>3, <2>1, <2>2, <2>3
<1> DEFINE text == host \o (sign \o path)
           asked == UriText[u]
           stripped == IF Contains(asked, "http://") THEN after(asked, "http://") ELSE asked
<1>7. sign \o path \in Bytes
  BY <1>1, <1>6, Concat
<1>8. text \in Bytes
  BY <1>1, <1>7, Concat
<1>9. asked = scheme \o text
  <2>1. scheme \o host \in Bytes /\ (scheme \o host) \o sign \in Bytes
    <3>1. scheme \o host \in Bytes
      BY <1>1, <1>6, Concat
    <3> QED
      BY <1>6, <3>1, Concat
  <2>2. ((scheme \o host) \o sign) \o path = (scheme \o host) \o (sign \o path)
    <3> DEFINE start == scheme \o host
    <3>1. start \in Bytes
      BY <2>1
    <3> HIDE DEF start
    <3>2. (start \o sign) \o path = start \o (sign \o path)
      BY <1>1, <1>6, <3>1, Assoc
    <3> QED
      BY <3>2 DEF start
  <2>3. (scheme \o host) \o (sign \o path) = scheme \o text
    <3> DEFINE remaining == sign \o path
    <3>1. scheme \in Bytes /\ host \in Bytes /\ remaining \in Bytes
      BY <1>1, <1>6, <1>7
    <3> HIDE DEF remaining, text, asked, stripped
    <3>2. (scheme \o host) \o remaining = scheme \o (host \o remaining)
      BY <3>1, Assoc
    <3> QED
      BY <3>2 DEF remaining, text
  <2> QED
    BY <1>3, <2>2, <2>3
<1>10. \A c : Contains(text, c) <=> Contains(host, c) \/ Contains(sign, c) \/ Contains(path, c)
  <2> TAKE c
  <2>1. Contains(text, c) <=> Contains(host, c) \/ Contains(sign \o path, c)
    BY <1>1, <1>7, ContainsEither
  <2>2. Contains(sign \o path, c) <=> Contains(sign, c) \/ Contains(path, c)
    BY <1>1, <1>6, ContainsEither
  <2> QED
    BY <2>1, <2>2
<1>11. stripped = text
  <2>1. CASE scheme = http
    <3>1. /\ after(<<>> \o (<<"http://">> \o text), "http://") = text
      <4>1. <<>> \in Bytes /\ "http://" \in Word /\ ~Contains(<<>>, "http://")
        BY <1>5, Empties, Words DEF Literals
      <4> HIDE DEF text
      <4> QED
        BY <1>8, <4>1, Cut
    <3>2. <<>> \o (<<"http://">> \o text) = <<"http://">> \o text
      <4>1. http \o text \in Bytes
        BY <1>5, <1>8, Concat
      <4> QED
        BY <4>1, Empties DEF http
    <3>3. Contains(asked, "http://")
      <4>1. Contains(http \o text, "http://") <=> Contains(http, "http://") \/ Contains(text, "http://")
        BY <1>5, <1>8, ContainsEither
      <4>2. Contains(http, "http://")
        <5>1. "http://" \in Word
          BY Words DEF Literals
        <5> QED
          BY <5>1, ContainsOne DEF http
      <4> QED
        BY <1>9, <2>1, <4>1, <4>2
    <3>4. asked = <<"http://">> \o text
      BY <1>9, <2>1 DEF http
    <3> HIDE DEF asked, text
    <3> QED
      BY <3>1, <3>2, <3>3, <3>4
  <2>2. CASE scheme = <<>> /\ ~Contains(path, "http://")
    <3>1. asked = text
      BY <1>8, <1>9, <2>2, Empties
    <3>2. ~Contains(text, "http://")
      BY <1>2, <1>6, <1>10, <2>2
    <3> HIDE DEF asked, text
    <3> QED
      BY <3>1, <3>2
  <2> QED
    BY <1>3, <2>1, <2>2
<1> DEFINE parsed == [host |-> host, port |-> port, path |-> path]
<1>12. CASE sign = colon \o port
  <2>1. text = host \o (colon \o (port \o path)) /\ port \o path \in Bytes
    <3>1. sign \o path = colon \o (port \o path)
      BY <1>1, <1>5, <1>12, Assoc
    <3> QED
      BY <1>1, <3>1, Concat
  <2>2. Contains(text, ":")
    <3>1. Contains(colon \o port, ":") <=> Contains(colon, ":") \/ Contains(port, ":")
      BY <1>1, <1>5, ContainsEither
    <3> QED
      BY <1>5, <1>10, <1>12, <3>1
  <2>3. before(text, ":") = host /\ after(text, ":") = port \o path
    <3>1. /\ before(host \o (<<":">> \o (port \o path)), ":") = host
          /\ after(host \o (<<":">> \o (port \o path)), ":") = port \o path
      <4>1. ":" \in Word /\ ~Contains(host, ":")
        BY <1>2, Words DEF Literals
      <4>2. host \in Bytes /\ port \o path \in Bytes
        BY <1>1, <2>1
      <4> HIDE DEF text
      <4> QED
        BY <4>1, <4>2, Cut
    <3> QED
      BY <2>1, <3>1
  <2>4. before(port \o path, "/") = port /\ rest(port \o path, "/") = path
    <3>1. /\ before(port \o (<<"/">> \o tl), "/") = port
          /\ rest(port \o (<<"/">> \o tl), "/") = <<"/">> \o tl
      <4>1. "/" \in Word /\ ~Contains(port, "/")
        BY <1>2, Words DEF Literals
      <4> QED
        BY <1>1, <4>1, Cut
    <3> QED
      BY <1>4, <3>1
  <2> HIDE DEF text, stripped, asked
  <2>5. parse_uri(asked, junk) = parsed
    BY <1>1, <1>11, <2>2, <2>3, <2>4 DEF parse_uri, orJunk, stripped
  <2> QED
    BY <2>5 DEF asked, host, port, path
<1>13. CASE sign = <<>> /\ port = <<"80">> /\ ~Contains(path, ":")
  <2>1. text = host \o path
    BY <1>1, <1>13, Empties
  <2>2. ~Contains(text, ":")
    BY <1>2, <1>5, <1>10, <1>13
  <2>3. before(text, "/") = host /\ rest(text, "/") = path
    <3>1. /\ before(host \o (<<"/">> \o tl), "/") = host
          /\ rest(host \o (<<"/">> \o tl), "/") = <<"/">> \o tl
      <4>1. "/" \in Word /\ ~Contains(host, "/")
        BY <1>2, Words DEF Literals
      <4> QED
        BY <1>1, <4>1, Cut
    <3> QED
      BY <1>4, <2>1, <3>1
  <2> HIDE DEF text, stripped, asked
  <2>4. parse_uri(asked, junk) = parsed
    BY <1>1, <1>11, <1>13, <2>2, <2>3 DEF parse_uri, orJunk, stripped
  <2> QED
    BY <2>4 DEF asked, host, port, path
<1> QED
  BY <1>3, <1>12, <1>13

-----------------------------------------------------------------------------
(* The invariant.                                                          *)

Links == {"c2p", "p2s", "s2p", "p2c"}
Readers == {"c2p", "p2s", "s2p"}
Early == {"request", "headers", "connect", "null dereference", "overflow", "no connection"}
Sending == {"send", "server gone"}
Locations == Early \union Sending \union {"relay", "write", "broken pipe", "close", "done"}

Typed ==
    /\ stream \in [Links -> [bytes : Bytes, eof : BOOLEAN]]
    /\ rio \in [Readers -> [line : Partial, buf : Bytes]]
    /\ proxy \in [pc : Locations, buf : Bytes, host : Bytes, port : Bytes, path : Bytes, out : Bytes,
                  header_host : Bytes, header_other : Bytes, obj_buf : Bytes, obj_size : Nat]
    /\ tiny \in [pc : {"request", "headers", "answer", "done"}, path : Bytes, out : Seq(Bytes)]

meant == Means[given.uri]
lines == given.lines
dropped == headers \union {"Host"}

(* After n lines, the headers kept are those of these lines.               *)
HasRead(n) ==
    /\ first(lines, n) \o Coming("c2p") = first(lines, Len(lines))
    /\ proxy.header_other = without(dropped, lines, n)
    /\ \A i \in 1 .. n : lines[i][1] = "Host" => proxy.header_host = lines[i]
    /\ (\A i \in 1 .. n : lines[i][1] # "Host") => proxy.header_host = <<>>

(* What the worker knows of the request, by what it has read of it.        *)
RequestRead ==
    /\ proxy.pc = "request" =>
          /\ Coming("c2p") = <<"GET", given.uri, NL>> \o first(lines, Len(lines))
          /\ proxy.header_host = <<>> /\ proxy.header_other = <<>>
    /\ proxy.pc = "headers" => \E n \in 0 .. Len(lines) - 1 : HasRead(n)
    /\ proxy.pc = "connect" => http_header(proxy) = Forwarded
    /\ proxy.pc \in {"headers", "connect", "send"} =>
          proxy.host = meant.host /\ proxy.port = meant.port /\ proxy.path = meant.path

(* What is still to be sent to the server, and to the client.              *)
toServer == IF proxy.pc \in Sending THEN proxy.out ELSE <<>>
toClient == IF proxy.pc \in Sending THEN <<>> ELSE proxy.out

(* The server is sent what is forwarded, and answers what is meant.        *)
RequestSent ==
    /\ proxy.pc = "send" => \E sent \in Bytes : sent \o proxy.out = Forwarded
    /\ ~stream["p2s"].eof
    /\ proxy.pc \in Early => tiny.pc = "request"
    /\ tiny.pc = "request" => Coming("p2s") \o toServer = IF proxy.pc \in Early THEN <<>> ELSE Forwarded
    /\ tiny.pc = "headers" => tiny.path = meant.path

(* What was received, is held, is coming and is to be sent is the answer.  *)
received == stream["p2c"].bytes \o toClient
AnswerRelayed ==
    /\ received \o (Coming("s2p") \o FlattenSeq(tiny.out)) =
          IF tiny.pc \in {"request", "headers"} THEN <<>> ELSE Answered
    /\ stream["s2p"].eof => tiny.pc = "done"
    /\ tiny.pc = "done" => tiny.out = <<>>
    /\ proxy.pc \notin Sending \union {"write", "broken pipe"} => proxy.out = <<>>
    /\ proxy.pc \in {"close", "done"} => received = Answered

AnswerCached ==
    /\ proxy.obj_size = Len(received)
    /\ proxy.obj_size < MAX_OBJECT_SIZE /\ ~Contains(Answered, "NUL") => proxy.obj_buf = received
    /\ cached = IF proxy.pc \in {"close", "done"} /\ proxy.obj_size < MAX_OBJECT_SIZE
                THEN [object |-> proxy.obj_buf, size |-> proxy.obj_size] ELSE [object |-> none, size |-> 0]

Exact == Typed /\ RequestRead /\ RequestSent /\ AnswerRelayed /\ AnswerCached
Inv == given \in Requests /\ (Regular => Exact)

-----------------------------------------------------------------------------
(* The steps of reading and writing.                                       *)

LEMMA ComingTyped ==
  ASSUME Typed, NEW e \in Readers
  PROVE  /\ e \in Links
         /\ rio[e] \in [line : Partial, buf : Bytes] /\ stream[e] \in [bytes : Bytes, eof : BOOLEAN]
         /\ rio[e].line \in Bytes /\ rio[e].buf \in Bytes /\ stream[e].bytes \in Bytes
         /\ rio[e].buf \o stream[e].bytes \in Bytes
         /\ Coming(e) \in Bytes
         /\ Coming(e) = rio[e].line \o (rio[e].buf \o stream[e].bytes)
<1>1. e \in Links /\ rio[e] \in [line : Partial, buf : Bytes] /\ stream[e] \in [bytes : Bytes, eof : BOOLEAN]
  BY DEF Typed, Readers, Links
<1>2. rio[e].line \in Bytes /\ rio[e].buf \in Bytes /\ stream[e].bytes \in Bytes
  BY <1>1 DEF Partial
<1>3. rio[e].buf \o stream[e].bytes \in Bytes
  BY <1>2, Concat
<1>4. rio[e].line \o (rio[e].buf \o stream[e].bytes) \in Bytes
  BY <1>2, <1>3, Concat
<1>5. Coming(e) = rio[e].line \o (rio[e].buf \o stream[e].bytes)
  BY <1>2, Assoc DEF Coming
<1> QED
  BY <1>1, <1>2, <1>3, <1>4, <1>5

(* A read moves bytes nearer to the line.                                  *)
LEMMA ReadConserves ==
  ASSUME Typed, NEW e \in Readers, Read(e)
  PROVE  /\ stream' \in [Links -> [bytes : Bytes, eof : BOOLEAN]]
         /\ rio' \in [Readers -> [line : Partial, buf : Bytes]]
         /\ \A g \in Readers : Coming(g)' = Coming(g)
         /\ \A g \in Links : stream'[g].eof = stream[g].eof
         /\ stream'["p2c"] = stream["p2c"]
<1> DEFINE s == stream[e]
           rp == rio[e]
<1>1. PICK done \in reads(s, rp) : stream' = [stream EXCEPT ![e] = done.stream] /\ rio' = [rio EXCEPT ![e] = done.rp]
  BY DEF Read
<1>2. /\ rp \in [line : Partial, buf : Bytes] /\ s \in [bytes : Bytes, eof : BOOLEAN]
      /\ rp.line \in Bytes /\ rp.buf \in Bytes /\ s.bytes \in Bytes /\ e \in Links
  BY ComingTyped
<1>3. /\ stream = [g \in Links |-> stream[g]] /\ rio = [g \in Readers |-> rio[g]]
      /\ \A g \in Links : stream[g] \in [bytes : Bytes, eof : BOOLEAN]
      /\ \A g \in Readers : rio[g] \in [line : Partial, buf : Bytes]
  BY DEF Typed
<1> HIDE DEF s, rp
<1>4. PICK k \in 1 .. least(RIO_BUFSIZE, Len(s.bytes)) :
        /\ ~complete(rp.line) /\ rp.buf = <<>>
        /\ done = [stream |-> [s EXCEPT !.bytes = from(@, k + 1)], rp |-> copied([rp EXCEPT !.buf = SubSeq(s.bytes, 1, k)])]
  BY <1>1 DEF reads
<1>5. k \in 0 .. Len(s.bytes)
  BY <1>2, Empties, RioAssumption DEF least
<1> DEFINE taken == SubSeq(s.bytes, 1, k)
           left == from(s.bytes, k + 1)
           got == [rp EXCEPT !.buf = taken]
<1>6. taken \in Bytes /\ left \in Bytes /\ taken \o left = s.bytes
  BY <1>2, <1>5, Split
<1> HIDE DEF taken, left
<1>7. got \in [line : Partial, buf : Bytes] /\ got.line = rp.line /\ got.buf = taken
  BY <1>2, <1>6
<1>8. done.stream = [s EXCEPT !.bytes = left] /\ done.rp = copied(got)
  BY <1>4 DEF taken, left
<1> HIDE DEF got
<1>9. copied(got) \in [line : Partial, buf : Bytes] /\ copied(got).line \o copied(got).buf = rp.line \o taken
  BY <1>4, <1>7, CopiedConserves
<1>10. done.stream \in [bytes : Bytes, eof : BOOLEAN] /\ done.stream.bytes = left /\ done.stream.eof = s.eof
  BY <1>2, <1>6, <1>8
<1>11. /\ stream' \in [Links -> [bytes : Bytes, eof : BOOLEAN]] /\ stream'[e] = done.stream
       /\ \A g \in Links : g # e => stream'[g] = stream[g]
  BY <1>1, <1>2, <1>3, <1>10
<1>12. /\ rio' \in [Readers -> [line : Partial, buf : Bytes]] /\ rio'[e] = copied(got)
       /\ \A g \in Readers : g # e => rio'[g] = rio[g]
  BY <1>1, <1>2, <1>3, <1>8, <1>9
<1>13. Coming(e)' = Coming(e)
  <2> DEFINE new == copied(got)
  <2>1. new.line \in Bytes /\ new.buf \in Bytes
    BY <1>9 DEF Partial
  <2> HIDE DEF new
  <2>2. Coming(e)' = (new.line \o new.buf) \o left
    BY <1>10, <1>11, <1>12 DEF Coming, new
  <2>3. new.line \o new.buf = rp.line \o taken
    BY <1>9 DEF new
  <2>4. (rp.line \o taken) \o left = rp.line \o (taken \o left)
    BY <1>2, <1>6, Assoc
  <2>5. rp.line \o <<>> = rp.line
    BY <1>2, Empties
  <2>6. Coming(e) = rp.line \o s.bytes
    BY <1>4, <2>5 DEF Coming, s, rp
  <2> QED
    BY <1>6, <2>2, <2>3, <2>4, <2>6
<1>14. ASSUME NEW g \in Readers, g # e PROVE Coming(g)' = Coming(g)
  <2>1. g \in Links
    BY DEF Readers, Links
  <2> QED
    BY <1>11, <1>12, <1>14, <2>1 DEF Coming
<1>15. \A g \in Links : stream'[g].eof = stream[g].eof
  BY <1>10, <1>11 DEF s
<1>16. "p2c" \in Links /\ "p2c" # e
  BY DEF Readers, Links
<1> QED
  BY <1>11, <1>12, <1>13, <1>14, <1>15, <1>16

(* What follows the line comes next.                                       *)
LEMMA NextConserves ==
  ASSUME Typed, NEW e \in Readers, NextLine(e), stream' = stream
  PROVE  /\ rio' \in [Readers -> [line : Partial, buf : Bytes]]
         /\ Coming(e) = rio[e].line \o Coming(e)'
         /\ Coming(e)' = rio[e].buf \o stream[e].bytes
         /\ \A g \in Readers : g # e => Coming(g)' = Coming(g)
<1> DEFINE rp == rio[e]
           cut == [rp EXCEPT !.line = <<>>]
<1>1. /\ rp \in [line : Partial, buf : Bytes] /\ stream[e].bytes \in Bytes
      /\ rp.line \in Bytes /\ rp.buf \in Bytes
      /\ Coming(e) = rp.line \o (rp.buf \o stream[e].bytes)
  BY ComingTyped
<1>2. <<>> \in Partial /\ ~complete(<<>>)
  <2>1. Len(<<>>) = 0 /\ <<>> \in Bytes
    BY Empties
  <2> QED
    BY <2>1, RioAssumption DEF Partial, complete
<1>3. rio = [g \in Readers |-> rio[g]] /\ \A g \in Readers : rio[g] \in [line : Partial, buf : Bytes]
  BY DEF Typed
<1>4. rio' = [rio EXCEPT ![e] = copied(cut)]
  BY DEF NextLine, again
<1> HIDE DEF rp
<1>5. cut \in [line : Partial, buf : Bytes] /\ cut.line = <<>> /\ cut.buf = rp.buf
  BY <1>1, <1>2
<1> HIDE DEF cut
<1>6. copied(cut) \in [line : Partial, buf : Bytes] /\ copied(cut).line \o copied(cut).buf = <<>> \o rp.buf
  BY <1>2, <1>5, CopiedConserves
<1>7. <<>> \o rp.buf = rp.buf
  BY <1>1, Empties
<1>8. /\ rio' \in [Readers -> [line : Partial, buf : Bytes]] /\ rio'[e] = copied(cut)
      /\ \A g \in Readers : g # e => rio'[g] = rio[g]
  BY <1>3, <1>4, <1>6
<1>9. Coming(e)' = rp.buf \o stream[e].bytes
  BY <1>6, <1>7, <1>8 DEF Coming
<1>10. \A g \in Readers : g # e => Coming(g)' = Coming(g)
  BY <1>8 DEF Coming
<1> QED
  BY <1>1, <1>8, <1>9, <1>10 DEF rp

(* What is written is taken from what is to be written.                    *)
LEMMA WrittenAdds ==
  ASSUME Typed, NEW out \in Bytes, NEW e \in Links, NEW done \in written(out, e), stream' = done.stream
  PROVE  /\ stream' \in [Links -> [bytes : Bytes, eof : BOOLEAN]]
         /\ done.out \in Bytes
         /\ \E part \in Bytes : part \o done.out = out /\ stream'[e].bytes = stream[e].bytes \o part
         /\ \A g \in Links : stream'[g].eof = stream[g].eof /\ (g # e => stream'[g] = stream[g])
<1>1. PICK k \in 1 .. Len(out) :
        done = [out |-> from(out, k + 1), stream |-> [stream EXCEPT ![e].bytes = @ \o SubSeq(out, 1, k)]]
  BY DEF written
<1>2. k \in 0 .. Len(out)
  BY Empties
<1> DEFINE part == SubSeq(out, 1, k)
           left == from(out, k + 1)
<1>3. part \in Bytes /\ left \in Bytes /\ part \o left = out
  BY <1>2, Split
<1>4. done.out = left /\ done.stream = [stream EXCEPT ![e].bytes = @ \o part]
  BY <1>1
<1> HIDE DEF part, left
<1>5. stream = [g \in Links |-> stream[g]] /\ \A g \in Links : stream[g] \in [bytes : Bytes, eof : BOOLEAN]
  BY DEF Typed
<1>6. stream[e].bytes \in Bytes
  BY <1>5
<1>7. stream[e].bytes \o part \in Bytes
  BY <1>3, <1>6, Concat
<1> DEFINE new == [stream[e] EXCEPT !.bytes = stream[e].bytes \o part]
<1>8. new \in [bytes : Bytes, eof : BOOLEAN] /\ new.bytes = stream[e].bytes \o part /\ new.eof = stream[e].eof
  BY <1>5, <1>7
<1>9. done.stream = [stream EXCEPT ![e] = new]
  BY <1>4
<1> HIDE DEF new
<1>10. /\ stream' \in [Links -> [bytes : Bytes, eof : BOOLEAN]] /\ stream'[e] = new
       /\ \A g \in Links : g # e => stream'[g] = stream[g]
  BY <1>5, <1>8, <1>9
<1> QED
  BY <1>3, <1>4, <1>8, <1>10

-----------------------------------------------------------------------------
(* What is asked, forwarded and answered.                                  *)

LEMMA Asked ==
  ASSUME given \in Requests, Regular
  PROVE  /\ lines \in Seq(Bytes) /\ Len(lines) \in Nat \ {0}
         /\ \A i \in 1 .. Len(lines) :
               /\ lines[i] \in Bytes /\ IsLine(lines[i]) /\ Len(lines[i]) < MAXLINE /\ lines[i] # <<>>
               /\ (lines[i] = Empty) <=> (i = Len(lines))
               /\ lines[i] # Empty => lines[i][1] \notin NoColon
         /\ \A i, j \in 1 .. Len(lines) : lines[i][1] = "Host" /\ lines[j][1] = "Host" => i = j
         /\ given.stack = <<>> /\ given.method = "GET"
         /\ given.uri \in DOMAIN Means /\ given.uri \in Word /\ given.uri # NL
         /\ given.closes \in BOOLEAN
<1>1. given \in [method : STRING, uri : STRING, lines : Seq(Seq(STRING)), closes : BOOLEAN, stack : Seq(STRING)]
  BY RequestsAssumption
<1>2. given.lines \in Seq(Seq(STRING)) /\ given.closes \in BOOLEAN
  BY <1>1
<1>3. lines \in Seq(Bytes)
  BY <1>2, Words DEF lines
<1>4. Len(lines) \in Nat \ {0} /\ DOMAIN lines = 1 .. Len(lines)
  <2>1. lines # <<>>
    BY DEF Regular, lines
  <2> QED
    BY <1>3, <2>1, EmptySeq, LenProperties
<1>5. given.uri \in DOMAIN Means /\ given.uri \in Word /\ given.uri # NL
  <2>1. given.uri \in DOMAIN Means
    BY DEF Regular
  <2>2. given.uri \in STRING \ {NL}
    BY <2>1, MeansAssumption
  <2> QED
    BY <2>1, <2>2 DEF Word
<1>6. ASSUME NEW i \in 1 .. Len(lines)
      PROVE  /\ lines[i] \in Bytes /\ IsLine(lines[i]) /\ Len(lines[i]) < MAXLINE /\ lines[i] # <<>>
             /\ (lines[i] = Empty) <=> (i = Len(lines))
             /\ lines[i] # Empty => lines[i][1] \notin NoColon
  <2>1. lines[i] \in Bytes
    BY <1>3, ElementOfSeq
  <2>2. i \in DOMAIN given.lines
    BY <1>4 DEF lines
  <2>3. IsLine(lines[i])
    BY <2>2, RequestsAssumption DEF lines
  <2>4. Len(lines[i]) < MAXLINE
    BY <2>2 DEF Regular, lines
  <2>5. (lines[i] = Empty) <=> (i = Len(lines))
    BY <2>2, Zenon DEF Regular, lines
  <2>6. lines[i] # Empty => lines[i][1] \notin NoColon
    BY <2>2, Zenon DEF Regular, lines
  <2>7. lines[i] # <<>>
    BY <2>3 DEF IsLine
  <2> QED
    BY <2>1, <2>3, <2>4, <2>5, <2>6, <2>7
<1>7. \A i, j \in 1 .. Len(lines) : lines[i][1] = "Host" /\ lines[j][1] = "Host" => i = j
  <2>1. \A i, j \in DOMAIN given.lines : given.lines[i][1] = "Host" /\ given.lines[j][1] = "Host" => i = j
    BY DEF Regular
  <2> QED
    BY <1>4, <2>1 DEF lines
<1>8. given.stack = <<>> /\ given.method = "GET"
  BY DEF Regular
<1> QED
  BY <1>2, <1>3, <1>4, <1>5, <1>6, <1>7, <1>8

LEMMA Meant ==
  ASSUME given \in Requests, Regular
  PROVE  /\ meant.host \in Bytes /\ meant.port \in Bytes /\ meant.path \in Bytes
         /\ ~Contains(meant.path, NL) /\ Len(meant.path) + 2 < MAXLINE /\ Len(meant.path) \in Nat \ {0}
         /\ \A junk : parse_uri(UriText[given.uri], junk) = [host |-> meant.host, port |-> meant.port, path |-> meant.path]
<1>1. given.uri \in DOMAIN Means /\ Len(meant.path) + 2 < MAXLINE
  BY DEF Regular, meant
<1>2. meant.host \in Bytes /\ meant.port \in Bytes /\ meant.path \in Bytes /\ meant.path # <<>> /\ ~Contains(meant.path, NL)
  BY <1>1, MeansAssumption, Words DEF meant, has
<1>3. \A junk : parse_uri(UriText[given.uri], junk) = [host |-> meant.host, port |-> meant.port, path |-> meant.path]
  BY <1>1, Parsed DEF meant
<1>4. Len(meant.path) \in Nat \ {0}
  BY <1>2, Empties
<1> QED
  BY <1>1, <1>2, <1>3, <1>4

(* The first line that the server is sent.                                 *)
RequestLine == <<"GET">> \o meant.path \o <<NL>>
HostLine ==
    LET hosts == { i \in DOMAIN lines : lines[i][1] = "Host" }
    IN  IF hosts = {} THEN <<"Host">> \o meant.host \o <<NL>> ELSE lines[CHOOSE i \in hosts : TRUE]

LEMMA ForwardedParts ==
  Forwarded = RequestLine \o HostLine \o constant_headers \o without(dropped, lines, Len(lines))
  BY Zenon DEF Forwarded, RequestLine, HostLine, dropped, lines, meant

LEMMA Line ==
  ASSUME NEW a \in Bytes, NEW w \in Word, ~Contains(a, NL), w # NL
  PROVE  LET l == <<w>> \o a \o <<NL>> IN
         l \in Bytes /\ Len(l) = Len(a) + 2 /\ IsLine(l) /\ l[1] = w /\ SubSeq(l, 2, Len(l) - 1) = a
<1> DEFINE wa == <<w>> \o a
           l == wa \o <<NL>>
<1>1. NL \in Word /\ Len(a) \in Nat
  BY Words, Empties DEF Literals
<1>2. /\ <<w>> \in Bytes /\ Len(<<w>>) = 1 /\ <<w>>[1] = w
      /\ <<NL>> \in Bytes /\ Len(<<NL>>) = 1 /\ <<NL>>[1] = NL
  BY <1>1, ContainsOne
<1>3. /\ wa \in Bytes /\ Len(wa) = 1 + Len(a) /\ wa[1] = w /\ from(wa, 2) = a
      /\ \A i \in 1 .. Len(a) : wa[1 + i] = a[i]
  <2> DEFINE one == <<w>>
  <2> HIDE DEF one
  <2>1. one \in Bytes /\ Len(one) = 1 /\ one[1] = w
    BY <1>2 DEF one
  <2>2. /\ one \o a \in Bytes /\ Len(one \o a) = Len(one) + Len(a)
        /\ \A i \in 1 .. Len(one) : (one \o a)[i] = one[i]
        /\ \A i \in 1 .. Len(a) : (one \o a)[Len(one) + i] = a[i]
    BY <2>1, Concat
  <2>3. from(one \o a, Len(one) + 1) = a
    BY <2>1, Parts
  <2>4. wa = one \o a /\ 1 + 1 = 2 /\ 1 \in 1 .. 1
    BY DEF one
  <2> HIDE DEF wa
  <2> QED
    BY <2>1, <2>2, <2>3, <2>4
<1> HIDE DEF wa
<1>4. /\ l \in Bytes /\ Len(l) = Len(wa) + 1
      /\ (\A i \in 1 .. Len(wa) : l[i] = wa[i]) /\ l[Len(wa) + 1] = NL
      /\ SubSeq(l, 1, Len(wa)) = wa
  <2> DEFINE one == <<NL>>
  <2> HIDE DEF one
  <2>1. one \in Bytes /\ Len(one) = 1 /\ one[1] = NL
    BY <1>2 DEF one
  <2>2. /\ wa \o one \in Bytes /\ Len(wa \o one) = Len(wa) + Len(one)
        /\ \A i \in 1 .. Len(wa) : (wa \o one)[i] = wa[i]
        /\ \A i \in 1 .. Len(one) : (wa \o one)[Len(wa) + i] = one[i]
    BY <1>3, <2>1, Concat
  <2>3. SubSeq(wa \o one, 1, Len(wa)) = wa
    BY <1>3, <2>1, Parts
  <2>4. l = wa \o one /\ 1 \in 1 .. 1
    BY DEF one
  <2> HIDE DEF l
  <2> QED
    BY <2>1, <2>2, <2>3, <2>4
<1> HIDE DEF l
<1>5. Len(l) = Len(a) + 2 /\ l[1] = w
  BY <1>1, <1>3, <1>4
<1>6. ASSUME NEW i \in 1 .. Len(l), l[i] = NL PROVE i = Len(l)
  <2> SUFFICES ASSUME i # Len(l) PROVE FALSE
    OBVIOUS
  <2>1. i \in 1 .. Len(wa) /\ i # 1
    BY <1>1, <1>3, <1>4, <1>5, <1>6
  <2>2. i - 1 \in 1 .. Len(a) /\ 1 + (i - 1) = i
    BY <1>1, <1>3, <2>1
  <2>3. a[i - 1] = NL
    BY <1>3, <1>4, <1>6, <2>1, <2>2
  <2> QED
    BY <2>2, <2>3 DEF Contains
<1>7. IsLine(l)
  <2>1. DOMAIN l = 1 .. Len(l) /\ l # <<>> /\ l[Len(l)] = NL
    BY <1>1, <1>3, <1>4, <1>5, Empties
  <2>2. \A i \in DOMAIN l : (l[i] = NL) <=> (i = Len(l))
    BY <1>6, <2>1
  <2> QED
    BY <2>1, <2>2, Zenon DEF IsLine
<1>8. SubSeq(l, 2, Len(l) - 1) = a
  <2>1. Len(l) - 1 = Len(wa)
    BY <1>1, <1>3, <1>5
  <2>2. SubSeq(l, 2, Len(wa)) = SubSeq(wa, 2, Len(wa))
    <3>1. \A i \in 2 .. Len(wa) : l[i] = wa[i] /\ wa[i] \in Word
      BY <1>3, <1>4, ElementOfSeq DEF Bytes
    <3>2. /\ SubSeq(l, 2, Len(wa)) \in Bytes
          /\ Len(SubSeq(l, 2, Len(wa))) = IF 2 <= Len(wa) THEN Len(wa) - 2 + 1 ELSE 0
          /\ \A i \in 1 .. Len(wa) - 2 + 1 : SubSeq(l, 2, Len(wa))[i] = l[2 + i - 1]
      <4>1. Len(wa) \in Int /\ 2 \in Int /\ \A i \in 2 .. Len(wa) : l[i] \in Word
        BY <1>1, <1>3, <3>1
      <4> QED
        BY <4>1, SubSeqProperties DEF Bytes
    <3>3. /\ SubSeq(wa, 2, Len(wa)) \in Bytes
          /\ Len(SubSeq(wa, 2, Len(wa))) = IF 2 <= Len(wa) THEN Len(wa) - 2 + 1 ELSE 0
          /\ \A i \in 1 .. Len(wa) - 2 + 1 : SubSeq(wa, 2, Len(wa))[i] = wa[2 + i - 1]
      <4>1. Len(wa) \in Int /\ 2 \in Int /\ \A i \in 2 .. Len(wa) : wa[i] \in Word
        BY <1>1, <1>3, <3>1
      <4> QED
        BY <4>1, SubSeqProperties DEF Bytes
    <3> DEFINE p == SubSeq(l, 2, Len(wa))
               q == SubSeq(wa, 2, Len(wa))
    <3>4. Len(p) = Len(q) /\ p \in Bytes /\ q \in Bytes
      BY <3>2, <3>3
    <3>5. ASSUME NEW i \in 1 .. Len(p) PROVE p[i] = q[i]
      <4>1. i \in 1 .. Len(wa) - 2 + 1 /\ 2 + i - 1 \in 2 .. Len(wa)
        BY <1>1, <1>3, <3>2
      <4>2. p[i] = l[2 + i - 1] /\ q[i] = wa[2 + i - 1]
        BY <3>2, <3>3, <4>1
      <4> QED
        BY <3>1, <4>1, <4>2
    <3> HIDE DEF p, q
    <3>6. p = q
      BY <3>4, <3>5, Same
    <3> QED
      BY <3>6 DEF p, q
  <2>3. from(wa, 2) = SubSeq(wa, 2, Len(wa))
    BY DEF from
  <2> QED
    BY <1>3, <2>1, <2>2, <2>3
<1> QED
  BY <1>4, <1>5, <1>7, <1>8 DEF l, wa

LEMMA ForwardedBegins ==
  ASSUME given \in Requests, Regular
  PROVE  /\ RequestLine \in Bytes /\ IsLine(RequestLine) /\ Len(RequestLine) < MAXLINE
         /\ RequestLine[1] = "GET" /\ uri(RequestLine) = meant.path /\ RequestLine # <<>>
         /\ HostLine \in Bytes /\ constant_headers \in Bytes
         /\ RequestLine \o HostLine \o constant_headers \in Bytes
         /\ Forwarded \in Bytes
         /\ \E more \in Bytes : Forwarded = RequestLine \o more
<1>1. /\ meant.host \in Bytes /\ meant.path \in Bytes /\ ~Contains(meant.path, NL)
      /\ Len(meant.path) + 2 < MAXLINE /\ Len(meant.path) \in Nat \ {0}
  BY Meant
<1>2. "GET" \in Word /\ "Host" \in Word /\ NL \in Word /\ "GET" # NL
  BY Words DEF Literals, NL
<1>3. /\ RequestLine \in Bytes /\ IsLine(RequestLine) /\ Len(RequestLine) = Len(meant.path) + 2
      /\ RequestLine[1] = "GET" /\ SubSeq(RequestLine, 2, Len(RequestLine) - 1) = meant.path
  BY <1>1, <1>2, Line DEF RequestLine
<1>4. uri(RequestLine) = meant.path /\ RequestLine # <<>>
  <2>1. Len(RequestLine) > 2
    BY <1>1, <1>3
  <2>2. uri(RequestLine) = meant.path
    BY <1>3, <2>1 DEF uri
  <2>3. RequestLine # <<>>
    BY <1>3 DEF IsLine
  <2> QED
    BY <2>2, <2>3
<1>5. HostLine \in Bytes
  <2> DEFINE hosts == { i \in DOMAIN lines : lines[i][1] = "Host" }
  <2>1. <<"Host">> \o meant.host \o <<NL>> \in Bytes
    <3>1. <<"Host">> \in Bytes /\ <<NL>> \in Bytes
      BY <1>2, ContainsOne
    <3>2. <<"Host">> \o meant.host \in Bytes
      BY <1>1, <3>1, Concat
    <3> QED
      BY <3>1, <3>2, Concat
  <2>2. hosts # {} => lines[CHOOSE i \in hosts : TRUE] \in Bytes
    <3>1. \A i \in hosts : lines[i] \in Bytes
      BY Asked, LenProperties
    <3> HIDE DEF hosts
    <3> QED
      BY <3>1
  <2> QED
    BY <2>1, <2>2, Zenon DEF HostLine
<1>6. constant_headers \in Bytes
  <2>1. "User-Agent" \in Word /\ "Connection" \in Word /\ "Proxy-Connection" \in Word
    BY Words DEF Literals
  <2> QED
    BY <1>2, <2>1 DEF constant_headers, Bytes
<1> DEFINE kept == without(dropped, lines, Len(lines))
           hc == HostLine \o constant_headers
<1>7. kept \in Bytes
  <2>1. lines \in Seq(Bytes) /\ Len(lines) \in 0 .. Len(lines)
    BY Asked
  <2> QED
    BY <2>1, Without
<1>8. hc \in Bytes
  BY <1>5, <1>6, Concat
<1>9. RequestLine \o HostLine \o constant_headers = RequestLine \o hc
  BY <1>3, <1>5, <1>6, Assoc
<1>10. RequestLine \o HostLine \o constant_headers \in Bytes
  BY <1>3, <1>8, <1>9, Concat
<1> HIDE DEF kept, hc
<1>11. Forwarded = (RequestLine \o hc) \o kept
  BY <1>9, ForwardedParts DEF kept
<1>12. Forwarded = RequestLine \o (hc \o kept)
  BY <1>3, <1>7, <1>8, <1>11, Assoc
<1>13. hc \o kept \in Bytes
  BY <1>7, <1>8, Concat
<1>14. Forwarded \in Bytes
  BY <1>3, <1>12, <1>13, Concat
<1> QED
  BY <1>1, <1>3, <1>4, <1>5, <1>6, <1>10, <1>12, <1>13, <1>14

LEMMA FlattenTyped ==
  ASSUME NEW ls \in Seq(Bytes)
  PROVE  FlattenSeq(ls) \in Bytes /\ (ls = <<>> => FlattenSeq(ls) = <<>>)
<1>1. FlattenSeq(ls) = first(ls, Len(ls)) /\ Len(ls) \in 0 .. Len(ls) /\ (ls = <<>> => Len(ls) = 0)
  <2>1. FlattenSeq(ls) = first(ls, Len(ls))
    BY Flatten
  <2>2. Len(ls) \in Nat /\ (ls = <<>> => Len(ls) = 0)
    BY LenProperties, EmptySeq
  <2> QED
    BY <2>1, <2>2
<1>2. first(ls, 0) = <<>> /\ \A n \in 0 .. Len(ls) : first(ls, n) \in Bytes
  BY First
<1> QED
  BY <1>1, <1>2

LEMMA AnswerTyped ==
  ASSUME NEW path \in Bytes
  PROVE  answer(path) \in Seq(Bytes) /\ FlattenSeq(answer(path)) \in Bytes
<1>1. {"HTTP", "200", "403", "404", "type", "length", "Server", NL, "\r"} \subseteq Word
  BY Words DEF Literals
<1>2. /\ <<"type", NL>> \in Bytes /\ <<"length", NL>> \in Bytes /\ Empty \in Bytes /\ <<"HTTP", "200", NL>> \in Bytes
      /\ <<"Server", NL>> \in Bytes /\ <<"HTTP", "200", NL, "length", NL>> \in Bytes
  BY <1>1 DEF Bytes, Empty
<1>3. <<"length", NL>> \o Empty \in Bytes /\ <<"HTTP", "200", NL, "length", NL>> \o Empty \in Bytes
  BY <1>2, Concat
<1>4. ASSUME NEW errnum \in {"403", "404"} PROVE clienterror(errnum) \in Seq(Bytes)
  <2>1. <<"HTTP", errnum, NL>> \in Bytes /\ <<errnum, NL>> \in Bytes
    BY <1>1 DEF Bytes
  <2> DEFINE len == <<"length", NL>> \o Empty
  <2> HIDE DEF len
  <2>2. << <<"HTTP", errnum, NL>>, <<"type", NL>>, len, <<errnum, NL>> >> \in Seq(Bytes)
    BY <1>2, <1>3, <2>1 DEF len
  <2> QED
    BY <2>2 DEF clienterror, len
<1>5. ASSUME NEW name \in DOMAIN Files
      PROVE  serve_static(Files[name]) \in Seq(Bytes) /\ serve_dynamic(Files[name]) \in Seq(Bytes)
  <2>1. Files[name].bytes \in Bytes
    BY FilesAssumption, Words
  <2> DEFINE ok == <<"HTTP", "200", NL, "length", NL>> \o Empty
             file == Files[name]
  <2>2. ok \in Bytes
    BY <1>3
  <2> HIDE DEF ok, file
  <2>3. <<ok, file.bytes>> \in Seq(Bytes) /\ << <<"HTTP", "200", NL>>, <<"Server", NL>>, file.bytes>> \in Seq(Bytes)
    BY <1>2, <2>1, <2>2 DEF file
  <2> QED
    BY <2>3 DEF serve_static, serve_dynamic, ok, file
<1>6. answer(path) \in Seq(Bytes)
  BY <1>4, <1>5, Zenon DEF answer
<1>7. FlattenSeq(answer(path)) \in Bytes
  BY <1>6, FlattenTyped
<1> QED
  BY <1>6, <1>7

(* These do not change with the state.                                     *)
LEMMA Fixed ==
  ASSUME given' = given
  PROVE  /\ Regular' = Regular /\ Forwarded' = Forwarded /\ Answered' = Answered
         /\ meant' = meant /\ lines' = lines
<1>1. Regular' = Regular
  BY DEF Regular
<1>2. Forwarded' = Forwarded
  BY DEF Forwarded
<1> QED
  BY <1>1, <1>2 DEF Answered, meant, lines

(* A line that is returned is the next line of what comes, if that fits.   *)
LEMMA LineRead ==
  ASSUME Typed, NEW e \in Readers, HasLine(e), NEW f \in Bytes, NEW more \in Bytes,
         Coming(e) = f \o more, IsLine(f), Len(f) < MAXLINE
  PROVE  line(e) = f /\ rio[e].buf \o stream[e].bytes = more
<1> DEFINE l == rio[e].line
           after_ == rio[e].buf \o stream[e].bytes
<1>1. l \in Partial /\ after_ \in Bytes /\ l \o after_ = f \o more
  BY ComingTyped
<1>2. complete(l) \/ after_ = <<>>
  <2>1. complete(l) \/ (rio[e].buf = <<>> /\ stream[e].bytes = <<>>)
    BY DEF HasLine, returns
  <2>2. <<>> \o <<>> = <<>>
    BY Empties
  <2> QED
    BY <2>1, <2>2
<1> HIDE DEF l, after_
<1>3. l = f /\ after_ = more
  BY <1>1, <1>2, FirstLine
<1> QED
  BY <1>3 DEF l, after_, line

-----------------------------------------------------------------------------
(* The invariant holds at first, and after a read.                         *)

LEMMA InitExact ==
  ASSUME Init, Regular
  PROVE  Exact
<1>1. given \in Requests
  BY DEF Init
<1>2. /\ lines \in Seq(Bytes) /\ Len(lines) \in 0 .. Len(lines) /\ given.stack = <<>> /\ given.method = "GET" /\ given.uri \in Word
      /\ given.closes \in BOOLEAN
  BY <1>1, Asked
<1> DEFINE ask == <<"GET", given.uri, NL>>
           all == first(lines, Len(lines))
<1>3. /\ ask \in Bytes /\ all \in Bytes /\ ask \o all \in Bytes /\ request(given) = ask \o all
  <2>1. "GET" \in Word /\ NL \in Word
    BY Words DEF Literals
  <2>2. ask \in Bytes
    BY <1>2, <2>1, Tuples DEF Bytes
  <2>3. all \in Bytes
    BY <1>2, First
  <2>4. request(given) = ask \o all
    BY <1>2, Flatten DEF request, lines
  <2> HIDE DEF ask, all
  <2>5. ask \o all \in Bytes
    BY <2>2, <2>3, Concat
  <2> QED
    BY <2>2, <2>3, <2>4, <2>5
<1> HIDE DEF ask, all
<1>4. /\ <<>> \in Bytes /\ <<>> \in Partial /\ Len(<<>>) = 0 /\ none \in Bytes /\ <<>> \in Seq(Bytes) /\ FlattenSeq(<<>>) = <<>>
      /\ <<>> \o <<>> = <<>>
  <2>1. <<>> \in Bytes /\ Len(<<>>) = 0 /\ <<>> \in Seq(Bytes) /\ <<>> \o <<>> = <<>>
    BY Empties
  <2>2. "(none)" \in Word
    BY Words DEF Literals
  <2>3. none \in Bytes
    BY <2>2, ContainsOne DEF none
  <2>4. <<>> \in Partial
    BY <2>1, RioAssumption DEF Partial
  <2>5. FlattenSeq(<<>>) = <<>>
    BY <2>1, FlattenTyped
  <2> QED
    BY <2>1, <2>3, <2>4, <2>5
<1>5. /\ stream["c2p"] = [bytes |-> ask \o all, eof |-> given.closes]
      /\ \A e \in {"p2s", "s2p", "p2c"} : stream[e] = [bytes |-> <<>>, eof |-> FALSE]
      /\ stream \in [Links -> [bytes : Bytes, eof : BOOLEAN]]
  BY <1>2, <1>3, <1>4 DEF Init, Links
<1>6. /\ \A e \in Readers : rio[e] = [buf |-> <<>>, line |-> <<>>]
      /\ rio \in [Readers -> [line : Partial, buf : Bytes]]
  BY <1>4 DEF Init, Readers, rio_readinitb
<1>7. /\ proxy.pc = "request" /\ proxy.out = <<>> /\ proxy.header_host = <<>> /\ proxy.header_other = <<>>
      /\ proxy.obj_buf = <<>> /\ proxy.obj_size = 0
      /\ proxy \in [pc : Locations, buf : Bytes, host : Bytes, port : Bytes, path : Bytes, out : Bytes,
                    header_host : Bytes, header_other : Bytes, obj_buf : Bytes, obj_size : Nat]
  BY <1>2, <1>4 DEF Init, Locations, Early
<1>8. /\ tiny = [pc |-> "request", path |-> none, out |-> <<>>] /\ cached = [object |-> none, size |-> 0]
      /\ tiny \in [pc : {"request", "headers", "answer", "done"}, path : Bytes, out : Seq(Bytes)]
  BY <1>4 DEF Init
<1>9. Typed
  BY <1>5, <1>6, <1>7, <1>8 DEF Typed
<1>10. Coming("c2p") = ask \o all /\ Coming("p2s") = <<>> /\ Coming("s2p") = <<>>
  <2>1. Coming("c2p") = <<>> \o (<<>> \o (ask \o all))
    <3>1. "c2p" \in Readers
      BY DEF Readers
    <3>2. Coming("c2p") = rio["c2p"].line \o (rio["c2p"].buf \o stream["c2p"].bytes)
      BY <1>9, <3>1, ComingTyped
    <3>3. rio["c2p"].line = <<>> /\ rio["c2p"].buf = <<>>
      BY <1>6, <3>1
    <3>4. stream["c2p"].bytes = ask \o all
      BY <1>5
    <3> QED
      BY <3>2, <3>3, <3>4
  <2>2. <<>> \o (ask \o all) = ask \o all
    BY <1>3, Empties
  <2>3. Coming("p2s") = <<>> /\ Coming("s2p") = <<>>
    BY <1>4, <1>5, <1>6 DEF Coming, Readers
  <2> QED
    BY <2>1, <2>2, <2>3
<1>11. RequestRead
  BY <1>7, <1>10 DEF RequestRead, ask, all
<1>12. RequestSent
  BY <1>4, <1>5, <1>7, <1>8, <1>10 DEF RequestSent, toServer, Early
<1>13. received = <<>>
  BY <1>4, <1>5, <1>7 DEF Sending, received, toClient
<1>14. AnswerRelayed
  BY <1>4, <1>5, <1>7, <1>8, <1>10, <1>13 DEF Sending, AnswerRelayed
<1>15. AnswerCached
  BY <1>4, <1>7, <1>8, <1>13 DEF AnswerCached
<1> QED
  BY <1>9, <1>11, <1>12, <1>14, <1>15 DEF Exact

LEMMA ReadKeeps ==
  ASSUME given \in Requests, Regular, Exact, NEW e \in Readers, Read(e)
  PROVE  Exact'
<1>1. Typed /\ RequestRead /\ RequestSent /\ AnswerRelayed /\ AnswerCached
  BY DEF Exact
<1>2. proxy' = proxy /\ tiny' = tiny /\ given' = given /\ cached' = cached
  BY DEF Read
<1>3. Forwarded' = Forwarded /\ Answered' = Answered /\ meant' = meant /\ lines' = lines
  BY <1>2, Fixed
<1>4. /\ stream' \in [Links -> [bytes : Bytes, eof : BOOLEAN]]
      /\ rio' \in [Readers -> [line : Partial, buf : Bytes]]
      /\ \A g \in Readers : Coming(g)' = Coming(g)
      /\ \A g \in Links : stream'[g].eof = stream[g].eof
      /\ stream'["p2c"] = stream["p2c"]
  BY <1>1, ReadConserves
<1>5. Coming("c2p")' = Coming("c2p") /\ Coming("p2s")' = Coming("p2s") /\ Coming("s2p")' = Coming("s2p")
      /\ stream'["p2s"].eof = stream["p2s"].eof /\ stream'["s2p"].eof = stream["s2p"].eof
  BY <1>4 DEF Readers, Links
<1>6. Typed'
  BY <1>1, <1>2, <1>4 DEF Typed
<1>7. \A n : HasRead(n)' <=> HasRead(n)
  BY <1>2, <1>3, <1>5 DEF HasRead
<1>8. RequestRead'
  BY <1>1, <1>2, <1>3, <1>5, <1>7 DEF RequestRead
<1>9. toServer' = toServer /\ received' = received
  BY <1>2, <1>4 DEF toServer, Sending, received, toClient
<1>10. RequestSent'
  BY <1>1, <1>2, <1>3, <1>5, <1>9 DEF RequestSent
<1>11. AnswerRelayed'
  BY <1>1, <1>2, <1>3, <1>5, <1>9 DEF Sending, AnswerRelayed
<1>12. AnswerCached'
  BY <1>1, <1>2, <1>3, <1>9 DEF AnswerCached
<1> QED
  BY <1>6, <1>8, <1>10, <1>11, <1>12 DEF Exact


-----------------------------------------------------------------------------
(* The worker's steps.                                                     *)

(* What the worker does before it connects is seen by nobody.              *)
LEMMA EarlyKeeps ==
  ASSUME given \in Requests, Regular, Exact, proxy.pc \in Early, proxy'.pc \in Early,
         stream' = stream, tiny' = tiny, given' = given, cached' = cached,
         proxy'.out = proxy.out, proxy'.obj_buf = proxy.obj_buf, proxy'.obj_size = proxy.obj_size,
         \A g \in {"p2s", "s2p"} : Coming(g)' = Coming(g)
  PROVE  RequestSent' /\ AnswerRelayed' /\ AnswerCached'
<1>1. Typed /\ RequestSent /\ AnswerRelayed /\ AnswerCached
  BY DEF Exact
<1>2. Forwarded' = Forwarded /\ Answered' = Answered /\ meant' = meant /\ lines' = lines
  BY Fixed
<1>3. /\ proxy.pc \notin Sending \union {"write", "broken pipe", "close", "done"}
      /\ proxy'.pc \notin Sending \union {"write", "broken pipe", "close", "done"}
  BY DEF Early, Sending
<1>4. toServer' = toServer /\ received' = received
  BY <1>3 DEF toServer, Sending, received, toClient
<1>5. RequestSent'
  BY <1>1, <1>2, <1>3, <1>4 DEF Sending, RequestSent
<1>6. AnswerRelayed'
  BY <1>1, <1>2, <1>3, <1>4 DEF Sending, AnswerRelayed
<1>7. AnswerCached'
  BY <1>1, <1>2, <1>3, <1>4 DEF AnswerCached
<1> QED
  BY <1>5, <1>6, <1>7

LEMMA RequestKeeps ==
  ASSUME given \in Requests, Regular, Exact, Request
  PROVE  Exact'
<1>1. Typed /\ RequestRead
  BY DEF Exact
<1>2. /\ proxy.pc = "request" /\ HasLine("c2p") /\ NextLine("c2p")
      /\ stream' = stream /\ tiny' = tiny /\ given' = given /\ cached' = cached
  BY DEF Request
<1>3. Forwarded' = Forwarded /\ Answered' = Answered /\ meant' = meant /\ lines' = lines
  BY <1>2, Fixed
<1> DEFINE ask == <<"GET", given.uri, NL>>
           all == first(lines, Len(lines))
<1>4. /\ lines \in Seq(Bytes) /\ Len(lines) \in Nat \ {0} /\ given.uri \in Word /\ given.uri # NL
      /\ given.uri \in DOMAIN Means
  BY Asked
<1>5. all \in Bytes /\ first(lines, 0) = <<>>
  <2>1. Len(lines) \in 0 .. Len(lines)
    BY <1>4
  <2> QED
    BY <1>4, <2>1, First
<1>6. ask \in Bytes /\ IsLine(ask) /\ Len(ask) < MAXLINE /\ ask # <<>> /\ ask[1] = "GET" /\ ask[2] = given.uri
  <2>1. "GET" \in Word /\ NL \in Word /\ "GET" # NL
    BY Words DEF Literals, NL
  <2>2. ask \in Bytes /\ Len(ask) = 3
    BY <1>4, <2>1, Tuples DEF Bytes
  <2>3. ask[1] = "GET" /\ ask[2] = given.uri /\ ask[3] = NL
    OBVIOUS
  <2> HIDE DEF ask
  <2>4. \A i \in 1 .. 3 : (ask[i] = NL) <=> (i = 3)
    BY <1>4, <2>1, <2>3
  <2>5. DOMAIN ask = 1 .. 3 /\ ask # <<>>
    BY <2>2, Empties
  <2>6. \A i \in DOMAIN ask : (ask[i] = NL) <=> (i = Len(ask))
    BY <2>2, <2>4, <2>5
  <2>7. IsLine(ask)
    BY <2>5, <2>6, Zenon DEF IsLine
  <2>8. 3 < MAXLINE
    BY Meant, RioAssumption
  <2> QED
    BY <2>2, <2>3, <2>5, <2>7, <2>8
<1> HIDE DEF ask, all
<1>7. "c2p" \in Readers
  BY DEF Readers
<1>8. Coming("c2p") = ask \o all /\ proxy.header_host = <<>> /\ proxy.header_other = <<>>
  BY <1>1, <1>2 DEF RequestRead, ask, all
<1>9. line("c2p") = ask /\ rio["c2p"].buf \o stream["c2p"].bytes = all
  BY <1>1, <1>2, <1>5, <1>6, <1>7, <1>8, LineRead
<1>10. /\ rio' \in [Readers -> [line : Partial, buf : Bytes]]
       /\ Coming("c2p")' = all
       /\ \A g \in {"p2s", "s2p"} : Coming(g)' = Coming(g)
  <2>1. /\ rio' \in [Readers -> [line : Partial, buf : Bytes]]
        /\ Coming("c2p")' = rio["c2p"].buf \o stream["c2p"].bytes
        /\ \A g \in Readers : g # "c2p" => Coming(g)' = Coming(g)
    BY <1>1, <1>2, <1>7, NextConserves
  <2> QED
    BY <1>9, <2>1 DEF Readers
<1> DEFINE parsed == parse_uri(UriText[given.uri], proxy.buf)
<1>11. proxy' = [proxy EXCEPT !.pc = "headers", !.host = parsed.host, !.port = parsed.port, !.path = parsed.path]
  BY <1>6, <1>9 DEF Request
<1>12. parsed = [host |-> meant.host, port |-> meant.port, path |-> meant.path]
  BY Meant
<1> HIDE DEF parsed
<1>13. meant.host \in Bytes /\ meant.port \in Bytes /\ meant.path \in Bytes
  BY Meant
<1>14. proxy' = [proxy EXCEPT !.pc = "headers", !.host = meant.host, !.port = meant.port, !.path = meant.path]
  BY <1>11, <1>12
<1>15. /\ proxy' \in [pc : Locations, buf : Bytes, host : Bytes, port : Bytes, path : Bytes, out : Bytes,
                      header_host : Bytes, header_other : Bytes, obj_buf : Bytes, obj_size : Nat]
       /\ proxy'.pc = "headers" /\ proxy'.host = meant.host /\ proxy'.port = meant.port /\ proxy'.path = meant.path
       /\ proxy'.header_host = <<>> /\ proxy'.header_other = <<>>
       /\ proxy'.out = proxy.out /\ proxy'.obj_buf = proxy.obj_buf /\ proxy'.obj_size = proxy.obj_size
  <2>1. proxy \in [pc : Locations, buf : Bytes, host : Bytes, port : Bytes, path : Bytes, out : Bytes,
                   header_host : Bytes, header_other : Bytes, obj_buf : Bytes, obj_size : Nat]
    BY <1>1 DEF Typed
  <2>2. "headers" \in Locations
    BY DEF Locations, Early
  <2> QED
    BY <1>8, <1>13, <1>14, <2>1, <2>2
<1>16. Typed'
  BY <1>1, <1>2, <1>10, <1>15 DEF Typed
<1>17. HasRead(0)'
  <2>1. first(lines, 0) \o all = all
    BY <1>5, Empties
  <2>2. without(dropped, lines, 0) = <<>>
    BY <1>4, Without
  <2>3. 1 .. 0 = {}
    OBVIOUS
  <2> QED
    BY <1>3, <1>10, <1>15, <2>1, <2>2, <2>3 DEF HasRead, all
<1>18. RequestRead'
  <2>1. 0 \in 0 .. Len(lines) - 1
    BY <1>4
  <2>2. \E n \in 0 .. Len(lines) - 1 : HasRead(n)'
    BY <1>17, <2>1
  <2> QED
    BY <1>3, <1>15, <2>2 DEF RequestRead
<1>19. RequestSent' /\ AnswerRelayed' /\ AnswerCached'
  BY <1>2, <1>10, <1>15, EarlyKeeps DEF Early
<1> QED
  BY <1>16, <1>18, <1>19 DEF Exact


(* The Host line of what is forwarded, by the lines there are.             *)
LEMMA HostLines ==
  ASSUME given \in Requests, Regular
  PROVE  /\ \A i \in 1 .. Len(lines) : lines[i][1] = "Host" => HostLine = lines[i]
         /\ (\A i \in 1 .. Len(lines) : lines[i][1] # "Host") => HostLine = <<"Host">> \o meant.host \o <<NL>>
         /\ lines[Len(lines)] = Empty /\ Empty[1] = "\r" /\ Empty[1] \notin dropped
<1> DEFINE hosts == { i \in DOMAIN lines : lines[i][1] = "Host" }
<1>1. /\ DOMAIN lines = 1 .. Len(lines) /\ Len(lines) \in 1 .. Len(lines)
      /\ \A i \in 1 .. Len(lines) : (lines[i] = Empty) <=> (i = Len(lines))
      /\ \A i, j \in 1 .. Len(lines) : lines[i][1] = "Host" /\ lines[j][1] = "Host" => i = j
  <2>1. DOMAIN lines = 1 .. Len(lines)
    BY Asked, LenProperties
  <2>2. Len(lines) \in 1 .. Len(lines)
    BY Asked
  <2>3. \A i \in 1 .. Len(lines) : (lines[i] = Empty) <=> (i = Len(lines))
    BY Asked
  <2>4. \A i, j \in 1 .. Len(lines) : lines[i][1] = "Host" /\ lines[j][1] = "Host" => i = j
    BY Asked
  <2> QED
    BY <2>1, <2>2, <2>3, <2>4
<1>2. HostLine = IF hosts = {} THEN <<"Host">> \o meant.host \o <<NL>> ELSE lines[CHOOSE i \in hosts : TRUE]
  BY DEF HostLine
<1>3. ASSUME NEW i \in 1 .. Len(lines), lines[i][1] = "Host" PROVE HostLine = lines[i]
  <2>1. i \in hosts /\ \A j \in hosts : j = i
    BY <1>1, <1>3
  <2> HIDE DEF hosts
  <2>2. (CHOOSE j \in hosts : TRUE) = i
    BY <2>1
  <2>3. hosts # {}
    BY <2>1
  <2> QED
    BY <1>2, <2>2, <2>3
<1>4. (\A i \in 1 .. Len(lines) : lines[i][1] # "Host") => hosts = {}
  BY <1>1
<1> HIDE DEF hosts
<1>5. lines[Len(lines)] = Empty
  BY <1>1
<1>6. Empty[1] = "\r" /\ "\r" \notin {"Connection", "Proxy-Connection", "User-Agent"} /\ "\r" # "Host"
  BY DEF Empty
<1>7. Empty[1] \notin dropped
  BY <1>6 DEF dropped, headers
<1> QED
  BY <1>2, <1>3, <1>4, <1>5, <1>6, <1>7

(* A line of the headers is one of them, and the next is what follows it.  *)
LEMMA HeaderRead ==
  ASSUME given \in Requests, Regular, Exact, proxy.pc = "headers", HasLine("c2p")
  PROVE  \E n \in 0 .. Len(lines) - 1 :
            /\ HasRead(n) /\ line("c2p") = lines[n + 1]
            /\ first(lines, n + 1) \o (rio["c2p"].buf \o stream["c2p"].bytes) = first(lines, Len(lines))
<1>1. Typed /\ RequestRead /\ "c2p" \in Readers
  BY DEF Exact, Readers
<1>2. PICK n \in 0 .. Len(lines) - 1 : HasRead(n)
  BY <1>1 DEF RequestRead
<1> DEFINE k == n + 1
           come == Coming("c2p")
<1>3. lines \in Seq(Bytes) /\ Len(lines) \in Nat \ {0} /\ n \in 0 .. Len(lines) /\ k \in 1 .. Len(lines) /\ k \in 0 .. Len(lines)
  BY Asked
<1>4. lines[k] \in Bytes /\ IsLine(lines[k]) /\ Len(lines[k]) < MAXLINE
  <2> HIDE DEF k
  <2> QED
    BY <1>3, Asked
<1>5. first(lines, n) \in Bytes /\ first(lines, k) \in Bytes
  <2> HIDE DEF k
  <2> QED
    BY <1>3, First
<1>6. first(lines, k) = first(lines, n) \o lines[k]
  BY <1>3, First
<1> HIDE DEF k
<1>7. PICK more \in Bytes : first(lines, Len(lines)) = first(lines, k) \o more
  BY <1>3, FirstOf
<1>8. first(lines, k) \o more = first(lines, n) \o (lines[k] \o more)
  <2>1. (first(lines, n) \o lines[k]) \o more = first(lines, n) \o (lines[k] \o more)
    BY <1>4, <1>5, Assoc
  <2> QED
    BY <1>6, <2>1
<1>9. lines[k] \o more \in Bytes
  BY <1>4, Concat
<1>10. come \in Bytes
  BY <1>1, ComingTyped
<1>11. first(lines, n) \o come = first(lines, n) \o (lines[k] \o more)
  BY <1>2, <1>7, <1>8 DEF HasRead
<1> HIDE DEF come
<1>12. come = lines[k] \o more
  BY <1>5, <1>9, <1>10, <1>11, Cancel
<1>13. line("c2p") = lines[k] /\ rio["c2p"].buf \o stream["c2p"].bytes = more
  BY <1>1, <1>4, <1>12, LineRead DEF come
<1> QED
  BY <1>2, <1>7, <1>13 DEF k

LEMMA Kept ==
  ASSUME given \in Requests, Regular
  PROVE  /\ \A k \in 1 .. Len(lines) :
               without(dropped, lines, k) = IF lines[k][1] \in dropped THEN without(dropped, lines, k - 1)
                                            ELSE without(dropped, lines, k - 1) \o lines[k]
         /\ \A k \in 0 .. Len(lines) : without(dropped, lines, k) \in Bytes
<1>1. lines \in Seq(Bytes)
  BY Asked
<1> QED
  BY <1>1, Without

(* After the empty line, what will be sent is what is to be forwarded.     *)
LEMMA ReadyToSend ==
  ASSUME given \in Requests, Regular, NEW n, n = Len(lines) - 1, HasRead(n), NEW p,
         p.path = meant.path, p.header_other = proxy.header_other,
         p.header_host = IF proxy.header_host = <<>> THEN <<"Host">> \o meant.host \o <<NL>> ELSE proxy.header_host
  PROVE  http_header(p) = Forwarded
<1>1. /\ lines \in Seq(Bytes) /\ Len(lines) \in Nat \ {0} /\ Len(lines) \in 1 .. Len(lines) /\ n \in 0 .. Len(lines)
      /\ \A i \in 1 .. Len(lines) : lines[i] # <<>>
  BY Asked
<1>2. lines[Len(lines)] = Empty /\ Empty[1] = "\r" /\ Empty[1] \notin dropped
  BY HostLines
<1>3. without(dropped, lines, Len(lines)) = without(dropped, lines, n) \o Empty /\ without(dropped, lines, n) \in Bytes
  <2>1. /\ \A k \in 1 .. Len(lines) :
              without(dropped, lines, k) = IF lines[k][1] \in dropped THEN without(dropped, lines, k - 1)
                                           ELSE without(dropped, lines, k - 1) \o lines[k]
        /\ \A k \in 0 .. Len(lines) : without(dropped, lines, k) \in Bytes
    BY Kept
  <2> DEFINE k == Len(lines)
  <2>2. k \in 1 .. Len(lines) /\ k - 1 = n /\ lines[k] = Empty
    BY <1>1, <1>2
  <2> HIDE DEF k
  <2>3. without(dropped, lines, k) = without(dropped, lines, k - 1) \o lines[k]
    BY <1>2, <2>1, <2>2
  <2>4. without(dropped, lines, n) \in Bytes
    BY <1>1, <2>1
  <2> QED
    BY <2>2, <2>3, <2>4 DEF k
<1>4. p.header_host = HostLine
  <2>1. CASE \E i \in 1 .. n : lines[i][1] = "Host"
    <3>1. PICK i \in 1 .. n : lines[i][1] = "Host"
      BY <2>1
    <3>2. i \in 1 .. Len(lines)
      BY <1>1
    <3>3. HostLine = lines[i]
      BY <3>1, <3>2, HostLines
    <3>4. proxy.header_host = lines[i] /\ lines[i] # <<>>
      BY <1>1, <3>1, <3>2 DEF HasRead
    <3> QED
      BY <3>3, <3>4
  <2>2. CASE \A i \in 1 .. n : lines[i][1] # "Host"
    <3>1. proxy.header_host = <<>>
      BY <2>2 DEF HasRead
    <3>2. lines[Len(lines)][1] # "Host"
      BY <1>2
    <3>3. \A i \in 1 .. Len(lines) : i \in 1 .. n \/ i = Len(lines)
      BY <1>1
    <3>4. \A i \in 1 .. Len(lines) : lines[i][1] # "Host"
      BY <2>2, <3>2, <3>3
    <3>5. HostLine = <<"Host">> \o meant.host \o <<NL>>
      BY <3>4, HostLines
    <3> QED
      BY <3>1, <3>5
  <2> QED
    BY <2>1, <2>2
<1> DEFINE start == RequestLine \o HostLine \o constant_headers
           kept == without(dropped, lines, n)
<1>5. start \in Bytes /\ kept \in Bytes /\ Empty \in Bytes
  <2>1. "\r" \in Word /\ NL \in Word
    BY Words DEF Literals
  <2>2. Empty \in Bytes
    BY <2>1, Tuples DEF Bytes, Empty
  <2> QED
    BY <1>3, <2>2, ForwardedBegins
<1>6. http_header(p) = (start \o kept) \o Empty
  BY <1>4 DEF http_header, HasRead, RequestLine
<1>7. Forwarded = start \o (kept \o Empty)
  BY <1>3, ForwardedParts
<1> HIDE DEF start, kept
<1>8. (start \o kept) \o Empty = start \o (kept \o Empty)
  BY <1>5, Assoc
<1> QED
  BY <1>6, <1>7, <1>8


LEMMA HeaderKeeps ==
  ASSUME given \in Requests, Regular, Exact, Header
  PROVE  Exact'
<1>1. Typed /\ RequestRead /\ "c2p" \in Readers
  BY DEF Exact, Readers
<1> DEFINE buf == line("c2p")
           other == proxy.header_other \o buf
<1>2. /\ proxy.pc = "headers" /\ HasLine("c2p") /\ tiny' = tiny /\ given' = given
      /\ proxy.host = meant.host /\ proxy.port = meant.port /\ proxy.path = meant.path
  BY <1>1 DEF Header, RequestRead
<1>3. Forwarded' = Forwarded /\ Answered' = Answered /\ meant' = meant /\ lines' = lines
  BY <1>2, Fixed
<1>4. PICK n \in 0 .. Len(lines) - 1 :
         /\ HasRead(n) /\ line("c2p") = lines[n + 1]
         /\ first(lines, n + 1) \o (rio["c2p"].buf \o stream["c2p"].bytes) = first(lines, Len(lines))
  BY <1>2, HeaderRead
<1> DEFINE k == n + 1
<1>5. lines \in Seq(Bytes) /\ Len(lines) \in Nat \ {0} /\ k \in 1 .. Len(lines) /\ n \in 0 .. Len(lines) /\ k - 1 = n
  BY Asked
<1> HIDE DEF k
<1>6. /\ buf = lines[k] /\ lines[k] \in Bytes /\ lines[k] # <<>>
      /\ (lines[k] = Empty) <=> (k = Len(lines))
      /\ lines[k] # Empty => lines[k][1] \notin NoColon
  BY <1>4, <1>5, Asked DEF k
<1>7. /\ proxy \in [pc : Locations, buf : Bytes, host : Bytes, port : Bytes, path : Bytes, out : Bytes,
                    header_host : Bytes, header_other : Bytes, obj_buf : Bytes, obj_size : Nat]
      /\ proxy.header_host \in Bytes /\ proxy.header_other \in Bytes
      /\ "connect" \in Locations /\ "overflow" \in Locations /\ "headers" \in Locations
      /\ {"connect", "overflow", "headers"} \subseteq Early
  BY <1>1 DEF Typed, Locations, Sending, Early
<1>8. line("c2p") # <<>> /\ (IF line("c2p") = <<>> THEN proxy.buf ELSE line("c2p")) = buf
  BY <1>6
<1>9. ASSUME NextLine("c2p"), stream' = stream
      PROVE  /\ rio' \in [Readers -> [line : Partial, buf : Bytes]]
             /\ first(lines, k) \o Coming("c2p")' = first(lines, Len(lines))
             /\ \A g \in {"p2s", "s2p"} : Coming(g)' = Coming(g)
  <2>1. /\ rio' \in [Readers -> [line : Partial, buf : Bytes]]
        /\ Coming("c2p")' = rio["c2p"].buf \o stream["c2p"].bytes
        /\ \A g \in Readers : g # "c2p" => Coming(g)' = Coming(g)
    BY <1>1, <1>9, NextConserves
  <2> QED
    BY <1>4, <2>1 DEF Readers, k
<1> HIDE DEF buf
<1>10. CASE buf = Empty
  <2> DEFINE host == IF proxy.header_host = <<>> THEN <<"Host">> \o proxy.host \o <<NL>> ELSE proxy.header_host
  <2>1. /\ proxy' = [proxy EXCEPT !.pc = "connect", !.buf = buf,
                       !.header_host = IF @ = <<>> THEN <<"Host">> \o proxy.host \o <<NL>> ELSE @]
        /\ NextLine("c2p") /\ stream' = stream /\ cached' = cached
    BY <1>8, <1>10 DEF Header, buf
  <2>2. host \in Bytes
    <3>1. "Host" \in Word /\ NL \in Word /\ proxy.host \in Bytes
      BY <1>7, Words DEF Literals
    <3>2. <<"Host">> \in Bytes /\ <<NL>> \in Bytes
      BY <3>1, ContainsOne
    <3>3. <<"Host">> \o proxy.host \in Bytes
      BY <3>1, <3>2, Concat
    <3>4. <<"Host">> \o proxy.host \o <<NL>> \in Bytes
      BY <3>2, <3>3, Concat
    <3> QED
      BY <1>7, <3>4
  <2>3. proxy' = [proxy EXCEPT !.pc = "connect", !.buf = buf, !.header_host = host]
    BY <2>1
  <2>4. host = IF proxy.header_host = <<>> THEN <<"Host">> \o meant.host \o <<NL>> ELSE proxy.header_host
    BY <1>2
  <2> HIDE DEF host
  <2>5. /\ proxy' \in [pc : Locations, buf : Bytes, host : Bytes, port : Bytes, path : Bytes, out : Bytes,
                       header_host : Bytes, header_other : Bytes, obj_buf : Bytes, obj_size : Nat]
        /\ proxy'.pc = "connect" /\ proxy'.host = meant.host /\ proxy'.port = meant.port /\ proxy'.path = meant.path
        /\ proxy'.header_host = host /\ proxy'.header_other = proxy.header_other
        /\ proxy'.out = proxy.out /\ proxy'.obj_buf = proxy.obj_buf /\ proxy'.obj_size = proxy.obj_size
    BY <1>2, <1>6, <1>7, <2>2, <2>3
  <2>6. n = Len(lines) - 1
    BY <1>5, <1>6, <1>10
  <2>7. http_header(proxy') = Forwarded
    BY <1>4, <2>4, <2>5, <2>6, ReadyToSend
  <2>8. Typed'
    BY <1>1, <1>2, <1>9, <2>1, <2>5 DEF Typed
  <2>9. RequestRead'
    <3>1. http_header(proxy)' = Forwarded'
      BY <1>3, <2>7 DEF http_header
    <3> QED
      BY <1>3, <2>5, <3>1 DEF RequestRead
  <2>10. RequestSent' /\ AnswerRelayed' /\ AnswerCached'
    BY <1>2, <1>7, <1>9, <2>1, <2>5, EarlyKeeps
  <2> QED
    BY <2>8, <2>9, <2>10 DEF Exact
<1>11. CASE buf # Empty /\ buf[1] # "Host" /\ ~check_header(buf) /\ Len(other) > StackSize
  <2>1. buf # <<>> /\ buf[1] \notin NoColon
    BY <1>6, <1>11
  <2>2. Die("overflow")
    BY <1>8, <1>11, <2>1 DEF Header, buf
  <2>3. proxy' = [proxy EXCEPT !.pc = "overflow"] /\ stream' = stream /\ rio' = rio /\ cached' = cached
    BY <2>2 DEF Die
  <2>4. /\ proxy' \in [pc : Locations, buf : Bytes, host : Bytes, port : Bytes, path : Bytes, out : Bytes,
                       header_host : Bytes, header_other : Bytes, obj_buf : Bytes, obj_size : Nat]
        /\ proxy'.pc = "overflow"
        /\ proxy'.out = proxy.out /\ proxy'.obj_buf = proxy.obj_buf /\ proxy'.obj_size = proxy.obj_size
    BY <1>7, <2>3
  <2>5. Typed'
    BY <1>1, <1>2, <2>3, <2>4 DEF Typed
  <2>6. RequestRead'
    BY <2>4 DEF RequestRead
  <2>7. \A g \in {"p2s", "s2p"} : Coming(g)' = Coming(g)
    BY <2>3 DEF Coming
  <2>8. RequestSent' /\ AnswerRelayed' /\ AnswerCached'
    BY <1>2, <1>7, <2>3, <2>4, <2>7, EarlyKeeps
  <2> QED
    BY <2>5, <2>6, <2>8 DEF Exact
<1>12. CASE buf # Empty /\ ~(buf[1] # "Host" /\ ~check_header(buf) /\ Len(other) > StackSize)
  <2> DEFINE host == IF buf[1] = "Host" THEN strncpy(proxy.header_host, buf) ELSE proxy.header_host
             others == IF buf[1] = "Host" \/ check_header(buf) THEN proxy.header_other ELSE other
  <2>1. buf # <<>> /\ buf[1] \notin NoColon
    BY <1>6, <1>12
  <2>2. /\ proxy' = [proxy EXCEPT !.buf = buf,
                       !.header_host  = IF buf[1] = "Host" THEN strncpy(@, buf) ELSE @,
                       !.header_other = IF buf[1] = "Host" \/ check_header(buf) THEN @ ELSE other]
        /\ NextLine("c2p") /\ stream' = stream /\ cached' = cached
    BY <1>8, <1>12, <2>1 DEF Header, buf
  <2>3. proxy' = [proxy EXCEPT !.buf = buf, !.header_host = host, !.header_other = others]
    BY <2>2
  <2>4. others = without(dropped, lines, k)
    <3>1. proxy.header_other = without(dropped, lines, n)
      BY <1>4 DEF HasRead
    <3>2. \A j \in 1 .. Len(lines) :
             without(dropped, lines, j) = IF lines[j][1] \in dropped THEN without(dropped, lines, j - 1)
                                          ELSE without(dropped, lines, j - 1) \o lines[j]
      BY <1>5, Without
    <3>3. without(dropped, lines, k) = IF buf[1] \in dropped THEN without(dropped, lines, n)
                                       ELSE without(dropped, lines, n) \o buf
      BY <1>5, <1>6, <3>2
    <3>4. buf[1] \in dropped <=> buf[1] = "Host" \/ check_header(buf)
      BY DEF dropped, check_header
    <3> QED
      BY <3>1, <3>3, <3>4
  <2>5. others \in Bytes
    <3>1. lines \in Seq(Bytes) /\ k \in 0 .. Len(lines)
      BY <1>5
    <3>2. \A j \in 0 .. Len(lines) : without(dropped, lines, j) \in Bytes
      BY <3>1, Without
    <3> HIDE DEF others
    <3> QED
      BY <2>4, <3>1, <3>2
  <2>6. host \in Bytes /\ (buf[1] = "Host" => host = buf)
    <3> SUFFICES ASSUME buf[1] = "Host" PROVE host = buf
      BY <1>6, <1>7
    <3>1. ASSUME NEW i \in 1 .. n PROVE lines[i][1] # "Host"
      <4>1. i \in 1 .. Len(lines) /\ i # k
        BY <1>5
      <4>2. \A a, b \in 1 .. Len(lines) : lines[a][1] = "Host" /\ lines[b][1] = "Host" => a = b
        BY Asked
      <4> QED
        BY <1>5, <1>6, <4>1, <4>2
    <3>2. proxy.header_host = <<>>
      BY <1>4, <3>1 DEF HasRead
    <3>3. SubSeq(<<>>, Len(buf) + 1, Len(<<>>)) = <<>>
      <4>1. Len(buf) \in Nat /\ Len(<<>>) = 0
        BY <1>6, Empties
      <4>2. Len(buf) + 1 \in Int /\ 0 \in Int /\ 0 < Len(buf) + 1
        BY <4>1
      <4>3. SubSeq(<<>>, Len(buf) + 1, 0) = <<>>
        BY <4>2, SubSeqEmpty
      <4> QED
        BY <4>1, <4>3
    <3>4. buf \o <<>> = buf
      BY <1>6, Empties
    <3> QED
      BY <3>2, <3>3, <3>4 DEF strncpy, from
  <2>7. buf[1] # "Host" => host = proxy.header_host
    OBVIOUS
  <2> HIDE DEF host, others
  <2>8. /\ proxy' \in [pc : Locations, buf : Bytes, host : Bytes, port : Bytes, path : Bytes, out : Bytes,
                       header_host : Bytes, header_other : Bytes, obj_buf : Bytes, obj_size : Nat]
        /\ proxy'.pc = "headers" /\ proxy'.host = meant.host /\ proxy'.port = meant.port /\ proxy'.path = meant.path
        /\ proxy'.header_host = host /\ proxy'.header_other = others
        /\ proxy'.out = proxy.out /\ proxy'.obj_buf = proxy.obj_buf /\ proxy'.obj_size = proxy.obj_size
    BY <1>2, <1>6, <1>7, <2>3, <2>5, <2>6
  <2>9. k \in 0 .. Len(lines) - 1
    BY <1>5, <1>6, <1>12
  <2>10. \A i \in 1 .. k : i \in 1 .. n \/ i = k
    BY <1>5
  <2>11. n \in 1 .. k \/ n = 0
    BY <1>5
  <2>12. HasRead(k)'
    <3>1. \A i \in 1 .. k : lines[i][1] = "Host" => host = lines[i]
      <4> SUFFICES ASSUME NEW i \in 1 .. k, lines[i][1] = "Host" PROVE host = lines[i]
        OBVIOUS
      <4>1. CASE i = k
        BY <1>6, <2>6, <4>1
      <4>2. CASE i \in 1 .. n /\ i # k
        <5>1. i \in 1 .. Len(lines)
          BY <1>5, <4>2
        <5>2. \A a, b \in 1 .. Len(lines) : lines[a][1] = "Host" /\ lines[b][1] = "Host" => a = b
          BY Asked
        <5>3. buf[1] # "Host"
          BY <1>5, <1>6, <4>2, <5>1, <5>2
        <5>4. proxy.header_host = lines[i]
          BY <1>4, <4>2 DEF HasRead
        <5> QED
          BY <2>7, <5>3, <5>4
      <4> QED
        BY <2>10, <4>1, <4>2
    <3>2. (\A i \in 1 .. k : lines[i][1] # "Host") => host = <<>>
      <4> SUFFICES ASSUME \A i \in 1 .. k : lines[i][1] # "Host" PROVE host = <<>>
        OBVIOUS
      <4>1. \A i \in 1 .. n : i \in 1 .. k
        BY <1>5
      <4>2. proxy.header_host = <<>>
        BY <1>4, <4>1 DEF HasRead
      <4>3. buf[1] # "Host"
        BY <1>5, <1>6
      <4> QED
        BY <2>7, <4>2, <4>3
    <3>3. first(lines, k) \o Coming("c2p")' = first(lines, Len(lines))
      BY <1>9, <2>2
    <3> QED
      BY <1>3, <2>4, <2>8, <3>1, <3>2, <3>3 DEF HasRead
  <2>13. RequestRead'
    <3>1. \E j \in 0 .. Len(lines) - 1 : HasRead(j)'
      BY <2>9, <2>12
    <3> QED
      BY <1>3, <2>8, <3>1 DEF RequestRead
  <2>14. Typed'
    BY <1>1, <1>2, <1>9, <2>2, <2>8 DEF Typed
  <2>15. RequestSent' /\ AnswerRelayed' /\ AnswerCached'
    BY <1>2, <1>7, <1>9, <2>2, <2>8, EarlyKeeps
  <2> QED
    BY <2>13, <2>14, <2>15 DEF Exact
<1> QED
  BY <1>10, <1>11, <1>12


LEMMA ConnectKeeps ==
  ASSUME given \in Requests, Regular, Exact, Connect
  PROVE  Exact'
<1>1. Typed /\ RequestRead /\ RequestSent /\ AnswerRelayed /\ AnswerCached
  BY DEF Exact
<1>2. /\ proxy.pc = "connect" /\ stream' = stream /\ rio' = rio /\ tiny' = tiny /\ given' = given /\ cached' = cached
      /\ proxy.pc \in Early
  BY DEF Connect, Die, Early
<1>3. Forwarded' = Forwarded /\ Answered' = Answered /\ meant' = meant /\ lines' = lines
  BY <1>2, Fixed
<1>4. /\ proxy \in [pc : Locations, buf : Bytes, host : Bytes, port : Bytes, path : Bytes, out : Bytes,
                    header_host : Bytes, header_other : Bytes, obj_buf : Bytes, obj_size : Nat]
      /\ "no connection" \in Locations /\ "send" \in Locations /\ "no connection" \in Early /\ "send" \notin Early
  BY <1>1 DEF Typed, Locations, Sending, Early
<1>5. Coming("c2p")' = Coming("c2p") /\ Coming("p2s")' = Coming("p2s") /\ Coming("s2p")' = Coming("s2p")
  BY <1>2 DEF Coming
<1>6. CASE Die("no connection")
  <2>1. proxy' = [proxy EXCEPT !.pc = "no connection"]
    BY <1>6 DEF Die
  <2>2. /\ proxy' \in [pc : Locations, buf : Bytes, host : Bytes, port : Bytes, path : Bytes, out : Bytes,
                       header_host : Bytes, header_other : Bytes, obj_buf : Bytes, obj_size : Nat]
        /\ proxy'.pc = "no connection"
        /\ proxy'.out = proxy.out /\ proxy'.obj_buf = proxy.obj_buf /\ proxy'.obj_size = proxy.obj_size
    BY <1>4, <2>1
  <2>3. Typed'
    BY <1>1, <1>2, <2>2 DEF Typed
  <2>4. RequestRead'
    BY <2>2 DEF RequestRead
  <2>5. RequestSent' /\ AnswerRelayed' /\ AnswerCached'
    BY <1>2, <1>4, <1>5, <2>2, EarlyKeeps
  <2> QED
    BY <2>3, <2>4, <2>5 DEF Exact
<1>7. CASE proxy' = [proxy EXCEPT !.pc = "send", !.out = http_header(proxy)]
  <2>1. http_header(proxy) = Forwarded /\ Forwarded \in Bytes
    BY <1>1, <1>2, ForwardedBegins DEF RequestRead
  <2>2. proxy' = [proxy EXCEPT !.pc = "send", !.out = Forwarded]
    BY <1>7, <2>1
  <2>3. /\ proxy' \in [pc : Locations, buf : Bytes, host : Bytes, port : Bytes, path : Bytes, out : Bytes,
                       header_host : Bytes, header_other : Bytes, obj_buf : Bytes, obj_size : Nat]
        /\ proxy'.pc = "send" /\ proxy'.out = Forwarded
        /\ proxy'.host = proxy.host /\ proxy'.port = proxy.port /\ proxy'.path = proxy.path
        /\ proxy'.obj_buf = proxy.obj_buf /\ proxy'.obj_size = proxy.obj_size
    BY <1>4, <2>1, <2>2
  <2>4. Typed'
    BY <1>1, <1>2, <2>3 DEF Typed
  <2>5. RequestRead'
    BY <1>1, <1>2, <1>3, <2>3 DEF RequestRead
  <2>6. tiny.pc = "request" /\ Coming("p2s") = <<>>
    <3>1. tiny.pc = "request" /\ Coming("p2s") \o toServer = <<>>
      BY <1>1, <1>2 DEF RequestSent
    <3>2. toServer = <<>>
      BY <1>2 DEF toServer, Sending
    <3>3. Coming("p2s") \in Bytes
      BY <1>1, ComingTyped DEF Readers
    <3> QED
      BY <3>1, <3>2, <3>3, Empties
  <2>7. RequestSent'
    <3>1. <<>> \o Forwarded = Forwarded /\ <<>> \in Bytes
      BY <2>1, Empties
    <3>2. \E sent \in Bytes : sent \o proxy'.out = Forwarded
      BY <2>3, <3>1
    <3>3. toServer' = Forwarded
      BY <2>3 DEF toServer, Sending
    <3> QED
      BY <1>1, <1>2, <1>3, <1>4, <1>5, <2>3, <2>6, <3>1, <3>2, <3>3 DEF RequestSent
  <2>8. received' = received
    <3>1. toClient = <<>>
      BY <1>1, <1>2 DEF Sending, AnswerRelayed, toClient
    <3>2. toClient' = <<>>
      BY <2>3 DEF Sending, toClient
    <3> QED
      BY <1>2, <3>1, <3>2 DEF received
  <2>9. AnswerRelayed'
    BY <1>1, <1>2, <1>3, <1>5, <2>3, <2>8 DEF Sending, AnswerRelayed
  <2>10. AnswerCached'
    BY <1>1, <1>2, <1>3, <2>3, <2>8 DEF AnswerCached
  <2> QED
    BY <2>4, <2>5, <2>7, <2>9, <2>10 DEF Exact
<1> QED
  BY <1>6, <1>7 DEF Connect

(* What is sent is taken from what is to be sent, or the process ends.     *)
Sends ==
  /\ proxy.pc = "send"
  /\ \E done \in written(proxy.out, "p2s") :
        /\ stream' = done.stream
        /\ proxy' = [proxy EXCEPT !.out = done.out, !.pc = IF done.out = <<>> THEN "relay" ELSE @]
  /\ UNCHANGED <<rio, tiny, given, cached>>

LEMMA SentKeeps ==
  ASSUME given \in Requests, Regular, Exact, Sends
  PROVE  Exact'
<1>1. Typed /\ RequestRead /\ RequestSent /\ AnswerRelayed /\ AnswerCached
  BY DEF Exact
<1>2. PICK done \in written(proxy.out, "p2s") :
         /\ stream' = done.stream
         /\ proxy' = [proxy EXCEPT !.out = done.out, !.pc = IF done.out = <<>> THEN "relay" ELSE @]
  BY DEF Sends
<1>3. proxy.pc = "send" /\ rio' = rio /\ tiny' = tiny /\ given' = given /\ cached' = cached
  BY DEF Sends
<1>4. Forwarded' = Forwarded /\ Answered' = Answered /\ meant' = meant /\ lines' = lines
  BY <1>3, Fixed
<1>5. /\ proxy \in [pc : Locations, buf : Bytes, host : Bytes, port : Bytes, path : Bytes, out : Bytes,
                    header_host : Bytes, header_other : Bytes, obj_buf : Bytes, obj_size : Nat]
      /\ proxy.out \in Bytes /\ "relay" \in Locations /\ "send" \in Locations
      /\ "relay" \notin Early /\ "send" \notin Early /\ "p2s" \in Links
  BY <1>1 DEF Typed, Locations, Sending, Early, Links
<1>6. /\ stream' \in [Links -> [bytes : Bytes, eof : BOOLEAN]]
      /\ done.out \in Bytes
      /\ \E part \in Bytes : part \o done.out = proxy.out /\ stream'["p2s"].bytes = stream["p2s"].bytes \o part
      /\ \A g \in Links : stream'[g].eof = stream[g].eof /\ (g # "p2s" => stream'[g] = stream[g])
  BY <1>1, <1>2, <1>5, WrittenAdds
<1>7. PICK part \in Bytes : part \o done.out = proxy.out /\ stream'["p2s"].bytes = stream["p2s"].bytes \o part
  BY <1>6
<1>8. /\ stream'["c2p"] = stream["c2p"] /\ stream'["s2p"] = stream["s2p"] /\ stream'["p2c"] = stream["p2c"]
      /\ stream'["p2s"].eof = stream["p2s"].eof
  BY <1>6 DEF Links
<1> DEFINE pc == IF done.out = <<>> THEN "relay" ELSE "send"
           left == done.out
<1>9. proxy' = [proxy EXCEPT !.out = left, !.pc = pc] /\ pc \in {"relay", "send"} /\ (pc = "relay" => left = <<>>)
      /\ left \in Bytes /\ part \o left = proxy.out
  BY <1>2, <1>3, <1>6, <1>7
<1> HIDE DEF pc, left
<1>10. /\ proxy' \in [pc : Locations, buf : Bytes, host : Bytes, port : Bytes, path : Bytes, out : Bytes,
                      header_host : Bytes, header_other : Bytes, obj_buf : Bytes, obj_size : Nat]
       /\ proxy'.pc = pc /\ proxy'.out = left
       /\ proxy'.host = proxy.host /\ proxy'.port = proxy.port /\ proxy'.path = proxy.path
       /\ proxy'.obj_buf = proxy.obj_buf /\ proxy'.obj_size = proxy.obj_size
  BY <1>5, <1>9
<1>11. Coming("c2p")' = Coming("c2p") /\ Coming("s2p")' = Coming("s2p") /\ Coming("p2s")' = Coming("p2s") \o part
  <2>1. Coming("c2p")' = Coming("c2p") /\ Coming("s2p")' = Coming("s2p")
    BY <1>3, <1>8 DEF Coming
  <2>2. /\ rio["p2s"].line \in Bytes /\ rio["p2s"].buf \in Bytes /\ stream["p2s"].bytes \in Bytes
    BY <1>1, ComingTyped DEF Readers
  <2> DEFINE held == rio["p2s"].line \o rio["p2s"].buf
             come == stream["p2s"].bytes
  <2>3. held \in Bytes /\ come \in Bytes
    BY <2>2, Concat
  <2>4. Coming("p2s")' = held \o (come \o part) /\ Coming("p2s") = held \o come
    BY <1>3, <1>7 DEF Coming
  <2> HIDE DEF held, come
  <2>5. (held \o come) \o part = held \o (come \o part)
    BY <2>3, Assoc
  <2> QED
    BY <2>1, <2>4, <2>5
<1>12. Typed'
  BY <1>1, <1>3, <1>6, <1>10 DEF Typed
<1>13. RequestRead'
  BY <1>1, <1>3, <1>4, <1>9, <1>10 DEF RequestRead
<1>14. toServer' = left /\ toServer = proxy.out
  BY <1>3, <1>9, <1>10 DEF toServer, Sending
<1>15. toClient = <<>> /\ toClient' = <<>>
  BY <1>3, <1>9, <1>10 DEF Sending, toClient
<1>16. \E sent \in Bytes : sent \o left = Forwarded
  <2>1. PICK sent \in Bytes : sent \o proxy.out = Forwarded
    BY <1>1, <1>3 DEF RequestSent
  <2>2. (sent \o part) \o left = sent \o (part \o left) /\ sent \o part \in Bytes
    BY <1>9, Assoc, Concat
  <2> QED
    BY <1>9, <2>1, <2>2
<1>17. tiny.pc = "request" => Coming("p2s")' \o left = Forwarded
  <2> SUFFICES ASSUME tiny.pc = "request" PROVE Coming("p2s")' \o left = Forwarded
    OBVIOUS
  <2>1. Coming("p2s") \o proxy.out = Forwarded
    BY <1>1, <1>3, <1>5, <1>14 DEF RequestSent
  <2> DEFINE come == Coming("p2s")
  <2>2. come \in Bytes
    BY <1>1, ComingTyped DEF Readers
  <2> HIDE DEF come
  <2>3. (come \o part) \o left = come \o (part \o left)
    BY <1>9, <2>2, Assoc
  <2> QED
    BY <1>9, <1>11, <2>1, <2>3 DEF come
<1>18. RequestSent'
  BY <1>1, <1>3, <1>4, <1>5, <1>8, <1>9, <1>10, <1>14, <1>16, <1>17 DEF RequestSent
<1>19. received' = received
  BY <1>8, <1>15 DEF received
<1>20. AnswerRelayed'
  BY <1>1, <1>3, <1>4, <1>8, <1>9, <1>10, <1>11, <1>19 DEF Sending, AnswerRelayed
<1>21. AnswerCached'
  BY <1>1, <1>3, <1>4, <1>9, <1>10, <1>19 DEF AnswerCached
<1> QED
  BY <1>12, <1>13, <1>18, <1>20, <1>21 DEF Exact

LEMMA SendKeeps ==
  ASSUME given \in Requests, Regular, Exact, Send
  PROVE  Exact'
<1>1. Typed /\ RequestRead /\ RequestSent /\ AnswerRelayed /\ AnswerCached
  BY DEF Exact
<1>2. proxy.pc = "send" /\ tiny' = tiny /\ given' = given /\ rio' = rio /\ cached' = cached
  BY DEF Send, Die
<1>3. CASE Die("server gone")
  <2>1. proxy' = [proxy EXCEPT !.pc = "server gone"] /\ stream' = stream
    BY <1>3 DEF Die
  <2>2. Forwarded' = Forwarded /\ Answered' = Answered /\ meant' = meant /\ lines' = lines
    BY <1>2, Fixed
  <2>3. /\ proxy \in [pc : Locations, buf : Bytes, host : Bytes, port : Bytes, path : Bytes, out : Bytes,
                      header_host : Bytes, header_other : Bytes, obj_buf : Bytes, obj_size : Nat]
        /\ "server gone" \in Locations /\ {"send", "server gone"} \subseteq Sending
        /\ {"send", "server gone"} \cap Early = {}
    BY <1>1 DEF Typed, Locations, Sending, Early
  <2>4. /\ proxy' \in [pc : Locations, buf : Bytes, host : Bytes, port : Bytes, path : Bytes, out : Bytes,
                       header_host : Bytes, header_other : Bytes, obj_buf : Bytes, obj_size : Nat]
        /\ proxy'.pc = "server gone" /\ proxy'.out = proxy.out
        /\ proxy'.obj_buf = proxy.obj_buf /\ proxy'.obj_size = proxy.obj_size
    BY <2>1, <2>3
  <2>5. Coming("c2p")' = Coming("c2p") /\ Coming("p2s")' = Coming("p2s") /\ Coming("s2p")' = Coming("s2p")
    BY <1>2, <2>1 DEF Coming
  <2>6. received' = received /\ toServer' = toServer
    BY <1>2, <2>1, <2>3, <2>4 DEF received, toClient, toServer
  <2>7. Typed'
    BY <1>1, <1>2, <2>1, <2>4 DEF Typed
  <2>8. RequestRead'
    BY <2>4 DEF RequestRead
  <2>9. RequestSent'
    BY <1>1, <1>2, <2>1, <2>2, <2>3, <2>4, <2>5, <2>6 DEF RequestSent
  <2>10. AnswerRelayed'
    BY <1>1, <1>2, <2>1, <2>2, <2>3, <2>4, <2>5, <2>6 DEF AnswerRelayed
  <2>11. AnswerCached'
    BY <1>1, <1>2, <2>2, <2>4, <2>6 DEF AnswerCached
  <2> QED
    BY <2>7, <2>8, <2>9, <2>10, <2>11 DEF Exact
<1>4. CASE \E done \in written(proxy.out, "p2s") :
             /\ stream' = done.stream
             /\ proxy' = [proxy EXCEPT !.out = done.out, !.pc = IF done.out = <<>> THEN "relay" ELSE @]
  BY <1>2, <1>4, SentKeeps DEF Sends
<1> QED
  BY <1>3, <1>4 DEF Send

LEMMA BeforeTyped ==
  ASSUME NEW a \in Bytes, NEW c
  PROVE  before(a, c) \in Bytes
<1>1. CASE ~Contains(a, c)
  BY <1>1, Absent
<1>2. CASE Contains(a, c)
  <2> DEFINE I == { i \in 1 .. Len(a) : a[i] = c }
  <2>1. I \in SUBSET Nat /\ I # {} /\ Len(a) \in Nat
    BY <1>2, Empties DEF Contains
  <2> HIDE DEF I
  <2>2. PICK k \in I : \A i \in I : k <= i
    BY <2>1, LeastNat
  <2>3. k \in 1 .. Len(a) /\ a[k] = c /\ \A i \in 1 .. Len(a) : a[i] = c => k <= i
    BY <2>2 DEF I
  <2>4. \A i \in 1 .. k - 1 : a[i] # c
    BY <2>1, <2>3
  <2>5. before(a, c) = SubSeq(a, 1, k - 1)
    BY <2>3, <2>4, Index
  <2>6. k - 1 \in 0 .. Len(a)
    BY <2>1, <2>3
  <2> DEFINE j == k - 1
  <2> HIDE DEF j
  <2>7. SubSeq(a, 1, j) \in Bytes
    BY <2>6, Split DEF j
  <2> QED
    BY <2>5, <2>7 DEF j
<1> QED
  BY <1>1, <1>2

(* What is received and what is left of the answer.                        *)
LEMMA Relaying ==
  ASSUME given \in Requests, Regular, Exact
  PROVE  /\ stream["p2c"] \in [bytes : Bytes, eof : BOOLEAN] /\ stream["p2c"].bytes \in Bytes
         /\ proxy.out \in Bytes /\ received \in Bytes /\ tiny.out \in Seq(Bytes)
         /\ Coming("s2p") \in Bytes /\ FlattenSeq(tiny.out) \in Bytes /\ Coming("s2p") \o FlattenSeq(tiny.out) \in Bytes
         /\ Answered \in Bytes
<1>1. stream["p2c"] \in [bytes : Bytes, eof : BOOLEAN] /\ stream["p2c"].bytes \in Bytes /\ proxy.out \in Bytes /\ tiny.out \in Seq(Bytes)
  BY DEF Exact, Typed, Links
<1>2. received \in Bytes
  <2>1. toClient \in Bytes
    BY <1>1, Empties DEF Sending, toClient
  <2> QED
    BY <1>1, <2>1, Concat DEF received
<1>3. Coming("s2p") \in Bytes /\ FlattenSeq(tiny.out) \in Bytes
  <2>1. Typed /\ "s2p" \in Readers
    BY DEF Exact, Readers
  <2> QED
    BY <1>1, <2>1, ComingTyped, FlattenTyped
<1>4. Coming("s2p") \o FlattenSeq(tiny.out) \in Bytes
  BY <1>3, Concat
<1>5. Answered \in Bytes
  <2>1. meant.path \in Bytes
    BY Meant
  <2>2. FlattenSeq(answer(meant.path)) \in Bytes
    BY <2>1, AnswerTyped
  <2> QED
    BY <2>2 DEF Answered, meant
<1> QED
  BY <1>1, <1>2, <1>3, <1>4, <1>5

(* What is relayed is the next of the answer.                              *)
LEMMA RelayKeeps ==
  ASSUME given \in Requests, Regular, Exact, Relay
  PROVE  Exact'
<1>1. Typed /\ RequestRead /\ RequestSent /\ AnswerRelayed /\ AnswerCached
  BY DEF Exact
<1> DEFINE buf == line("s2p")
           size == proxy.obj_size + Len(buf)
<1>2. proxy.pc = "relay" /\ HasLine("s2p") /\ stream' = stream /\ tiny' = tiny /\ given' = given
  BY DEF Relay
<1>3. Forwarded' = Forwarded /\ Answered' = Answered /\ meant' = meant /\ lines' = lines
  BY <1>2, Fixed
<1>4. /\ proxy \in [pc : Locations, buf : Bytes, host : Bytes, port : Bytes, path : Bytes, out : Bytes,
                    header_host : Bytes, header_other : Bytes, obj_buf : Bytes, obj_size : Nat]
      /\ proxy.obj_buf \in Bytes /\ proxy.obj_size \in Nat
      /\ {"relay", "write", "close"} \subseteq Locations /\ {"relay", "write", "close"} \cap Early = {}
  BY <1>1 DEF Typed, Locations, Sending, Early
<1>5. /\ "s2p" \in Readers /\ rio["s2p"].line \in Bytes /\ rio["s2p"].buf \in Bytes /\ stream["s2p"].bytes \in Bytes
      /\ Coming("s2p") \in Bytes
  BY <1>1, ComingTyped DEF Readers
<1>6. /\ stream["p2c"].bytes \in Bytes /\ received \in Bytes /\ Coming("s2p") \in Bytes /\ FlattenSeq(tiny.out) \in Bytes
      /\ Answered \in Bytes /\ Coming("s2p") \o FlattenSeq(tiny.out) \in Bytes
  BY Relaying
<1>7. proxy.out = <<>> /\ toClient = <<>> /\ received = stream["p2c"].bytes
  <2>1. proxy.out = <<>>
    BY <1>1, <1>2 DEF Sending, AnswerRelayed
  <2>2. stream["p2c"].bytes \o <<>> = stream["p2c"].bytes
    BY <1>6, Empties
  <2> QED
    BY <1>2, <2>1, <2>2 DEF Sending, toClient, received
<1>8. buf \in Bytes /\ buf = rio["s2p"].line /\ Len(buf) \in Nat
  BY <1>5, Empties DEF line
<1>9. cached = [object |-> none, size |-> 0]
  BY <1>1, <1>2 DEF AnswerCached
<1>10. proxy.obj_size = Len(received)
  BY <1>1 DEF AnswerCached
<1> HIDE DEF buf
<1>11. CASE buf # <<>>
  <2> DEFINE obj == IF size < MAX_OBJECT_SIZE THEN appended(proxy.obj_buf, buf) ELSE proxy.obj_buf
             come == rio["s2p"].buf \o stream["s2p"].bytes
             flat == FlattenSeq(tiny.out)
  <2>1. /\ proxy' = [proxy EXCEPT !.pc = "write", !.out = buf, !.obj_size = size,
                       !.obj_buf = IF size < MAX_OBJECT_SIZE THEN appended(@, buf) ELSE @]
        /\ NextLine("s2p") /\ cached' = cached
    BY <1>11 DEF Relay, buf
  <2>2. proxy' = [proxy EXCEPT !.pc = "write", !.out = buf, !.obj_size = size, !.obj_buf = obj]
    BY <2>1
  <2>3. size \in Nat /\ obj \in Bytes
    <3>1. before(buf, "NUL") \in Bytes
      BY <1>8, BeforeTyped
    <3>2. proxy.obj_buf \o before(buf, "NUL") \in Bytes
      BY <1>4, <3>1, Concat
    <3> QED
      BY <1>4, <1>8, <3>2 DEF appended
  <2> HIDE DEF size, obj
  <2>4. /\ proxy' \in [pc : Locations, buf : Bytes, host : Bytes, port : Bytes, path : Bytes, out : Bytes,
                       header_host : Bytes, header_other : Bytes, obj_buf : Bytes, obj_size : Nat]
        /\ proxy'.pc = "write" /\ proxy'.out = buf /\ proxy'.obj_size = size /\ proxy'.obj_buf = obj
    BY <1>4, <1>8, <2>2, <2>3
  <2>5. /\ rio' \in [Readers -> [line : Partial, buf : Bytes]]
        /\ Coming("s2p") = buf \o Coming("s2p")'
        /\ Coming("s2p")' = come
        /\ \A g \in Readers : g # "s2p" => Coming(g)' = Coming(g)
    BY <1>1, <1>2, <1>5, <1>8, <2>1, NextConserves
  <2>6. Coming("c2p")' = Coming("c2p") /\ Coming("p2s")' = Coming("p2s")
    BY <2>5 DEF Readers
  <2>7. come \in Bytes /\ flat \in Bytes
    BY <1>5, <1>6, Concat
  <2> HIDE DEF come, flat
  <2>8. received' = received \o buf
    BY <1>2, <1>7, <2>4 DEF Sending, received, toClient
  <2>9. (received \o buf) \o (come \o flat) = received \o (Coming("s2p") \o flat)
    <3>1. come \o flat \in Bytes
      BY <2>7, Concat
    <3>2. (received \o buf) \o (come \o flat) = received \o (buf \o (come \o flat))
      <4> DEFINE cf == come \o flat
      <4>1. cf \in Bytes /\ received \in Bytes /\ buf \in Bytes
        BY <1>6, <1>8, <3>1
      <4> HIDE DEF cf
      <4>2. (received \o buf) \o cf = received \o (buf \o cf)
        BY <4>1, Assoc
      <4> QED
        BY <4>2 DEF cf
    <3>3. (buf \o come) \o flat = buf \o (come \o flat)
      BY <1>8, <2>7, Assoc
    <3> QED
      BY <2>5, <3>2, <3>3
  <2>10. tiny.pc \notin {"request", "headers"} /\ received \o (Coming("s2p") \o flat) = Answered
    <3>1. received \o (Coming("s2p") \o flat) = IF tiny.pc \in {"request", "headers"} THEN <<>> ELSE Answered
      BY <1>1 DEF Sending, AnswerRelayed, flat
    <3>2. received \o (Coming("s2p") \o flat) # <<>>
      <4>1. Coming("s2p") \o flat = <<>> => Coming("s2p") = <<>>
        BY <1>6, Empties DEF flat
      <4>2. received \o (Coming("s2p") \o flat) = <<>> => Coming("s2p") \o flat = <<>>
        BY <1>6, Empties DEF flat
      <4>3. Coming("s2p") = <<>> => buf = <<>>
        BY <1>8, <2>5, <2>7, Empties
      <4> QED
        BY <1>11, <4>1, <4>2, <4>3
    <3> QED
      BY <3>1, <3>2
  <2>11. ~Contains(Answered, "NUL") => ~Contains(buf, "NUL")
    <3>1. come \o flat \in Bytes /\ received \o buf \in Bytes
      BY <1>6, <1>8, <2>7, Concat
    <3>2. Contains((received \o buf) \o (come \o flat), "NUL")
             <=> Contains(received \o buf, "NUL") \/ Contains(come \o flat, "NUL")
      BY <3>1, ContainsEither
    <3>3. Contains(received \o buf, "NUL") <=> Contains(received, "NUL") \/ Contains(buf, "NUL")
      BY <1>6, <1>8, ContainsEither
    <3> QED
      BY <2>9, <2>10, <3>2, <3>3
  <2>12. Len(received \o buf) = size
    BY <1>6, <1>8, <1>10, Concat DEF size
  <2>13. ASSUME size < MAX_OBJECT_SIZE, ~Contains(Answered, "NUL") PROVE obj = received \o buf
    <3>1. proxy.obj_size < MAX_OBJECT_SIZE
      BY <1>4, <1>8, <2>13, SizeAssumption DEF size
    <3>2. proxy.obj_buf = received
      BY <1>1, <2>13, <3>1 DEF AnswerCached
    <3>3. before(buf, "NUL") = buf
      BY <1>8, <2>11, <2>13, Absent
    <3> QED
      BY <2>13, <3>2, <3>3 DEF obj, appended
  <2>14. Typed'
    BY <1>1, <1>2, <2>4, <2>5 DEF Typed
  <2>15. RequestRead'
    BY <2>4 DEF RequestRead
  <2>16. RequestSent'
    <3>1. toServer' = toServer
      BY <1>2, <2>4 DEF toServer, Sending
    <3> QED
      BY <1>1, <1>2, <1>3, <1>4, <2>4, <2>6, <3>1 DEF RequestSent
  <2>17. AnswerRelayed'
    BY <1>1, <1>2, <1>3, <2>4, <2>5, <2>8, <2>9, <2>10 DEF Sending, AnswerRelayed, flat
  <2>18. AnswerCached'
    BY <1>3, <1>9, <2>1, <2>4, <2>8, <2>12, <2>13 DEF AnswerCached
  <2> QED
    BY <2>14, <2>15, <2>16, <2>17, <2>18 DEF Exact
<1>12. CASE buf = <<>>
  <2>1. /\ proxy' = [proxy EXCEPT !.pc = "close"] /\ rio' = rio
        /\ cached' = IF proxy.obj_size < MAX_OBJECT_SIZE
                     THEN [object |-> proxy.obj_buf, size |-> proxy.obj_size] ELSE cached
    BY <1>12 DEF Relay, buf
  <2>2. /\ proxy' \in [pc : Locations, buf : Bytes, host : Bytes, port : Bytes, path : Bytes, out : Bytes,
                       header_host : Bytes, header_other : Bytes, obj_buf : Bytes, obj_size : Nat]
        /\ proxy'.pc = "close" /\ proxy'.out = proxy.out
        /\ proxy'.obj_size = proxy.obj_size /\ proxy'.obj_buf = proxy.obj_buf
    BY <1>4, <2>1
  <2>3. stream["s2p"].bytes = <<>> /\ rio["s2p"].buf = <<>> /\ stream["s2p"].eof
    <3>1. ~complete(<<>>)
      BY Empties, RioAssumption DEF complete
    <3> QED
      BY <1>2, <1>8, <1>12, <3>1 DEF HasLine, returns
  <2>4. Coming("s2p") = <<>>
    BY <1>8, <1>12, <2>3, Empties DEF Coming
  <2>5. FlattenSeq(tiny.out) = <<>> /\ tiny.pc = "done"
    <3>1. tiny.pc = "done" /\ tiny.out = <<>>
      BY <1>1, <2>3 DEF Sending, AnswerRelayed
    <3>2. tiny.out \in Seq(Bytes)
      BY Relaying
    <3> QED
      BY <3>1, <3>2, FlattenTyped
  <2>6. received = Answered
    <3>1. received \o (Coming("s2p") \o FlattenSeq(tiny.out)) = Answered
      BY <1>1, <2>5 DEF Sending, AnswerRelayed
    <3>2. <<>> \o <<>> = <<>> /\ received \o <<>> = received
      BY <1>6, Empties
    <3> QED
      BY <2>4, <2>5, <3>1, <3>2
  <2>7. Coming("c2p")' = Coming("c2p") /\ Coming("p2s")' = Coming("p2s") /\ Coming("s2p")' = Coming("s2p")
    BY <1>2, <2>1 DEF Coming
  <2>8. received' = received /\ toServer' = toServer
    BY <1>2, <2>2 DEF Sending, received, toClient, toServer
  <2>9. Typed'
    BY <1>1, <1>2, <2>1, <2>2 DEF Typed
  <2>10. RequestRead'
    BY <2>2 DEF RequestRead
  <2>11. RequestSent'
    BY <1>1, <1>2, <1>3, <1>4, <2>2, <2>7, <2>8 DEF RequestSent
  <2>12. AnswerRelayed'
    BY <1>1, <1>2, <1>3, <1>7, <2>2, <2>6, <2>7, <2>8 DEF Sending, AnswerRelayed
  <2>13. AnswerCached'
    BY <1>1, <1>3, <1>9, <2>1, <2>2, <2>8 DEF AnswerCached
  <2> QED
    BY <2>9, <2>10, <2>11, <2>12, <2>13 DEF Exact
<1> QED
  BY <1>11, <1>12


(* What is written to the client is taken from the line.                   *)
LEMMA WriteKeeps ==
  ASSUME given \in Requests, Regular, Exact, Write
  PROVE  Exact'
<1>1. Typed /\ RequestRead /\ RequestSent /\ AnswerRelayed /\ AnswerCached
  BY DEF Exact
<1>2. proxy.pc = "write" /\ tiny' = tiny /\ given' = given /\ rio' = rio /\ cached' = cached
  BY DEF Write, Die
<1>3. Forwarded' = Forwarded /\ Answered' = Answered /\ meant' = meant /\ lines' = lines
  BY <1>2, Fixed
<1>4. /\ proxy \in [pc : Locations, buf : Bytes, host : Bytes, port : Bytes, path : Bytes, out : Bytes,
                    header_host : Bytes, header_other : Bytes, obj_buf : Bytes, obj_size : Nat]
      /\ proxy.out \in Bytes
      /\ {"relay", "write", "broken pipe"} \subseteq Locations /\ {"relay", "write", "broken pipe"} \cap Early = {}
  BY <1>1 DEF Typed, Locations, Sending, Early
<1>5. ASSUME NEW pc \in {"relay", "write", "broken pipe"}, NEW left \in Bytes, pc = "relay" => left = <<>>,
             proxy' = [proxy EXCEPT !.out = left, !.pc = pc],
             stream' \in [Links -> [bytes : Bytes, eof : BOOLEAN]],
             \A g \in Readers : stream'[g] = stream[g],
             stream'["p2c"].bytes \o left = stream["p2c"].bytes \o proxy.out
      PROVE  Exact'
  <2>1. /\ proxy' \in [pc : Locations, buf : Bytes, host : Bytes, port : Bytes, path : Bytes, out : Bytes,
                       header_host : Bytes, header_other : Bytes, obj_buf : Bytes, obj_size : Nat]
        /\ proxy'.pc = pc /\ proxy'.out = left /\ proxy'.obj_size = proxy.obj_size /\ proxy'.obj_buf = proxy.obj_buf
    BY <1>4, <1>5
  <2>2. /\ stream'["c2p"] = stream["c2p"] /\ stream'["p2s"] = stream["p2s"] /\ stream'["s2p"] = stream["s2p"]
        /\ Coming("c2p")' = Coming("c2p") /\ Coming("p2s")' = Coming("p2s") /\ Coming("s2p")' = Coming("s2p")
    BY <1>2, <1>5 DEF Readers, Coming
  <2>3. received' = received /\ toServer' = toServer
    BY <1>2, <1>5, <2>1 DEF Sending, received, toClient, toServer
  <2>4. Typed'
    BY <1>1, <1>2, <1>5, <2>1 DEF Typed
  <2>5. RequestRead'
    BY <1>5, <2>1 DEF RequestRead
  <2>6. RequestSent'
    BY <1>1, <1>2, <1>3, <1>4, <1>5, <2>1, <2>2, <2>3 DEF RequestSent
  <2>7. AnswerRelayed'
    BY <1>1, <1>2, <1>3, <1>5, <2>1, <2>2, <2>3 DEF Sending, AnswerRelayed
  <2>8. AnswerCached'
    BY <1>1, <1>2, <1>3, <1>5, <2>1, <2>3 DEF AnswerCached
  <2> QED
    BY <2>4, <2>5, <2>6, <2>7, <2>8 DEF Exact
<1>6. CASE Die("broken pipe")
  <2>1. proxy' = [proxy EXCEPT !.pc = "broken pipe"] /\ stream' = stream
    BY <1>6 DEF Die
  <2>2. proxy' = [proxy EXCEPT !.out = proxy.out, !.pc = "broken pipe"]
    BY <1>4, <2>1
  <2> QED
    BY <1>1, <1>4, <1>5, <2>1, <2>2 DEF Typed
<1>7. CASE \E done \in written(proxy.out, "p2c") :
             /\ stream' = done.stream
             /\ proxy' = [proxy EXCEPT !.out = done.out, !.pc = IF done.out = <<>> THEN "relay" ELSE @]
  <2>1. PICK done \in written(proxy.out, "p2c") :
           /\ stream' = done.stream
           /\ proxy' = [proxy EXCEPT !.out = done.out, !.pc = IF done.out = <<>> THEN "relay" ELSE @]
    BY <1>7
  <2>2. /\ stream' \in [Links -> [bytes : Bytes, eof : BOOLEAN]]
        /\ done.out \in Bytes
        /\ \E part \in Bytes : part \o done.out = proxy.out /\ stream'["p2c"].bytes = stream["p2c"].bytes \o part
        /\ \A g \in Links : stream'[g].eof = stream[g].eof /\ (g # "p2c" => stream'[g] = stream[g])
    <3>1. "p2c" \in Links
      BY DEF Links
    <3> QED
      BY <1>1, <1>4, <2>1, <3>1, WrittenAdds
  <2>3. PICK part \in Bytes : part \o done.out = proxy.out /\ stream'["p2c"].bytes = stream["p2c"].bytes \o part
    BY <2>2
  <2> DEFINE pc == IF done.out = <<>> THEN "relay" ELSE "write"
             left == done.out
             had == stream["p2c"].bytes
  <2>4. /\ proxy' = [proxy EXCEPT !.out = left, !.pc = pc] /\ pc \in {"relay", "write", "broken pipe"}
        /\ (pc = "relay" => left = <<>>) /\ left \in Bytes /\ part \o left = proxy.out /\ had \in Bytes
    BY <1>2, <2>1, <2>2, <2>3, Relaying
  <2> HIDE DEF pc, left, had
  <2>5. (had \o part) \o left = had \o (part \o left)
    BY <2>4, Assoc
  <2>6. \A g \in Readers : stream'[g] = stream[g]
    BY <2>2 DEF Readers, Links
  <2>7. stream'["p2c"].bytes \o left = stream["p2c"].bytes \o proxy.out
    BY <2>3, <2>4, <2>5 DEF had
  <2> QED
    BY <1>5, <2>2, <2>4, <2>6, <2>7
<1> QED
  BY <1>6, <1>7 DEF Write

LEMMA CloseKeeps ==
  ASSUME given \in Requests, Regular, Exact, Close
  PROVE  Exact'
<1>1. Typed /\ RequestRead /\ RequestSent /\ AnswerRelayed /\ AnswerCached
  BY DEF Exact
<1>2. /\ proxy.pc = "close" /\ tiny' = tiny /\ given' = given /\ rio' = rio /\ cached' = cached
      /\ proxy' = [proxy EXCEPT !.pc = "done"] /\ stream' = [stream EXCEPT !["p2c"].eof = TRUE]
  BY DEF Close
<1>3. Forwarded' = Forwarded /\ Answered' = Answered /\ meant' = meant /\ lines' = lines
  BY <1>2, Fixed
<1>4. /\ proxy \in [pc : Locations, buf : Bytes, host : Bytes, port : Bytes, path : Bytes, out : Bytes,
                    header_host : Bytes, header_other : Bytes, obj_buf : Bytes, obj_size : Nat]
      /\ "done" \in Locations /\ "done" \notin Early /\ "close" \notin Early
  BY <1>1 DEF Typed, Locations, Sending, Early
<1>5. /\ proxy' \in [pc : Locations, buf : Bytes, host : Bytes, port : Bytes, path : Bytes, out : Bytes,
                     header_host : Bytes, header_other : Bytes, obj_buf : Bytes, obj_size : Nat]
      /\ proxy'.pc = "done" /\ proxy'.out = proxy.out
      /\ proxy'.obj_size = proxy.obj_size /\ proxy'.obj_buf = proxy.obj_buf
  BY <1>2, <1>4
<1>6. /\ stream' \in [Links -> [bytes : Bytes, eof : BOOLEAN]]
      /\ stream'["c2p"] = stream["c2p"] /\ stream'["p2s"] = stream["p2s"] /\ stream'["s2p"] = stream["s2p"]
      /\ stream'["p2c"].bytes = stream["p2c"].bytes
  BY <1>1, <1>2 DEF Typed, Links
<1>7. Coming("c2p")' = Coming("c2p") /\ Coming("p2s")' = Coming("p2s") /\ Coming("s2p")' = Coming("s2p")
  BY <1>2, <1>6 DEF Coming
<1>8. received' = received /\ toServer' = toServer
  BY <1>2, <1>5, <1>6 DEF Sending, received, toClient, toServer
<1>9. Typed'
  BY <1>1, <1>2, <1>5, <1>6 DEF Typed
<1>10. RequestRead'
  BY <1>5 DEF RequestRead
<1>11. RequestSent'
  BY <1>1, <1>2, <1>3, <1>4, <1>5, <1>6, <1>7, <1>8 DEF RequestSent
<1>12. AnswerRelayed'
  BY <1>1, <1>2, <1>3, <1>5, <1>6, <1>7, <1>8 DEF Sending, AnswerRelayed
<1>13. AnswerCached'
  BY <1>1, <1>2, <1>3, <1>5, <1>8 DEF AnswerCached
<1> QED
  BY <1>9, <1>10, <1>11, <1>12, <1>13 DEF Exact

-----------------------------------------------------------------------------
(* The server's steps.                                                     *)

(* They leave what the worker holds alone.                                 *)
LEMMA ServerKeeps ==
  ASSUME given \in Requests, Regular, Exact,
         proxy' = proxy, given' = given, cached' = cached, stream'["p2c"] = stream["p2c"],
         Coming("c2p")' = Coming("c2p")
  PROVE  /\ RequestRead' /\ AnswerCached' /\ received' = received /\ toServer' = toServer
         /\ Forwarded' = Forwarded /\ Answered' = Answered /\ meant' = meant
<1>1. RequestRead /\ AnswerCached
  BY DEF Exact
<1>2. Forwarded' = Forwarded /\ Answered' = Answered /\ meant' = meant /\ lines' = lines
  BY Fixed
<1>3. received' = received /\ toServer' = toServer
  BY DEF Sending, received, toClient, toServer
<1>4. \A n : HasRead(n)' <=> HasRead(n)
  BY <1>2 DEF HasRead
<1>5. RequestRead'
  BY <1>1, <1>2, <1>4 DEF RequestRead
<1>6. AnswerCached'
  BY <1>1, <1>2, <1>3 DEF AnswerCached
<1> QED
  BY <1>2, <1>3, <1>5, <1>6

(* The first line the server returns is that of the request.               *)
LEMMA ServerRequestKeeps ==
  ASSUME given \in Requests, Regular, Exact, ServerRequest
  PROVE  Exact'
<1>1. Typed /\ RequestRead /\ RequestSent /\ AnswerRelayed /\ AnswerCached
  BY DEF Exact
<1>2. /\ tiny.pc = "request" /\ HasLine("p2s") /\ NextLine("p2s") /\ stream' = stream /\ proxy' = proxy
      /\ given' = given /\ cached' = cached
  BY DEF ServerRequest
<1> DEFINE l == line("p2s")
           after_ == rio["p2s"].buf \o stream["p2s"].bytes
           rest_ == after_ \o toServer
<1>3. /\ "p2s" \in Readers /\ l \in Partial /\ after_ \in Bytes /\ Coming("p2s") = l \o after_ /\ l \in Bytes
  BY <1>1, ComingTyped DEF Readers, line
<1>4. complete(l)
  <2>1. ~stream["p2s"].eof
    BY <1>1 DEF RequestSent
  <2> QED
    BY <1>2, <2>1 DEF HasLine, returns, line
<1>5. toServer \in Bytes /\ l # <<>>
  <2>1. proxy.out \in Bytes
    BY Relaying
  <2>2. ~complete(<<>>)
    BY Empties, RioAssumption DEF complete
  <2> QED
    BY <1>4, <2>1, <2>2, Empties DEF toServer, Sending
<1>6. /\ rio' \in [Readers -> [line : Partial, buf : Bytes]]
      /\ Coming("c2p")' = Coming("c2p") /\ Coming("s2p")' = Coming("s2p")
  BY <1>1, <1>2, <1>3, NextConserves DEF Readers
<1> HIDE DEF l, after_
<1>7. rest_ \in Bytes
  BY <1>3, <1>5, Concat
<1>8. l \o rest_ = IF proxy.pc \in Early THEN <<>> ELSE Forwarded
  <2>1. (l \o after_) \o toServer = IF proxy.pc \in Early THEN <<>> ELSE Forwarded
    BY <1>1, <1>2, <1>3 DEF RequestSent
  <2>2. (l \o after_) \o toServer = l \o (after_ \o toServer)
    BY <1>3, <1>5, Assoc
  <2> QED
    BY <2>1, <2>2
<1> HIDE DEF rest_
<1>9. proxy.pc \notin Early
  <2>1. l \o rest_ = <<>> => l = <<>>
    BY <1>3, <1>7, Empties
  <2> QED
    BY <1>5, <1>8, <2>1
<1>10. l = RequestLine
  <2>1. PICK more \in Bytes : Forwarded = RequestLine \o more
    BY ForwardedBegins
  <2>2. RequestLine \in Bytes /\ IsLine(RequestLine) /\ Len(RequestLine) < MAXLINE
    BY ForwardedBegins
  <2>3. l \o rest_ = RequestLine \o more
    BY <1>8, <1>9, <2>1
  <2> QED
    BY <1>3, <1>4, <1>7, <2>2, <2>3, FirstLine
<1>11. tiny' = [tiny EXCEPT !.pc = "headers", !.path = meant.path] /\ meant.path \in Bytes
  <2>1. RequestLine[1] = "GET" /\ uri(RequestLine) = meant.path /\ RequestLine # <<>>
    BY ForwardedBegins
  <2>2. tiny' = CASE l = <<>> -> [tiny EXCEPT !.pc = "close"]
                  [] l # <<>> /\ l[1] # "GET" -> [tiny EXCEPT !.pc = "answer", !.out = clienterror("501")]
                  [] OTHER -> [tiny EXCEPT !.pc = "headers", !.path = uri(l)]
    BY DEF ServerRequest, l
  <2>3. tiny' = [tiny EXCEPT !.pc = "headers", !.path = uri(l)]
    BY <1>10, <2>1, <2>2
  <2>4. meant.path \in Bytes
    BY Meant
  <2> QED
    BY <1>10, <2>1, <2>3, <2>4
<1>12. /\ tiny' \in [pc : {"request", "headers", "answer", "done"}, path : Bytes, out : Seq(Bytes)]
       /\ tiny'.pc = "headers" /\ tiny'.path = meant.path /\ tiny'.out = tiny.out
  BY <1>1, <1>11 DEF Typed
<1>13. /\ RequestRead' /\ AnswerCached' /\ received' = received /\ toServer' = toServer
       /\ Forwarded' = Forwarded /\ Answered' = Answered /\ meant' = meant
  BY <1>2, <1>6, ServerKeeps
<1>14. Typed'
  BY <1>1, <1>2, <1>6, <1>12 DEF Typed
<1>15. RequestSent'
  BY <1>1, <1>2, <1>9, <1>12, <1>13 DEF RequestSent
<1>16. AnswerRelayed'
  BY <1>1, <1>2, <1>6, <1>12, <1>13 DEF Sending, AnswerRelayed
<1> QED
  BY <1>13, <1>14, <1>15, <1>16 DEF Exact

(* The answer is what the path means.                                      *)
LEMMA ServerHeaderKeeps ==
  ASSUME given \in Requests, Regular, Exact, ServerHeader
  PROVE  Exact'
<1>1. Typed /\ RequestRead /\ RequestSent /\ AnswerRelayed /\ AnswerCached
  BY DEF Exact
<1>2. /\ tiny.pc = "headers" /\ NextLine("p2s") /\ stream' = stream /\ proxy' = proxy
      /\ given' = given /\ cached' = cached
      /\ tiny' = IF line("p2s") = Empty THEN [tiny EXCEPT !.pc = "answer", !.out = answer(tiny.path)] ELSE tiny
  BY DEF ServerHeader
<1>3. /\ rio' \in [Readers -> [line : Partial, buf : Bytes]]
      /\ Coming("c2p")' = Coming("c2p") /\ Coming("s2p")' = Coming("s2p")
  BY <1>1, <1>2, NextConserves DEF Readers
<1>4. /\ RequestRead' /\ AnswerCached' /\ received' = received /\ toServer' = toServer
      /\ Forwarded' = Forwarded /\ Answered' = Answered /\ meant' = meant
  BY <1>2, <1>3, ServerKeeps
<1>5. proxy.pc \notin Early /\ tiny.path = meant.path /\ ~stream["s2p"].eof
  BY <1>1, <1>2 DEF RequestSent, AnswerRelayed
<1>6. CASE line("p2s") # Empty
  <2>1. tiny' = tiny
    BY <1>2, <1>6
  <2>2. Typed'
    BY <1>1, <1>2, <1>3, <2>1 DEF Typed
  <2>3. RequestSent'
    BY <1>1, <1>2, <1>4, <1>5, <2>1 DEF RequestSent
  <2>4. AnswerRelayed'
    BY <1>1, <1>2, <1>3, <1>4, <2>1 DEF Sending, AnswerRelayed
  <2> QED
    BY <1>4, <2>2, <2>3, <2>4 DEF Exact
<1>7. CASE line("p2s") = Empty
  <2> DEFINE text == answer(meant.path)
  <2>1. text \in Seq(Bytes) /\ FlattenSeq(text) = Answered
    <3>1. meant.path \in Bytes
      BY Meant
    <3>2. answer(meant.path) \in Seq(Bytes)
      BY <3>1, AnswerTyped
    <3> QED
      BY <3>2 DEF Answered, meant
  <2>2. tiny' = [tiny EXCEPT !.pc = "answer", !.out = text]
    BY <1>2, <1>5, <1>7
  <2> HIDE DEF text
  <2>3. /\ tiny' \in [pc : {"request", "headers", "answer", "done"}, path : Bytes, out : Seq(Bytes)]
        /\ tiny'.pc = "answer" /\ tiny'.out = text
    BY <1>1, <2>1, <2>2 DEF Typed
  <2>4. received = <<>> /\ Coming("s2p") = <<>> /\ Answered \in Bytes
    <3>1. received \o (Coming("s2p") \o FlattenSeq(tiny.out)) = <<>>
      BY <1>1, <1>2 DEF Sending, AnswerRelayed
    <3>2. received \in Bytes /\ Coming("s2p") \in Bytes /\ FlattenSeq(tiny.out) \in Bytes
          /\ Coming("s2p") \o FlattenSeq(tiny.out) \in Bytes /\ Answered \in Bytes
      BY Relaying
    <3>3. received = <<>> /\ Coming("s2p") \o FlattenSeq(tiny.out) = <<>>
      BY <3>1, <3>2, Empties
    <3> QED
      BY <3>2, <3>3, Empties
  <2>5. <<>> \o (<<>> \o Answered) = Answered
    BY <2>4, Empties
  <2>6. Typed'
    BY <1>1, <1>2, <1>3, <2>3 DEF Typed
  <2>7. RequestSent'
    BY <1>1, <1>2, <1>4, <1>5, <2>3 DEF RequestSent
  <2>8. AnswerRelayed'
    BY <1>1, <1>2, <1>3, <1>4, <1>5, <2>1, <2>3, <2>4, <2>5 DEF Sending, AnswerRelayed
  <2> QED
    BY <1>4, <2>6, <2>7, <2>8 DEF Exact
<1> QED
  BY <1>6, <1>7

LEMMA AnswerKeeps ==
  ASSUME given \in Requests, Regular, Exact, Answer
  PROVE  Exact'
<1>1. Typed /\ RequestRead /\ RequestSent /\ AnswerRelayed /\ AnswerCached
  BY DEF Exact
<1> DEFINE h == Head(tiny.out)
           tl == Tail(tiny.out)
<1>2. /\ tiny.pc = "answer" /\ tiny.out # <<>> /\ rio' = rio /\ proxy' = proxy /\ given' = given /\ cached' = cached
      /\ stream' = [stream EXCEPT !["s2p"].bytes = @ \o h] /\ tiny' = [tiny EXCEPT !.out = tl]
  BY DEF Answer
<1>3. tiny.out \in Seq(Bytes) /\ received \in Bytes /\ Coming("s2p") \in Bytes
  BY Relaying
<1>4. /\ h \in Bytes /\ tl \in Seq(Bytes) /\ FlattenSeq(tiny.out) = h \o FlattenSeq(tl) /\ FlattenSeq(tl) \in Bytes
  BY <1>2, <1>3, FlattenHead
<1> HIDE DEF h, tl
<1>5. /\ stream = [g \in Links |-> stream[g]] /\ \A g \in Links : stream[g] \in [bytes : Bytes, eof : BOOLEAN]
      /\ "s2p" \in Links
  BY <1>1 DEF Typed, Links
<1> DEFINE new == [stream["s2p"] EXCEPT !.bytes = stream["s2p"].bytes \o h]
<1>6. stream["s2p"].bytes \o h \in Bytes
  BY <1>4, <1>5, Concat
<1>7. new \in [bytes : Bytes, eof : BOOLEAN] /\ new.bytes = stream["s2p"].bytes \o h /\ new.eof = stream["s2p"].eof
  BY <1>5, <1>6
<1>8. stream' = [stream EXCEPT !["s2p"] = new]
  BY <1>2
<1> HIDE DEF new
<1>9. /\ stream' \in [Links -> [bytes : Bytes, eof : BOOLEAN]] /\ stream'["s2p"] = new
      /\ stream'["c2p"] = stream["c2p"] /\ stream'["p2s"] = stream["p2s"] /\ stream'["p2c"] = stream["p2c"]
  BY <1>5, <1>7, <1>8 DEF Links
<1>10. Coming("c2p")' = Coming("c2p") /\ Coming("p2s")' = Coming("p2s")
  BY <1>2, <1>9 DEF Coming
<1>11. Coming("s2p")' = Coming("s2p") \o h
  <2>1. rio["s2p"].line \in Bytes /\ rio["s2p"].buf \in Bytes /\ stream["s2p"].bytes \in Bytes
    BY <1>1, ComingTyped DEF Readers
  <2> DEFINE held == rio["s2p"].line \o rio["s2p"].buf
             come == stream["s2p"].bytes
  <2>2. held \in Bytes /\ come \in Bytes
    BY <2>1, Concat
  <2>3. Coming("s2p")' = held \o (come \o h) /\ Coming("s2p") = held \o come
    BY <1>2, <1>7, <1>9 DEF Coming
  <2> HIDE DEF held, come
  <2>4. (held \o come) \o h = held \o (come \o h)
    BY <1>4, <2>2, Assoc
  <2> QED
    BY <2>3, <2>4
<1>12. Coming("s2p")' \o FlattenSeq(tl) = Coming("s2p") \o FlattenSeq(tiny.out)
  <2> DEFINE come == Coming("s2p")
             flat == FlattenSeq(tl)
  <2>1. come \in Bytes /\ flat \in Bytes
    BY <1>3, <1>4
  <2> HIDE DEF come, flat
  <2>2. (come \o h) \o flat = come \o (h \o flat)
    BY <1>4, <2>1, Assoc
  <2> QED
    BY <1>4, <1>11, <2>2 DEF come, flat
<1>13. /\ tiny' \in [pc : {"request", "headers", "answer", "done"}, path : Bytes, out : Seq(Bytes)]
       /\ tiny'.pc = "answer" /\ tiny'.out = tl
  BY <1>1, <1>2, <1>4 DEF Typed
<1>14. /\ RequestRead' /\ AnswerCached' /\ received' = received /\ toServer' = toServer
       /\ Forwarded' = Forwarded /\ Answered' = Answered /\ meant' = meant
  BY <1>2, <1>9, <1>10, ServerKeeps
<1>15. Typed'
  BY <1>1, <1>2, <1>9, <1>13 DEF Typed
<1>16. RequestSent'
  BY <1>1, <1>2, <1>9, <1>13, <1>14 DEF RequestSent
<1>17. AnswerRelayed'
  BY <1>1, <1>2, <1>7, <1>9, <1>12, <1>13, <1>14 DEF Sending, AnswerRelayed
<1> QED
  BY <1>14, <1>15, <1>16, <1>17 DEF Exact

LEMMA ServerCloseKeeps ==
  ASSUME given \in Requests, Regular, Exact, ServerClose
  PROVE  Exact'
<1>1. Typed /\ RequestRead /\ RequestSent /\ AnswerRelayed /\ AnswerCached
  BY DEF Exact
<1>2. /\ tiny.pc = "answer" /\ tiny.out = <<>> /\ rio' = rio /\ proxy' = proxy /\ given' = given /\ cached' = cached
      /\ stream' = [stream EXCEPT !["s2p"].eof = TRUE] /\ tiny' = [tiny EXCEPT !.pc = "done"]
  BY <1>1 DEF ServerClose, Typed
<1>3. /\ stream' \in [Links -> [bytes : Bytes, eof : BOOLEAN]] /\ stream'["s2p"].bytes = stream["s2p"].bytes
      /\ stream'["c2p"] = stream["c2p"] /\ stream'["p2s"] = stream["p2s"] /\ stream'["p2c"] = stream["p2c"]
  BY <1>1, <1>2 DEF Typed, Links
<1>4. Coming("c2p")' = Coming("c2p") /\ Coming("p2s")' = Coming("p2s") /\ Coming("s2p")' = Coming("s2p")
  BY <1>2, <1>3 DEF Coming
<1>5. /\ tiny' \in [pc : {"request", "headers", "answer", "done"}, path : Bytes, out : Seq(Bytes)]
      /\ tiny'.pc = "done" /\ tiny'.out = tiny.out
  BY <1>1, <1>2 DEF Typed
<1>6. /\ RequestRead' /\ AnswerCached' /\ received' = received /\ toServer' = toServer
      /\ Forwarded' = Forwarded /\ Answered' = Answered /\ meant' = meant
  BY <1>2, <1>3, <1>4, ServerKeeps
<1>7. Typed'
  BY <1>1, <1>2, <1>3, <1>5 DEF Typed
<1>8. RequestSent'
  BY <1>1, <1>2, <1>3, <1>5, <1>6 DEF RequestSent
<1>9. AnswerRelayed'
  BY <1>1, <1>2, <1>4, <1>5, <1>6 DEF Sending, AnswerRelayed
<1> QED
  BY <1>6, <1>7, <1>8, <1>9 DEF Exact


-----------------------------------------------------------------------------
(* The invariant is kept by every step and is as strong as the property.   *)

LEMMA InitInv == Init => Inv
<1> SUFFICES ASSUME Init PROVE Inv
  OBVIOUS
<1>1. given \in Requests
  BY DEF Init
<1> QED
  BY <1>1, InitExact DEF Inv

LEMMA NextInv == Inv /\ [Next]_vars => Inv'
<1> SUFFICES ASSUME Inv, [Next]_vars PROVE Inv'
  OBVIOUS
<1>1. given \in Requests
  BY DEF Inv
<1>2. given' = given
  BY DEF Next, ProxyStep, ProxyLocal, TinyStep, Read, Request, Header, Connect, Send, Relay, Write, Close,
         ServerRequest, ServerHeader, Answer, ServerClose, vars
<1>3. Regular' = Regular
  BY <1>2, Fixed
<1>4. SUFFICES ASSUME Regular PROVE Exact'
  BY <1>1, <1>2, <1>3 DEF Inv
<1>5. Exact
  BY <1>4 DEF Inv
<1>6. CASE \E e \in Readers : Read(e)
  BY <1>1, <1>4, <1>5, <1>6, ReadKeeps
<1>7. CASE Request
  BY <1>1, <1>4, <1>5, <1>7, RequestKeeps
<1>8. CASE Header
  BY <1>1, <1>4, <1>5, <1>8, HeaderKeeps
<1>9. CASE Connect
  BY <1>1, <1>4, <1>5, <1>9, ConnectKeeps
<1>10. CASE Send
  BY <1>1, <1>4, <1>5, <1>10, SendKeeps
<1>11. CASE Relay
  BY <1>1, <1>4, <1>5, <1>11, RelayKeeps
<1>12. CASE Write
  BY <1>1, <1>4, <1>5, <1>12, WriteKeeps
<1>13. CASE Close
  BY <1>1, <1>4, <1>5, <1>13, CloseKeeps
<1>14. CASE ServerRequest
  BY <1>1, <1>4, <1>5, <1>14, ServerRequestKeeps
<1>15. CASE ServerHeader
  BY <1>1, <1>4, <1>5, <1>15, ServerHeaderKeeps
<1>16. CASE Answer
  BY <1>1, <1>4, <1>5, <1>16, AnswerKeeps
<1>17. CASE ServerClose
  BY <1>1, <1>4, <1>5, <1>17, ServerCloseKeeps
<1>18. CASE UNCHANGED vars
  <2>1. stream' = stream /\ rio' = rio /\ proxy' = proxy /\ tiny' = tiny /\ given' = given /\ cached' = cached
    BY <1>18 DEF vars
  <2>2. Forwarded' = Forwarded /\ Answered' = Answered /\ meant' = meant /\ lines' = lines
    BY <2>1, Fixed
  <2>3. Coming("c2p")' = Coming("c2p") /\ Coming("p2s")' = Coming("p2s") /\ Coming("s2p")' = Coming("s2p")
    BY <2>1 DEF Coming
  <2>4. /\ RequestRead' /\ AnswerCached' /\ received' = received /\ toServer' = toServer
    BY <1>1, <1>4, <1>5, <2>1, <2>3, ServerKeeps
  <2>5. Typed'
    BY <1>5, <2>1 DEF Exact, Typed
  <2>6. RequestSent'
    BY <1>5, <2>1, <2>2, <2>3, <2>4 DEF Exact, RequestSent
  <2>7. AnswerRelayed'
    BY <1>5, <2>1, <2>2, <2>3, <2>4 DEF Exact, AnswerRelayed
  <2> QED
    BY <2>4, <2>5, <2>6, <2>7 DEF Exact
<1> QED
  BY <1>6, <1>7, <1>8, <1>9, <1>10, <1>11, <1>12, <1>13, <1>14, <1>15, <1>16, <1>17, <1>18
     DEF Next, ProxyStep, ProxyLocal, TinyStep, Readers

LEMMA InvExact == Inv => ExchangeExact
<1> SUFFICES ASSUME Inv, Regular
             PROVE  /\ proxy.pc = "send" => /\ IsSuffix(proxy.out, Forwarded)
                                            /\ tiny.pc = "request" => Coming("p2s") \o proxy.out = Forwarded
                                            /\ proxy.host = meant.host /\ proxy.port = meant.port
                    /\ IsPrefix(stream["p2c"].bytes, Answered)
                    /\ proxy.pc = "done" =>
                          /\ stream["p2c"].bytes = Answered
                          /\ ~Contains(Answered, "NUL") =>
                                cached = IF Len(Answered) < MAX_OBJECT_SIZE
                                         THEN [object |-> Answered, size |-> Len(Answered)]
                                         ELSE [object |-> none, size |-> 0]
  BY Zenon DEF ExchangeExact, meant
<1>1. /\ given \in Requests /\ Exact
      /\ Typed /\ RequestRead /\ RequestSent /\ AnswerRelayed /\ AnswerCached
  BY DEF Inv, Exact
<1> DEFINE had == stream["p2c"].bytes
           come == Coming("s2p") \o FlattenSeq(tiny.out)
<1>2. /\ had \in Bytes /\ proxy.out \in Bytes /\ received \in Bytes /\ come \in Bytes /\ Answered \in Bytes
      /\ received = had \o toClient
  BY <1>1, Relaying DEF received
<1>3. toClient \in Bytes
  BY <1>2, Empties DEF Sending, toClient
<1>4. received \o come = IF tiny.pc \in {"request", "headers"} THEN <<>> ELSE Answered
  BY <1>1 DEF Sending, AnswerRelayed
<1> HIDE DEF had, come
<1>5. ASSUME proxy.pc = "send"
      PROVE  /\ IsSuffix(proxy.out, Forwarded)
             /\ tiny.pc = "request" => Coming("p2s") \o proxy.out = Forwarded
             /\ proxy.host = meant.host /\ proxy.port = meant.port
  <2>1. PICK sent \in Bytes : sent \o proxy.out = Forwarded
    BY <1>1, <1>5 DEF RequestSent
  <2>2. IsSuffix(proxy.out, sent \o proxy.out)
    BY <1>2, Suffix
  <2>3. tiny.pc = "request" => Coming("p2s") \o proxy.out = Forwarded
    BY <1>1, <1>5 DEF RequestSent, toServer, Early, Sending
  <2>4. proxy.host = meant.host /\ proxy.port = meant.port
    BY <1>1, <1>5 DEF RequestRead
  <2> QED
    BY <2>1, <2>2, <2>3, <2>4
<1>6. IsPrefix(had, Answered)
  <2>1. CASE received \o come = <<>>
    <3>1. received = <<>>
      BY <1>2, <2>1, Empties
    <3>2. had = <<>>
      BY <1>2, <1>3, <3>1, Empties
    <3>3. IsPrefix(<<>>, <<>> \o Answered) /\ <<>> \o Answered = Answered
      <4>1. <<>> \in Bytes /\ <<>> \o Answered = Answered
        BY <1>2, Empties
      <4>2. IsPrefix(<<>>, <<>> \o Answered)
        BY <1>2, <4>1, Prefix
      <4> QED
        BY <4>1, <4>2
    <3> QED
      BY <3>2, <3>3
  <2>2. CASE received \o come = Answered
    <3> DEFINE more == toClient \o come
    <3>1. more \in Bytes
      BY <1>2, <1>3, Concat
    <3>2. (had \o toClient) \o come = had \o more
      BY <1>2, <1>3, Assoc
    <3> HIDE DEF more
    <3>3. IsPrefix(had, had \o more)
      BY <1>2, <3>1, Prefix
    <3> QED
      BY <1>2, <2>2, <3>2, <3>3
  <2> QED
    BY <1>4, <2>1, <2>2
<1>7. ASSUME proxy.pc = "done"
      PROVE  /\ had = Answered
             /\ ~Contains(Answered, "NUL") =>
                   cached = IF Len(Answered) < MAX_OBJECT_SIZE THEN [object |-> Answered, size |-> Len(Answered)]
                            ELSE [object |-> none, size |-> 0]
  <2>1. received = Answered /\ proxy.out = <<>>
    BY <1>1, <1>7 DEF Sending, AnswerRelayed
  <2>2. toClient = <<>> /\ had \o <<>> = had
    BY <1>2, <1>7, <2>1, Empties DEF Sending, toClient
  <2>3. /\ proxy.obj_size = Len(Answered)
        /\ proxy.obj_size < MAX_OBJECT_SIZE /\ ~Contains(Answered, "NUL") => proxy.obj_buf = Answered
        /\ cached = IF proxy.obj_size < MAX_OBJECT_SIZE
                    THEN [object |-> proxy.obj_buf, size |-> proxy.obj_size] ELSE [object |-> none, size |-> 0]
    BY <1>1, <1>7, <2>1 DEF AnswerCached
  <2> QED
    BY <1>2, <2>1, <2>2, <2>3
<1> QED
  BY <1>5, <1>6, <1>7 DEF had

(* However reads and writes cut what is sent, the server the uri names     *)
(* gets the client's request with the proxy's headers, the client gets the *)
(* server's answer from its first byte on and all of it when the worker    *)
(* closes, and the cache gets it when it is small enough and has no byte   *)
(* 0, for a regular request (doit, parse_uri and parse_header of proxy.c,  *)
(* doit of tiny.c, and the Rio package).                                   *)
THEOREM HttpExact == Spec => []ExchangeExact
<1>1. Inv => ExchangeExact
  BY InvExact
<1> QED
  BY <1>1, InitInv, NextInv, PTL DEF Spec
=============================================================================
