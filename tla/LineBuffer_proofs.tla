-------------------------- MODULE LineBuffer_proofs --------------------------
(***************************************************************************)
(* Proofs about LineBuffer: however the input is cut, and for every size   *)
(* of the buffer, the parser is handed the lines of the input.             *)
(*                                                                         *)
(* The lines of a buffer and of a text are functions defined by recursion. *)
(* That they satisfy their definitions, and what follows for every buffer  *)
(* and text, is proved by induction: a set without a first element is      *)
(* empty.                                                                  *)
(***************************************************************************)
EXTENDS LineBuffer, SequenceTheorems, WellFoundedInduction, TLAPS

-----------------------------------------------------------------------------
(***************************************************************************)
(* Induction.                                                              *)
(***************************************************************************)
\* A set of naturals has a first element.
LEMMA FirstIn ==
  ASSUME NEW S \in SUBSET Nat, S # {}
  PROVE  First(S) \in S /\ \A y \in S : First(S) <= y
<1> DEFINE R == {r \in Nat \X Nat : r[1] < r[2]}
<1>1. OpToRel(<, Nat) = R
  BY DEF OpToRel
<1>2. IsWellFoundedOn(R, Nat)
  BY <1>1, NatLessThanWellFounded
<1>3. \A x, y \in Nat : y < x => <<y, x>> \in R
  OBVIOUS
<1> HIDE DEF R
<1>4. \E x \in S : \A y \in S : ~(<<y, x>> \in R)
  BY <1>2, WFMin
<1>5. PICK x \in S : \A y \in S : ~(<<y, x>> \in R)
  BY <1>4
<1>6. \A y \in S : ~(y < x)
  BY <1>3, <1>5
<1>7. \A y \in S : x <= y
  BY <1>6
<1> QED BY <1>7 DEF First

\* What 0 is in and each successor, every natural is in.
LEMMA Inductive ==
  ASSUME NEW S \in SUBSET Nat, 0 \in S, \A n \in S : n + 1 \in S
  PROVE  S = Nat
<1> SUFFICES ASSUME Nat \ S # {} PROVE FALSE
  OBVIOUS
<1> DEFINE R == Nat \ S
           n == First(R)
<1>1. n \in R /\ \A y \in R : n <= y
  BY FirstIn
<1> HIDE DEF n
<1>2. n # 0 /\ n - 1 \in Nat
  BY <1>1
<1>3. n - 1 \in S
  BY <1>1, <1>2
<1>4. n - 1 + 1 \in S
  BY <1>3
<1> QED BY <1>1, <1>4

\* What is appended to a sequence comes off again.
LEMMA AppendedIs ==
  ASSUME NEW C, NEW t \in Seq(C), NEW c \in C
  PROVE  /\ Append(t, c) \in Seq(C) /\ Append(t, c) # <<>>
         /\ Front(Append(t, c)) = t /\ Last(Append(t, c)) = c
<1> DEFINE a == Append(t, c)
<1>1. /\ Len(t) \in Nat
      /\ a \in Seq(C) /\ a # <<>> /\ Len(a) = Len(t) + 1
      /\ \A i \in 1 .. Len(t) : a[i] = t[i]
      /\ a[Len(t) + 1] = c
  BY LenProperties, AppendProperties
<1> HIDE DEF a
<1>2. Last(a) = c
  BY <1>1 DEF Last
<1>3. Front(a) = SubSeq(a, 1, Len(t))
  BY <1>1 DEF Front
<1>4. \A i \in 1 .. Len(t) : a[i] \in C
  BY <1>1
<1>5. /\ Front(a) \in Seq(C) /\ Len(Front(a)) = IF 1 <= Len(t) THEN Len(t) - 1 + 1 ELSE 0
      /\ \A i \in 1 .. Len(t) - 1 + 1 : Front(a)[i] = a[1 + i - 1]
  BY <1>1, <1>3, <1>4, SubSeqProperties
<1>6. Len(Front(a)) = Len(t)
  BY <1>1, <1>5
<1>7. \A i \in 1 .. Len(t) : i \in 1 .. Len(t) - 1 + 1 /\ 1 + i - 1 = i
  BY <1>1
<1>8. \A i \in 1 .. Len(t) : Front(a)[i] = t[i]
  BY <1>1, <1>5, <1>7
<1>9. Front(a) = t
  BY <1>5, <1>6, <1>8, SeqEqual
<1> QED BY <1>1, <1>2, <1>9 DEF a

\* What the empty sequence is in, and with a sequence those one longer, every
\* sequence is in.
LEMMA SeqInductive ==
  ASSUME NEW C, NEW S \in SUBSET Seq(C), <<>> \in S,
         \A t \in S, c \in C : Append(t, c) \in S
  PROVE  S = Seq(C)
<1> DEFINE N == {n \in Nat : \A t \in Seq(C) : Len(t) = n => t \in S}
<1>1. 0 \in N
  BY EmptySeq
<1>2. ASSUME NEW n \in N PROVE n + 1 \in N
  <2> SUFFICES ASSUME NEW t \in Seq(C), Len(t) = n + 1 PROVE t \in S
    OBVIOUS
  <2>1. t # <<>>
    BY EmptySeq
  <2>2. PICK u \in Seq(C), c \in C : t = Append(u, c)
    BY <2>1, SequenceEmptyOrAppend
  <2>3. Len(u) = n
    BY <2>2, AppendProperties, LenProperties
  <2> QED BY <1>2, <2>2, <2>3
<1>3. N = Nat
  <2> HIDE DEF N
  <2>1. N \in SUBSET Nat
    BY DEF N
  <2> QED BY <1>1, <1>2, <2>1, Inductive
<1>4. \A t \in Seq(C) : Len(t) \in N
  BY <1>3, LenProperties
<1> QED BY <1>4
-----------------------------------------------------------------------------
(***************************************************************************)
(* The buffer.                                                             *)
(***************************************************************************)
LEMMA StrlenIs ==
  ASSUME NEW b \in Buffers
  PROVE  /\ Strlen(b) \in 0 .. BUFFER_SIZE + 1
         /\ \A i \in 1 .. Strlen(b) : i \in Bytes /\ b[i] \in Chars
         /\ Strlen(b) <= BUFFER_SIZE => b[Strlen(b) + 1] = Nul
<1> DEFINE S == {i \in Bytes : b[i] = Nul} \cup {BUFFER_SIZE + 2}
           n == First(S)
<1>1. S \in SUBSET Nat /\ S # {}
  BY BufferAssumption DEF Bytes
<1>2. n \in S /\ \A y \in S : n <= y
  <2> HIDE DEF S
  <2> QED BY <1>1, FirstIn
<1>3. Strlen(b) = n - 1
  BY DEF Strlen
<1> HIDE DEF n
<1>4. n \in 1 .. BUFFER_SIZE + 2
  BY <1>2, BufferAssumption DEF Bytes
<1>5. n <= BUFFER_SIZE + 1 => b[n] = Nul
  BY <1>2, BufferAssumption DEF Bytes
<1>6. \A i \in 1 .. n - 1 : i \in Bytes /\ b[i] # Nul
  BY <1>2, <1>4, BufferAssumption DEF Bytes
<1>7. \A i \in 1 .. n - 1 : b[i] \in Chars
  BY <1>6 DEF Buffers
<1>8. n - 1 + 1 = n
  BY <1>4
<1> HIDE DEF S
<1> QED BY <1>3, <1>4, <1>5, <1>6, <1>7, <1>8, BufferAssumption

\* A string of n characters.
LEMMA StrlenEq ==
  ASSUME NEW b \in Buffers, NEW n \in 0 .. BUFFER_SIZE + 1,
         \A i \in 1 .. n : b[i] # Nul, n <= BUFFER_SIZE => b[n + 1] = Nul
  PROVE  Strlen(b) = n
<1> DEFINE m == Strlen(b)
<1>1. /\ m \in 0 .. BUFFER_SIZE + 1
      /\ \A i \in 1 .. m : b[i] \in Chars
      /\ m <= BUFFER_SIZE => b[m + 1] = Nul
  BY StrlenIs
<1>2. Nul \notin Chars
  BY BufferAssumption DEF Chars, Breaks
<1> HIDE DEF m
<1>3. ~(m < n)
  <2> SUFFICES ASSUME m < n PROVE FALSE
    OBVIOUS
  <2>1. m + 1 \in 1 .. n /\ m <= BUFFER_SIZE
    BY <1>1, BufferAssumption
  <2> QED BY <1>1, <2>1
<1>4. ~(n < m)
  <2> SUFFICES ASSUME n < m PROVE FALSE
    OBVIOUS
  <2>1. n + 1 \in 1 .. m /\ n <= BUFFER_SIZE
    BY <1>1, BufferAssumption
  <2> QED BY <1>1, <1>2, <2>1
<1> QED BY <1>1, <1>3, <1>4, BufferAssumption DEF m

LEMMA StringIs ==
  ASSUME NEW b \in Buffers
  PROVE  /\ String(b) \in Seq(Chars) /\ Len(String(b)) = Strlen(b)
         /\ \A i \in 1 .. Strlen(b) : String(b)[i] = b[i]
<1>1. Strlen(b) \in Nat /\ \A i \in 1 .. Strlen(b) : b[i] \in Chars
  BY StrlenIs, BufferAssumption
<1> QED BY <1>1 DEF String

\* No break is the Nul, and characters are not either.
LEMMA CharsAre == Nul \notin Chars /\ Breaks \subseteq Chars
BY BufferAssumption DEF Chars, Breaks

\* Where the first line of a buffer ends.
LEMMA EndsFirst ==
  ASSUME NEW b \in Buffers, Ends(b) # {}
  PROVE  LET e == First(Ends(b)) IN
         /\ e \in Nat /\ e >= 1 /\ e <= BUFFER_SIZE /\ e <= Strlen(b)
         /\ b[e] \in Breaks /\ \A i \in 1 .. e - 1 : b[i] \notin Breaks
<1> DEFINE e == First(Ends(b))
<1>1. Strlen(b) \in Nat
  BY StrlenIs, BufferAssumption
<1>2. Ends(b) \in SUBSET Nat
  BY <1>1 DEF Ends
<1>3. e \in Ends(b) /\ \A y \in Ends(b) : e <= y
  BY <1>2, FirstIn
<1> HIDE DEF e
<1>4. e \in Nat /\ e >= 1 /\ e <= BUFFER_SIZE /\ e <= Strlen(b) /\ b[e] \in Breaks
  BY <1>1, <1>3 DEF Ends
<1>5. \A i \in 1 .. e - 1 : b[i] \notin Breaks
  <2> SUFFICES ASSUME NEW i \in 1 .. e - 1, b[i] \in Breaks PROVE FALSE
    OBVIOUS
  <2>1. i \in 1 .. Strlen(b) /\ i <= BUFFER_SIZE /\ i < e
    BY <1>1, <1>4, BufferAssumption
  <2>2. i \in Ends(b)
    BY <2>1 DEF Ends
  <2> QED BY <1>3, <1>4, <2>1, <2>2
<1> QED BY <1>4, <1>5 DEF e

LEMMA TakenIs ==
  ASSUME NEW b \in Buffers, NEW e \in 1 .. Strlen(b), e <= BUFFER_SIZE, b[e] \in Breaks
  PROVE  LET p == Taken(b, e) IN
         /\ p \in Nat /\ p >= 1 /\ p <= BUFFER_SIZE /\ p <= Strlen(b)
         /\ p = e \/ (p = e + 1 /\ b[p] \in Breaks)
<1>1. Strlen(b) \in Nat
  BY StrlenIs, BufferAssumption
<1>2. CASE e < BUFFER_SIZE - 1 /\ b[e + 1] \in Breaks
  <2>1. Taken(b, e) = e + 1
    BY <1>2 DEF Taken
  <2>2. e + 1 <= Strlen(b)
    <3> SUFFICES ASSUME ~(e + 1 <= Strlen(b)) PROVE FALSE
      OBVIOUS
    <3>1. Strlen(b) = e /\ Strlen(b) <= BUFFER_SIZE
      BY <1>1
    <3>2. b[e + 1] = Nul
      BY <3>1, StrlenIs
    <3> QED BY <1>2, <3>2, CharsAre
  <2> QED BY <1>1, <1>2, <2>1, <2>2, BufferAssumption
<1>3. CASE ~(e < BUFFER_SIZE - 1 /\ b[e + 1] \in Breaks)
  <2>1. Taken(b, e) = e
    BY <1>3 DEF Taken
  <2> QED BY <1>1, <2>1, BufferAssumption
<1> QED BY <1>2, <1>3

\* The string that is left when the first pos characters are taken off.
LEMMA ShiftIs ==
  ASSUME NEW b \in Buffers, NEW p \in 1 .. Strlen(b), p <= BUFFER_SIZE
  PROVE  /\ Shift(b, p) \in Buffers
         /\ Strlen(Shift(b, p)) < Strlen(b)
         /\ Shift(b, p)[BUFFER_SIZE + 1] = b[BUFFER_SIZE + 1]
         /\ Strlen(b) <= BUFFER_SIZE =>
              /\ Strlen(Shift(b, p)) = Strlen(b) - p
              /\ \A i \in 1 .. Strlen(b) - p : Shift(b, p)[i] = b[i + p]
<1> DEFINE s == Shift(b, p)
           n == IF Strlen(b) <= BUFFER_SIZE THEN Strlen(b) - p ELSE BUFFER_SIZE - p
<1>1. /\ Strlen(b) \in 0 .. BUFFER_SIZE + 1
      /\ \A i \in 1 .. Strlen(b) : b[i] \in Chars
      /\ Strlen(b) <= BUFFER_SIZE => b[Strlen(b) + 1] = Nul
  BY StrlenIs
<1>2. BUFFER_SIZE \in Nat /\ BUFFER_SIZE >= 1
  BY BufferAssumption
<1>3. s \in [Bytes -> Chars \cup {Nul}] /\ \A i \in Bytes :
          s[i] = IF i + p <= BUFFER_SIZE THEN b[i + p]
                 ELSE IF i <= BUFFER_SIZE THEN Nul ELSE b[i]
  <2>1. \A i \in Bytes : i + p <= BUFFER_SIZE => i + p \in Bytes
    BY <1>1, <1>2 DEF Bytes
  <2> QED BY <2>1 DEF Shift, Buffers
<1> HIDE DEF s
<1>4. n \in 0 .. BUFFER_SIZE + 1 /\ n + p <= BUFFER_SIZE /\ n + p <= Strlen(b) /\ n <= BUFFER_SIZE
  BY <1>1, <1>2
<1>5. n + p = IF Strlen(b) <= BUFFER_SIZE THEN Strlen(b) ELSE BUFFER_SIZE
  BY <1>1, <1>2
<1> HIDE DEF n
<1>6. \A i \in 1 .. n : /\ i \in Bytes /\ i + p <= BUFFER_SIZE
                        /\ i + p \in 1 .. Strlen(b)
  BY <1>1, <1>2, <1>4 DEF Bytes
<1>7. \A i \in 1 .. n : s[i] = b[i + p] /\ s[i] \in Chars
  BY <1>1, <1>3, <1>6
<1>8. s[n + 1] = Nul
  <2>1. n + 1 \in Bytes /\ n + 1 <= BUFFER_SIZE
    BY <1>1, <1>2, <1>4 DEF Bytes
  <2>2. CASE n + 1 + p <= BUFFER_SIZE
    <3>1. n + 1 + p = Strlen(b) + 1 /\ Strlen(b) <= BUFFER_SIZE
      BY <1>1, <1>2, <1>4, <1>5, <2>2
    <3> QED BY <1>1, <1>3, <2>1, <2>2, <3>1
  <2>3. CASE ~(n + 1 + p <= BUFFER_SIZE)
    BY <1>3, <2>1, <2>3
  <2> QED BY <2>2, <2>3
<1>9. Strlen(s) = n
  BY <1>3, <1>4, <1>7, <1>8, CharsAre, StrlenEq DEF Buffers
<1>10. s[BUFFER_SIZE + 1] = b[BUFFER_SIZE + 1]
  <2>1. BUFFER_SIZE + 1 \in Bytes /\ ~(BUFFER_SIZE + 1 + p <= BUFFER_SIZE) /\ ~(BUFFER_SIZE + 1 <= BUFFER_SIZE)
    BY <1>1, <1>2 DEF Bytes
  <2> QED BY <1>3, <2>1
<1>11. n < Strlen(b) /\ (Strlen(b) <= BUFFER_SIZE => n = Strlen(b) - p)
  BY <1>1, <1>2, <1>4, <1>5
<1> QED BY <1>3, <1>7, <1>9, <1>10, <1>11 DEF s, Buffers
-----------------------------------------------------------------------------
(***************************************************************************)
(* The recursion of getlines comes to an end: what is left is shorter.     *)
(***************************************************************************)
\* What getlines makes of b, where f is what it makes of what is left.
LinesFrom(f, b) ==
  LET e    == First(Ends(b))
      left == Shift(b, Taken(b, e))
  IN IF Ends(b) = {} THEN [lines |-> <<>>, rest |-> b, blank |-> FALSE]
     ELSE IF e = 1 THEN [lines |-> <<>>, rest |-> left, blank |-> TRUE]
     ELSE [f[left] EXCEPT !.lines = <<SubSeq(String(b), 1, e - 1)>> \o @]

\* What is left behind the first line of a buffer.
Left(b) == Shift(b, Taken(b, First(Ends(b))))

LEMMA LeftIs ==
  ASSUME NEW b \in Buffers, Ends(b) # {}
  PROVE  /\ Left(b) \in Buffers
         /\ Strlen(Left(b)) < Strlen(b)
         /\ Left(b)[BUFFER_SIZE + 1] = b[BUFFER_SIZE + 1]
<1> DEFINE e == First(Ends(b))
           p == Taken(b, e)
<1>1. e \in Nat /\ e >= 1 /\ e <= BUFFER_SIZE /\ e <= Strlen(b) /\ b[e] \in Breaks
  BY EndsFirst
<1>2. Strlen(b) \in Nat
  BY StrlenIs, BufferAssumption
<1>3. Left(b) = Shift(b, p)
  BY DEF Left
<1> HIDE DEF e
<1>4. p \in Nat /\ p >= 1 /\ p <= BUFFER_SIZE /\ p <= Strlen(b)
  BY <1>1, <1>2, TakenIs
<1> HIDE DEF p
<1> QED BY <1>2, <1>3, <1>4, ShiftIs

\* It depends on shorter strings alone.
LEMMA LinesFromLeft ==
  ASSUME NEW f, NEW g, NEW b \in Buffers,
         Ends(b) # {} => f[Left(b)] = g[Left(b)]
  PROVE  LinesFrom(f, b) = LinesFrom(g, b)
BY DEF LinesFrom, Left

LEMMA GetlinesDef == \A b \in Buffers : getlines[b] = LinesFrom(getlines, b)
<1> DEFINE Good(f, n) == \A b \in Buffers : Strlen(b) < n => f[b] = LinesFrom(f, b)
           N == {n \in Nat : \E f : Good(f, n)}
<1>1. 0 \in N
  <2>1. \A b \in Buffers : ~(Strlen(b) < 0)
    BY StrlenIs, BufferAssumption
  <2> QED BY <2>1
<1>2. ASSUME NEW n \in N PROVE n + 1 \in N
  <2>1. PICK f : Good(f, n)
    OBVIOUS
  <2> DEFINE g == [b \in Buffers |-> LinesFrom(f, b)]
  <2>2. \A b \in Buffers : g[b] = LinesFrom(f, b)
    OBVIOUS
  <2> HIDE DEF g
  <2>3. ASSUME NEW b \in Buffers, Strlen(b) < n + 1 PROVE g[b] = LinesFrom(g, b)
    <3>1. Ends(b) # {} => f[Left(b)] = g[Left(b)]
      <4> SUFFICES ASSUME Ends(b) # {} PROVE f[Left(b)] = g[Left(b)]
        OBVIOUS
      <4>1. Left(b) \in Buffers /\ Strlen(Left(b)) < Strlen(b)
        BY LeftIs
      <4>2. Strlen(Left(b)) \in Nat /\ Strlen(b) \in Nat
        BY <4>1, StrlenIs, BufferAssumption
      <4>3. Strlen(Left(b)) < n
        BY <2>3, <4>1, <4>2
      <4> QED BY <2>1, <2>2, <4>1, <4>3
    <3>2. LinesFrom(f, b) = LinesFrom(g, b)
      BY <3>1, LinesFromLeft
    <3> QED BY <2>2, <3>2
  <2>4. Good(g, n + 1)
    BY <2>3
  <2>5. n + 1 \in Nat
    OBVIOUS
  <2> QED BY <2>4, <2>5
<1>3. N = Nat
  <2> HIDE DEF N
  <2>1. N \in SUBSET Nat
    BY DEF N
  <2> QED BY <1>1, <1>2, <2>1, Inductive
<1>4. PICK f : Good(f, BUFFER_SIZE + 2)
  <2>1. BUFFER_SIZE + 2 \in N
    BY <1>3, BufferAssumption
  <2> QED BY <2>1
<1>5. \A b \in Buffers : f[b] = LinesFrom(f, b)
  <2>1. \A b \in Buffers : Strlen(b) < BUFFER_SIZE + 2
    BY StrlenIs, BufferAssumption
  <2> QED BY <1>4, <2>1
<1> HIDE DEF N, Good
<1> DEFINE g == [b \in Buffers |-> f[b]]
<1>6. \A b \in Buffers : g[b] = LinesFrom(g, b)
  <2>1. \A b \in Buffers : g[b] = f[b]
    OBVIOUS
  <2> HIDE DEF g
  <2>2. ASSUME NEW b \in Buffers PROVE g[b] = LinesFrom(g, b)
    <3>1. Ends(b) # {} => f[Left(b)] = g[Left(b)]
      BY <2>1, LeftIs
    <3>2. LinesFrom(f, b) = LinesFrom(g, b)
      BY <3>1, LinesFromLeft
    <3> QED BY <1>5, <2>1, <3>2
  <2> QED BY <2>2
<1>7. g = [b \in Buffers |-> LinesFrom(g, b)]
  <2>1. g = [b \in Buffers |-> g[b]]
    OBVIOUS
  <2> HIDE DEF g
  <2>2. [b \in Buffers |-> g[b]] = [b \in Buffers |-> LinesFrom(g, b)]
    BY <1>6
  <2> QED BY <2>1, <2>2
<1> HIDE DEF g
<1>8. \E h : h = [b \in Buffers |-> LinesFrom(h, b)]
  BY <1>7
<1>9. getlines = [b \in Buffers |-> LinesFrom(getlines, b)]
  BY <1>8, Zenon DEF getlines, LinesFrom
<1> DEFINE h == getlines
<1> HIDE DEF h
<1>10. h = [b \in Buffers |-> LinesFrom(h, b)]
  BY <1>9 DEF h
<1>11. \A b \in Buffers : h[b] = LinesFrom(h, b)
  BY <1>10
<1> QED BY <1>11 DEF h
-----------------------------------------------------------------------------
(***************************************************************************)
(* The recursion of Split: a text is one character longer than its front.  *)
(***************************************************************************)
Texts == Seq(Chars)
NoLines == [done |-> <<>>, rest |-> <<>>]
SplitFrom(f, text) ==
  IF text = <<>> THEN NoLines ELSE Read(f[Front(text)], Last(text))

\* f satisfies the definition of Split on the texts shorter than n.
Splits(f, n) == \A t \in Texts : Len(t) < n => f[t] = SplitFrom(f, t)

LEMMA SplitFromIs ==
  ASSUME NEW f
  PROVE  /\ SplitFrom(f, <<>>) = NoLines
         /\ \A t \in Texts, c \in Chars : SplitFrom(f, Append(t, c)) = Read(f[t], c)
<1>1. ASSUME NEW t \in Texts, NEW c \in Chars
      PROVE  SplitFrom(f, Append(t, c)) = Read(f[t], c)
  <2>1. Append(t, c) # <<>> /\ Front(Append(t, c)) = t /\ Last(Append(t, c)) = c
    BY AppendedIs DEF Texts
  <2> QED BY <2>1 DEF SplitFrom
<1> QED BY <1>1 DEF SplitFrom

LEMMA SplitsEqual ==
  ASSUME NEW n \in Nat, NEW f, NEW g, Splits(f, n), Splits(g, n)
  PROVE  \A t \in Texts : Len(t) < n => f[t] = g[t]
<1> DEFINE S == {t \in Texts : Len(t) < n => f[t] = g[t]}
<1>1. <<>> \in Texts /\ \A t \in Texts : Len(t) \in Nat
  BY EmptySeq, LenProperties DEF Texts
<1>2. <<>> \in S
  BY <1>1, SplitFromIs DEF Splits
<1>3. ASSUME NEW t \in S, NEW c \in Chars PROVE Append(t, c) \in S
  <2>1. Append(t, c) \in Texts /\ Len(Append(t, c)) = Len(t) + 1
    BY AppendProperties DEF Texts
  <2>2. SUFFICES ASSUME Len(Append(t, c)) < n PROVE f[Append(t, c)] = g[Append(t, c)]
    BY <2>1
  <2>3. Len(t) < n
    BY <1>1, <2>1, <2>2
  <2>4. f[t] = g[t]
    BY <2>3
  <2>5. f[Append(t, c)] = Read(f[t], c) /\ g[Append(t, c)] = Read(g[t], c)
    BY <2>1, <2>2, SplitFromIs DEF Splits
  <2> QED BY <2>4, <2>5
<1>4. S = Seq(Chars)
  <2> HIDE DEF S
  <2>1. S \in SUBSET Seq(Chars)
    BY DEF S, Texts
  <2> QED BY <1>2, <1>3, <2>1, SeqInductive
<1> QED BY <1>4 DEF Texts

LEMMA SplitsExist == \A n \in Nat : \E f : Splits(f, n)
<1> DEFINE N == {n \in Nat : \E f : Splits(f, n)}
<1>0. \A t \in Texts : Len(t) \in Nat
  BY LenProperties DEF Texts
<1>1. 0 \in N
  <2>1. \A t \in Texts : ~(Len(t) < 0)
    BY <1>0
  <2> QED BY <2>1 DEF Splits
<1>2. ASSUME NEW n \in N PROVE n + 1 \in N
  <2>1. PICK f : Splits(f, n)
    OBVIOUS
  <2> DEFINE g == [t \in Texts |-> SplitFrom(f, t)]
  <2>2. \A t \in Texts : g[t] = SplitFrom(f, t)
    OBVIOUS
  <2> HIDE DEF g
  <2>3. ASSUME NEW t \in Texts, Len(t) < n + 1 PROVE g[t] = SplitFrom(g, t)
    <3>1. CASE t = <<>>
      BY <2>2, <3>1, SplitFromIs
    <3>2. CASE t # <<>>
      <4>1. PICK u \in Seq(Chars), c \in Chars : t = Append(u, c)
        BY <3>2, SequenceEmptyOrAppend DEF Texts
      <4>2. Len(t) = Len(u) + 1 /\ u \in Texts
        BY <4>1, AppendProperties DEF Texts
      <4>3. Len(u) < n
        BY <1>0, <2>3, <4>2
      <4>4. f[u] = g[u]
        BY <2>1, <2>2, <4>2, <4>3 DEF Splits
      <4>5. SplitFrom(f, t) = Read(f[u], c) /\ SplitFrom(g, t) = Read(g[u], c)
        BY <4>1, <4>2, SplitFromIs
      <4> QED BY <2>2, <4>4, <4>5
    <3> QED BY <3>1, <3>2
  <2>4. Splits(g, n + 1)
    BY <2>3 DEF Splits
  <2>5. n + 1 \in Nat
    OBVIOUS
  <2> QED BY <2>4, <2>5
<1>3. N = Nat
  <2> HIDE DEF N
  <2>1. N \in SUBSET Nat
    BY DEF N
  <2> QED BY <1>1, <1>2, <2>1, Inductive
<1> QED BY <1>3

\* What Split makes of no text, and of a text with one more character.
LEMMA SplitDef ==
  /\ Split[<<>>] = NoLines
  /\ \A t \in Texts, c \in Chars : Split[Append(t, c)] = Read(Split[t], c)
<1> DEFINE upto(n) == CHOOSE f : Splits(f, n)
           g == [t \in Texts |-> upto(Len(t) + 1)[t]]
<1>0. \A t \in Texts : Len(t) \in Nat
  BY LenProperties DEF Texts
<1>1. \A n \in Nat : Splits(upto(n), n)
  BY SplitsExist
<1>2. \A t \in Texts : g[t] = upto(Len(t) + 1)[t]
  OBVIOUS
<1> HIDE DEF upto
<1>3. g = [t \in Texts |-> g[t]]
  OBVIOUS
<1> HIDE DEF g
<1>4. ASSUME NEW t \in Texts PROVE g[t] = SplitFrom(g, t)
  <2> DEFINE n == Len(t) + 1
             f == upto(n)
  <2>1. n \in Nat /\ Len(t) < n /\ Splits(f, n)
    BY <1>0, <1>1
  <2>2. g[t] = f[t]
    BY <1>2
  <2> HIDE DEF n, f
  <2>3. f[t] = SplitFrom(f, t)
    BY <2>1 DEF Splits
  <2>4. CASE t = <<>>
    BY <2>2, <2>3, <2>4, SplitFromIs
  <2>5. CASE t # <<>>
    <3>1. PICK u \in Seq(Chars), c \in Chars : t = Append(u, c)
      BY <2>5, SequenceEmptyOrAppend DEF Texts
    <3>2. Len(t) = Len(u) + 1 /\ u \in Texts
      BY <3>1, AppendProperties DEF Texts
    <3> DEFINE h == upto(Len(t))
    <3>3. Len(t) \in Nat /\ Splits(h, Len(t)) /\ g[u] = h[u]
      BY <1>0, <1>1, <1>2, <3>2
    <3> HIDE DEF h
    <3>4. Splits(f, Len(t))
      BY <1>0, <2>1 DEF Splits, n
    <3>5. f[u] = h[u]
      <4>1. Len(u) < Len(t)
        BY <1>0, <3>2
      <4> QED BY <3>2, <3>3, <3>4, <4>1, SplitsEqual
    <3>6. SplitFrom(f, t) = Read(f[u], c) /\ SplitFrom(g, t) = Read(g[u], c)
      BY <3>1, <3>2, SplitFromIs
    <3> QED BY <2>2, <2>3, <3>3, <3>5, <3>6
  <2> QED BY <2>4, <2>5
<1>5. [t \in Texts |-> g[t]] = [t \in Texts |-> SplitFrom(g, t)]
  BY <1>4
<1>6. g = [t \in Texts |-> SplitFrom(g, t)]
  BY <1>3, <1>5
<1>7. \E h : h = [t \in Texts |-> SplitFrom(h, t)]
  BY <1>6
<1>8. Split = [t \in Texts |-> SplitFrom(Split, t)]
  BY <1>7, Zenon DEF Split, SplitFrom, NoLines, Texts
<1> DEFINE h == Split
<1> HIDE DEF h
<1>9. h = [t \in Texts |-> SplitFrom(h, t)]
  BY <1>8 DEF h
<1>10. \A t \in Texts : h[t] = SplitFrom(h, t)
  BY <1>9
<1>11. <<>> \in Texts /\ \A t \in Texts, c \in Chars : Append(t, c) \in Texts
  BY EmptySeq, AppendProperties DEF Texts
<1>12. h[<<>>] = NoLines /\ \A t \in Texts, c \in Chars : h[Append(t, c)] = Read(h[t], c)
  BY <1>10, <1>11, SplitFromIs
<1> QED BY <1>12 DEF h
-----------------------------------------------------------------------------
(***************************************************************************)
(* What Split makes of a text.                                             *)
(***************************************************************************)
Parsed == [done : Seq(Texts), rest : Texts]
Plain(t) == \A i \in 1 .. Len(t) : t[i] \notin Breaks

\* The lines of x are the lines L and those of y, and y ends as x does.
Follows(x, L, y) ==
  Split[x].done = L \o Split[y].done /\ Split[x].rest = Split[y].rest

LEMMA TextsAre ==
  /\ <<>> \in Texts /\ <<>> \in Seq(Texts)
  /\ \A t \in Texts, c \in Chars : Append(t, c) \in Texts
  /\ \A l \in Seq(Texts), t \in Texts : Append(l, t) \in Seq(Texts)
  /\ \A s, t \in Texts : s \o t \in Texts
BY EmptySeq, AppendProperties, ConcatProperties DEF Texts

LEMMA ConcatAppend ==
  ASSUME NEW C, NEW s \in Seq(C), NEW t \in Seq(C), NEW c \in C
  PROVE  s \o Append(t, c) = Append(s \o t, c)
<1>1. <<c>> \in Seq(C)
  OBVIOUS
<1>2. Append(t, c) = t \o <<c>> /\ s \o t \in Seq(C)
  BY AppendIsConcat, ConcatProperties
<1>3. Append(s \o t, c) = (s \o t) \o <<c>>
  BY <1>2, AppendIsConcat
<1>4. (s \o t) \o <<c>> = s \o (t \o <<c>>)
  BY <1>1, ConcatAssociative
<1> QED BY <1>2, <1>3, <1>4

LEMMA ReadIs ==
  ASSUME NEW r \in Parsed, NEW c \in Chars
  PROVE  /\ Read(r, c) \in Parsed
         /\ c \notin Breaks => Read(r, c).done = r.done /\ Read(r, c).rest = Append(r.rest, c)
         /\ c \in Breaks /\ r.rest = <<>> => Read(r, c) = r
         /\ c \in Breaks /\ r.rest # <<>> =>
              Read(r, c).done = Append(r.done, r.rest) /\ Read(r, c).rest = <<>>
<1>1. r.done \in Seq(Texts) /\ r.rest \in Texts
  BY DEF Parsed
<1>2. Append(r.rest, c) \in Texts /\ Append(r.done, r.rest) \in Seq(Texts) /\ <<>> \in Texts
  BY <1>1, TextsAre
<1> QED BY <1>1, <1>2 DEF Read, Parsed

LEMMA SplitTypes == \A t \in Texts : Split[t] \in Parsed
<1> DEFINE S == {t \in Texts : Split[t] \in Parsed}
<1>1. <<>> \in S
  <2>1. NoLines \in Parsed
    BY TextsAre DEF Parsed, NoLines
  <2> QED BY <2>1, SplitDef, TextsAre
<1>2. ASSUME NEW t \in S, NEW c \in Chars PROVE Append(t, c) \in S
  BY SplitDef, TextsAre, ReadIs
<1>3. S = Seq(Chars)
  <2> HIDE DEF S
  <2>1. S \in SUBSET Seq(Chars)
    BY DEF S, Texts
  <2> QED BY <1>1, <1>2, <2>1, SeqInductive
<1> QED BY <1>3 DEF Texts

\* More text makes more lines of both.
LEMMA SplitConcat ==
  ASSUME NEW x \in Texts, NEW y \in Texts, NEW L \in Seq(Texts), Follows(x, L, y)
  PROVE  \A s \in Texts : Follows(x \o s, L, y \o s)
<1> DEFINE S == {s \in Texts : Follows(x \o s, L, y \o s)}
<1>1. <<>> \in S
  <2>1. x \o <<>> = x /\ y \o <<>> = y
    BY ConcatEmptySeq DEF Texts
  <2> QED BY <2>1, TextsAre
<1>2. ASSUME NEW s \in S, NEW c \in Chars PROVE Append(s, c) \in S
  <2> DEFINE a == Split[x \o s]
             b == Split[y \o s]
  <2>1. s \in Texts /\ a.done = L \o b.done /\ a.rest = b.rest
    BY DEF Follows
  <2>2. x \o s \in Texts /\ y \o s \in Texts /\ Append(s, c) \in Texts
    BY <2>1, TextsAre
  <2>3. x \o Append(s, c) = Append(x \o s, c) /\ y \o Append(s, c) = Append(y \o s, c)
    <3>1. x \in Seq(Chars) /\ y \in Seq(Chars) /\ s \in Seq(Chars)
      BY <2>1 DEF Texts
    <3> HIDE DEF S, a, b
    <3>2. x \o Append(s, c) = Append(x \o s, c)
      BY <3>1, ConcatAppend
    <3>3. y \o Append(s, c) = Append(y \o s, c)
      BY <3>1, ConcatAppend
    <3> QED BY <3>2, <3>3
  <2>4. Split[x \o Append(s, c)] = Read(a, c) /\ Split[y \o Append(s, c)] = Read(b, c)
    BY <2>2, <2>3, SplitDef
  <2>5. a \in Parsed /\ b \in Parsed
    BY <2>2, SplitTypes
  <2> HIDE DEF a, b, S
  <2>6. Read(a, c).done = L \o Read(b, c).done /\ Read(a, c).rest = Read(b, c).rest
    <3>1. CASE c \notin Breaks
      <4>1. Read(a, c).done = a.done /\ Read(a, c).rest = Append(a.rest, c)
        BY <2>5, <3>1, ReadIs
      <4>2. Read(b, c).done = b.done /\ Read(b, c).rest = Append(b.rest, c)
        BY <2>5, <3>1, ReadIs
      <4> QED BY <2>1, <4>1, <4>2
    <3>2. CASE c \in Breaks /\ b.rest = <<>>
      BY <2>1, <2>5, <3>2, ReadIs
    <3>3. CASE c \in Breaks /\ b.rest # <<>>
      <4>1. b.done \in Seq(Texts) /\ b.rest \in Texts
        BY <2>5 DEF Parsed
      <4>2. L \o Append(b.done, b.rest) = Append(L \o b.done, b.rest)
        BY <4>1, ConcatAppend
      <4>3. Read(a, c).done = Append(L \o b.done, b.rest) /\ Read(a, c).rest = <<>>
        BY <2>1, <2>5, <3>3, ReadIs
      <4>4. Read(b, c).done = Append(b.done, b.rest) /\ Read(b, c).rest = <<>>
        BY <2>5, <3>3, ReadIs
      <4> QED BY <4>2, <4>3, <4>4
    <3> QED BY <3>1, <3>2, <3>3
  <2>7. Follows(x \o Append(s, c), L, y \o Append(s, c))
    BY <2>4, <2>6 DEF Follows
  <2> QED BY <2>2, <2>7 DEF S
<1>3. S = Seq(Chars)
  <2> HIDE DEF S
  <2>1. S \in SUBSET Seq(Chars)
    BY DEF S, Texts
  <2> QED BY <1>1, <1>2, <2>1, SeqInductive
<1> QED BY <1>3 DEF Texts

LEMMA FollowsItself == \A x \in Texts : Follows(x, <<>>, x)
<1> SUFFICES ASSUME NEW x \in Texts PROVE Follows(x, <<>>, x)
  OBVIOUS
<1>1. Split[x].done \in Seq(Texts)
  BY SplitTypes DEF Parsed
<1>2. <<>> \o Split[x].done = Split[x].done
  BY <1>1, ConcatEmptySeq
<1> QED BY <1>2 DEF Follows

LEMMA FollowsOn ==
  ASSUME NEW x \in Texts, NEW y \in Texts, NEW z \in Texts,
         NEW L \in Seq(Texts), NEW M \in Seq(Texts), Follows(x, L, y), Follows(y, M, z)
  PROVE  Follows(x, L \o M, z)
<1> DEFINE N == Split[z].done
<1>1. N \in Seq(Texts)
  BY SplitTypes DEF Parsed
<1>2. Split[x].done = L \o (M \o N) /\ Split[x].rest = Split[z].rest
  BY DEF Follows
<1> HIDE DEF N
<1>3. (L \o M) \o N = L \o (M \o N)
  BY <1>1, ConcatAssociative
<1>4. Split[x].done = (L \o M) \o N
  BY <1>2, <1>3
<1> QED BY <1>2, <1>4 DEF Follows, N

\* A text without breaks is the start of a line.
LEMMA PlainSplit ==
  \A t \in Texts : Plain(t) => Split[t].done = <<>> /\ Split[t].rest = t
<1> DEFINE S == {t \in Texts : Plain(t) => Split[t].done = <<>> /\ Split[t].rest = t}
<1>1. <<>> \in S
  BY SplitDef, TextsAre DEF NoLines
<1>2. ASSUME NEW t \in S, NEW c \in Chars PROVE Append(t, c) \in S
  <2> SUFFICES ASSUME Plain(Append(t, c))
               PROVE  Split[Append(t, c)].done = <<>> /\ Split[Append(t, c)].rest = Append(t, c)
    BY TextsAre
  <2>1. /\ Len(t) \in Nat /\ Len(Append(t, c)) = Len(t) + 1
        /\ \A i \in 1 .. Len(t) : Append(t, c)[i] = t[i]
        /\ Append(t, c)[Len(t) + 1] = c
    BY AppendProperties, LenProperties DEF Texts
  <2>2. c \notin Breaks
    <3>1. Len(t) + 1 \in 1 .. Len(Append(t, c))
      BY <2>1
    <3>2. Append(t, c)[Len(t) + 1] \notin Breaks
      BY <3>1 DEF Plain
    <3> QED BY <2>1, <3>2
  <2>3. Plain(t)
    <3>1. ASSUME NEW i \in 1 .. Len(t) PROVE t[i] \notin Breaks
      <4>1. i \in 1 .. Len(Append(t, c))
        BY <2>1
      <4>2. Append(t, c)[i] \notin Breaks
        BY <4>1 DEF Plain
      <4> QED BY <2>1, <4>2
    <3> QED BY <3>1 DEF Plain
  <2>4. Split[t] \in Parsed /\ Split[t].done = <<>> /\ Split[t].rest = t
    BY <2>3, SplitTypes
  <2>5. Split[Append(t, c)] = Read(Split[t], c)
    BY SplitDef
  <2> QED BY <2>2, <2>4, <2>5, ReadIs
<1>3. S = Seq(Chars)
  <2> HIDE DEF S
  <2>1. S \in SUBSET Seq(Chars)
    BY DEF S, Texts
  <2> QED BY <1>1, <1>2, <2>1, SeqInductive
<1> QED BY <1>3 DEF Texts

\* A line and the break or the breaks behind it.
LEMMA LineSplit ==
  ASSUME NEW l \in Texts, Plain(l), NEW c \in Breaks, NEW d \in Breaks,
         NEW q \in {Append(l, c), Append(Append(l, c), d)}
  PROVE  /\ q \in Texts
         /\ Follows(q, IF l = <<>> THEN <<>> ELSE <<l>>, <<>>)
<1> DEFINE L == IF l = <<>> THEN <<>> ELSE <<l>>
<1>1. c \in Chars /\ d \in Chars /\ Append(l, c) \in Texts
  BY TextsAre, CharsAre
<1>2. Split[l] \in Parsed /\ Split[l].done = <<>> /\ Split[l].rest = l
  BY SplitTypes, PlainSplit
<1>3. Append(<<>>, l) = <<l>>
  OBVIOUS
<1>4. Split[Append(l, c)].done = L /\ Split[Append(l, c)].rest = <<>>
  <2>1. Split[Append(l, c)] = Read(Split[l], c)
    BY <1>1, SplitDef
  <2> QED BY <1>1, <1>2, <1>3, <2>1, ReadIs
<1>5. Split[Append(Append(l, c), d)] = Split[Append(l, c)]
  <2>1. Split[Append(Append(l, c), d)] = Read(Split[Append(l, c)], d)
    BY <1>1, SplitDef
  <2>2. Split[Append(l, c)] \in Parsed
    BY <1>1, SplitTypes
  <2> QED BY <1>1, <1>4, <2>1, <2>2, ReadIs
<1>6. Split[q].done = L /\ Split[q].rest = <<>> /\ q \in Texts
  BY <1>1, <1>4, <1>5, TextsAre
<1>7. L \in Seq(Texts)
  BY TextsAre
<1>8. L \o <<>> = L
  BY <1>7, ConcatEmptySeq
<1>9. Split[<<>>].done = <<>> /\ Split[<<>>].rest = <<>>
  BY SplitDef DEF NoLines
<1> QED BY <1>6, <1>8, <1>9 DEF Follows
-----------------------------------------------------------------------------
(***************************************************************************)
(* What getlines makes of a buffer.                                        *)
(***************************************************************************)
\* Behind the string there is nothing but Nuls.
Clean(b) == \A i \in Bytes : i > Strlen(b) => b[i] = Nul

\* The string is inside the buffer.
Fitting(b) == Strlen(b) <= BUFFER_SIZE

\* The line at the start of a buffer, none when it is empty.
LineOf(b) ==
  LET e == First(Ends(b))
  IN IF e = 1 THEN <<>> ELSE <<SubSeq(String(b), 1, e - 1)>>

LEMMA LeftString ==
  ASSUME NEW b \in Buffers, Ends(b) # {}, Fitting(b)
  PROVE  /\ Fitting(Left(b))
         /\ Clean(b) => Clean(Left(b))
         /\ Follows(String(b), LineOf(b), String(Left(b)))
<1> DEFINE e == First(Ends(b))
           p == Taken(b, e)
           n == Strlen(b)
           x == String(b)
           y == String(Left(b))
<1>1. e \in Nat /\ e >= 1 /\ e <= BUFFER_SIZE /\ e <= n /\ b[e] \in Breaks
      /\ \A i \in 1 .. e - 1 : b[i] \notin Breaks
  BY EndsFirst
<1>2. n \in Nat /\ n <= BUFFER_SIZE /\ BUFFER_SIZE \in Nat
  BY StrlenIs, BufferAssumption DEF Fitting
<1>3. Left(b) = Shift(b, p) /\ Left(b) \in Buffers
  BY LeftIs DEF Left
<1>4. LineOf(b) = IF e = 1 THEN <<>> ELSE <<SubSeq(x, 1, e - 1)>>
  BY DEF LineOf
<1>5. x \in Texts /\ Len(x) = n /\ \A i \in 1 .. n : x[i] = b[i]
  BY StringIs DEF Texts
<1> HIDE DEF e, n
<1>6. /\ p \in Nat /\ p >= 1 /\ p <= BUFFER_SIZE /\ p <= n
      /\ p = e \/ (p = e + 1 /\ b[p] \in Breaks)
  BY <1>1, <1>2, TakenIs DEF n
<1> HIDE DEF p, x
<1>7. Strlen(Left(b)) = n - p /\ \A i \in 1 .. n - p : Left(b)[i] = b[i + p]
  BY <1>2, <1>3, <1>6, ShiftIs DEF n
<1>8. Fitting(Left(b))
  BY <1>2, <1>6, <1>7 DEF Fitting
<1>9. Clean(b) => Clean(Left(b))
  <2> SUFFICES ASSUME Clean(b), NEW i \in Bytes, i > n - p PROVE Left(b)[i] = Nul
    BY <1>7 DEF Clean
  <2>1. i \in Int /\ Left(b)[i] = IF i + p <= BUFFER_SIZE THEN b[i + p]
                                  ELSE IF i <= BUFFER_SIZE THEN Nul ELSE b[i]
    BY <1>2, <1>3 DEF Shift, Bytes
  <2>2. CASE i + p <= BUFFER_SIZE
    <3>1. i + p \in Bytes /\ i + p > n
      BY <1>2, <1>6, <2>2 DEF Bytes
    <3> QED BY <2>1, <2>2, <3>1 DEF Clean, n
  <2>3. CASE ~(i + p <= BUFFER_SIZE) /\ ~(i <= BUFFER_SIZE)
    <3>1. i > n
      BY <1>2, <2>1, <2>3
    <3> QED BY <2>1, <2>3, <3>1 DEF Clean, n
  <2> QED BY <2>1, <2>2, <2>3
<1>10. y = SubSeq(x, p + 1, n)
  <2> DEFINE z == SubSeq(x, p + 1, n)
  <2>1. \A i \in p + 1 .. n : x[i] \in Chars
    BY <1>2, <1>5, <1>6, ElementOfSeq DEF Texts
  <2>2. /\ z \in Texts /\ Len(z) = IF p + 1 <= n THEN n - (p + 1) + 1 ELSE 0
        /\ \A i \in 1 .. n - (p + 1) + 1 : z[i] = x[p + 1 + i - 1]
    BY <1>2, <1>6, <2>1, SubSeqProperties DEF Texts
  <2>3. Len(z) = n - p /\ n - (p + 1) + 1 = n - p
    BY <1>2, <1>6, <2>2
  <2>4. y \in Texts /\ Len(y) = n - p /\ \A i \in 1 .. n - p : y[i] = Left(b)[i]
    BY <1>3, <1>7, StringIs DEF Texts
  <2> HIDE DEF y, z
  <2>5. \A i \in 1 .. n - p : y[i] = z[i]
    <3> SUFFICES ASSUME NEW i \in 1 .. n - p PROVE y[i] = z[i]
      OBVIOUS
    <3>1. p + 1 + i - 1 = i + p /\ i + p \in 1 .. n
      BY <1>2, <1>6
    <3>2. z[i] = x[i + p]
      BY <2>2, <2>3, <3>1
    <3> QED BY <1>5, <1>7, <2>4, <3>1, <3>2
  <2>6. y = z
    BY <2>2, <2>3, <2>4, <2>5, SeqEqual DEF Texts
  <2> QED BY <2>6 DEF z
<1> DEFINE l == SubSeq(x, 1, e - 1)
           q == SubSeq(x, 1, p)
<1>11. x = q \o y
  <2>1. 1 \in 1 .. Len(x) + 1 /\ p \in 1 - 1 .. Len(x) /\ n \in p .. Len(x)
    BY <1>2, <1>5, <1>6
  <2>2. SubSeq(x, 1, p) \o SubSeq(x, p + 1, n) = SubSeq(x, 1, n)
    BY <1>5, <2>1, ConcatAdjacentSubSeq DEF Texts
  <2>3. SubSeq(x, 1, n) = x
    BY <1>5, SubSeqFull DEF Texts
  <2> QED BY <1>10, <2>2, <2>3
<1>12. l \in Texts /\ Len(l) = e - 1 /\ \A i \in 1 .. e - 1 : l[i] = x[i]
  <2>1. \A i \in 1 .. e - 1 : x[i] \in Chars
    BY <1>1, <1>2, <1>5, ElementOfSeq DEF Texts
  <2>2. /\ l \in Texts /\ Len(l) = IF 1 <= e - 1 THEN e - 1 - 1 + 1 ELSE 0
        /\ \A i \in 1 .. e - 1 - 1 + 1 : l[i] = x[1 + i - 1]
    BY <1>1, <2>1, SubSeqProperties DEF Texts
  <2> HIDE DEF l
  <2>3. Len(l) = e - 1 /\ e - 1 - 1 + 1 = e - 1 /\ \A i \in 1 .. e - 1 : 1 + i - 1 = i
    BY <1>1, <2>2
  <2> QED BY <2>2, <2>3
<1>13. Plain(l)
  <2>1. \A i \in 1 .. e - 1 : l[i] = b[i]
    BY <1>1, <1>2, <1>5, <1>12
  <2> QED BY <1>1, <1>12, <2>1 DEF Plain
<1>14. q = Append(l, b[e]) \/ (q = Append(Append(l, b[e]), b[p]) /\ b[p] \in Breaks)
  <2>1. SubSeq(x, 1, e) = l \o <<x[e]>> /\ x[e] = b[e]
    <3>1. 1 \in 1 .. Len(x) /\ e \in 1 .. Len(x) /\ e \in 1 .. n
      BY <1>1, <1>2, <1>5
    <3> QED BY <1>5, <3>1, SubSeqRecursiveSecond DEF Texts
  <2>2. b[e] \in Chars
    BY <1>1, CharsAre
  <2>3. SubSeq(x, 1, e) = Append(l, b[e])
    BY <1>12, <2>1, <2>2, AppendIsConcat DEF Texts
  <2>4. CASE p = e
    BY <2>3, <2>4
  <2>5. CASE p = e + 1 /\ b[p] \in Breaks
    <3>1. 1 \in 1 .. Len(x) /\ p \in 1 .. Len(x) /\ p \in 1 .. n /\ p - 1 = e
      BY <1>1, <1>2, <1>5, <1>6, <2>5
    <3>2. SubSeq(x, 1, p) = SubSeq(x, 1, p - 1) \o <<x[p]>> /\ x[p] = b[p]
      <4>1. SubSeq(x, 1, p) = SubSeq(x, 1, p - 1) \o <<x[p]>>
        BY <1>5, <3>1, SubSeqRecursiveSecond DEF Texts
      <4>2. x[p] = b[p]
        BY <1>5, <3>1
      <4> QED BY <4>1, <4>2
    <3>3. b[p] \in Chars /\ Append(l, b[e]) \in Texts
      BY <1>12, <2>2, <2>5, CharsAre, TextsAre
    <3>4. q = Append(Append(l, b[e]), b[p])
      <4> DEFINE k == Append(l, b[e])
                 d == b[p]
      <4>1. q = k \o <<d>>
        BY <2>3, <3>1, <3>2
      <4>2. k \in Texts /\ d \in Chars
        BY <3>3
      <4> HIDE DEF k, d
      <4>3. Append(k, d) = k \o <<d>>
        BY <4>2, AppendIsConcat DEF Texts
      <4> QED BY <4>1, <4>3 DEF k, d
    <3> QED BY <2>5, <3>4
  <2> QED BY <1>6, <2>4, <2>5
<1>15. l = <<>> <=> e = 1
  <2> HIDE DEF l
  <2>1. l = <<>> <=> Len(l) = 0
    BY <1>12, EmptySeq DEF Texts
  <2> QED BY <1>1, <1>12, <2>1
<1> HIDE DEF l, q
<1>16. q \in Texts /\ Follows(q, IF l = <<>> THEN <<>> ELSE <<l>>, <<>>)
  <2>1. CASE q = Append(l, b[e])
    BY <1>1, <1>12, <1>13, <2>1, LineSplit
  <2>2. CASE q = Append(Append(l, b[e]), b[p]) /\ b[p] \in Breaks
    BY <1>1, <1>12, <1>13, <2>2, LineSplit
  <2> QED BY <1>14, <2>1, <2>2
<1>17. LineOf(b) = IF l = <<>> THEN <<>> ELSE <<l>>
  BY <1>4, <1>15 DEF l
<1>18. LineOf(b) \in Seq(Texts)
  BY <1>12, <1>17, TextsAre
<1>19. y \in Texts
  BY <1>3, StringIs DEF Texts
<1> HIDE DEF y
<1>20. Follows(q \o y, LineOf(b), <<>> \o y)
  <2>1. Follows(q, LineOf(b), <<>>)
    BY <1>16, <1>17
  <2> QED BY <1>16, <1>18, <1>19, <2>1, TextsAre, SplitConcat
<1>21. Follows(x, LineOf(b), y)
  <2>1. <<>> \o y = y
    BY <1>19, ConcatEmptySeq DEF Texts
  <2> QED BY <1>11, <1>20, <2>1
<1> QED BY <1>8, <1>9, <1>21 DEF x, y


Results == [lines : Seq(Texts), rest : Buffers, blank : BOOLEAN]

\* What the parser is handed and what is left are the string; nothing waits,
\* unless an empty line came.
Handed(b, r) ==
  /\ Fitting(r.rest)
  /\ Clean(b) => Clean(r.rest)
  /\ Follows(String(b), r.lines, String(r.rest))
  /\ ~r.blank => Ends(r.rest) = {}

LEMMA LineOfIs ==
  ASSUME NEW b \in Buffers, Ends(b) # {}
  PROVE  LineOf(b) \in Seq(Texts)
<1> DEFINE e == First(Ends(b))
           x == String(b)
           l == SubSeq(x, 1, e - 1)
<1>1. e \in Nat /\ e >= 1 /\ e <= Strlen(b)
  BY EndsFirst
<1>2. x \in Texts /\ Len(x) = Strlen(b) /\ Strlen(b) \in Nat
  BY StringIs, StrlenIs, BufferAssumption DEF Texts
<1>3. LineOf(b) = IF e = 1 THEN <<>> ELSE <<l>>
  BY DEF LineOf
<1> HIDE DEF e, x
<1>4. \A i \in 1 .. e - 1 : x[i] \in Chars
  BY <1>1, <1>2, ElementOfSeq DEF Texts
<1>5. l \in Texts
  BY <1>1, <1>4, SubSeqProperties DEF Texts
<1> HIDE DEF l
<1> QED BY <1>3, <1>5, TextsAre

\* The step of getlines.
LEMMA LinesFromIs ==
  ASSUME NEW b \in Buffers, NEW f,
         Ends(b) # {} => /\ f[Left(b)] \in Results
                         /\ Fitting(Left(b)) => Handed(Left(b), f[Left(b)])
  PROVE  /\ LinesFrom(f, b) \in Results
         /\ Fitting(b) => Handed(b, LinesFrom(f, b))
<1> DEFINE r == LinesFrom(f, b)
           e == First(Ends(b))
<1>1. CASE Ends(b) = {}
  <2>1. r = [lines |-> <<>>, rest |-> b, blank |-> FALSE]
    BY <1>1 DEF LinesFrom
  <2>2. String(b) \in Texts
    BY StringIs DEF Texts
  <2>3. Follows(String(b), <<>>, String(b))
    BY <2>2, FollowsItself
  <2>4. r.lines = <<>> /\ r.rest = b /\ r \in Results
    BY <2>1, TextsAre DEF Results
  <2> HIDE DEF r
  <2> QED BY <1>1, <2>3, <2>4 DEF Handed, r
<1>2. CASE Ends(b) # {} /\ e = 1
  <2>1. r = [lines |-> <<>>, rest |-> Left(b), blank |-> TRUE]
    BY <1>2 DEF LinesFrom, Left
  <2>2. Left(b) \in Buffers
    BY <1>2, LeftIs
  <2>3. LineOf(b) = <<>>
    BY <1>2 DEF LineOf
  <2>4. r.lines = <<>> /\ r.rest = Left(b) /\ r.blank /\ r \in Results
    BY <2>1, <2>2, TextsAre DEF Results
  <2> HIDE DEF r
  <2> QED BY <1>2, <2>3, <2>4, LeftString DEF Handed, r
<1>3. CASE Ends(b) # {} /\ e # 1
  <2> DEFINE g == f[Left(b)]
  <2>1. r = [g EXCEPT !.lines = LineOf(b) \o @]
    BY <1>3 DEF LinesFrom, Left, LineOf
  <2>2. Left(b) \in Buffers /\ LineOf(b) \in Seq(Texts)
    BY <1>3, LeftIs, LineOfIs
  <2>3. g \in Results /\ (Fitting(Left(b)) => Handed(Left(b), g))
    BY <1>3
  <2> HIDE DEF g, r, e
  <2>4. g.lines \in Seq(Texts) /\ g.rest \in Buffers
    BY <2>3 DEF Results
  <2>5. LineOf(b) \o g.lines \in Seq(Texts)
    BY <2>2, <2>4, ConcatProperties
  <2>6. /\ r.lines = LineOf(b) \o g.lines /\ r.rest = g.rest /\ r.blank = g.blank
        /\ r \in Results
    BY <2>1, <2>3, <2>5 DEF Results
  <2>7. SUFFICES ASSUME Fitting(b) PROVE Handed(b, r)
    BY <2>6 DEF r
  <2>8. /\ Fitting(Left(b)) /\ (Clean(b) => Clean(Left(b)))
        /\ Follows(String(b), LineOf(b), String(Left(b)))
    BY <1>3, <2>7, LeftString
  <2>9. /\ Fitting(g.rest) /\ (Clean(Left(b)) => Clean(g.rest))
        /\ Follows(String(Left(b)), g.lines, String(g.rest))
        /\ (~g.blank => Ends(g.rest) = {})
    BY <2>3, <2>8 DEF Handed
  <2>10. String(b) \in Texts /\ String(Left(b)) \in Texts /\ String(g.rest) \in Texts
    BY <2>2, <2>4, StringIs DEF Texts
  <2>11. Follows(String(b), LineOf(b) \o g.lines, String(g.rest))
    BY <2>2, <2>4, <2>8, <2>9, <2>10, FollowsOn
  <2> QED BY <2>6, <2>8, <2>9, <2>11 DEF Handed
<1> QED BY <1>1, <1>2, <1>3

LEMMA GetlinesIs ==
  \A b \in Buffers : /\ getlines[b] \in Results
                     /\ Fitting(b) => Handed(b, getlines[b])
<1> DEFINE Good(b) == /\ getlines[b] \in Results
                      /\ Fitting(b) => Handed(b, getlines[b])
           N == {n \in Nat : \A b \in Buffers : Strlen(b) < n => Good(b)}
<1>1. 0 \in N
  <2>1. \A b \in Buffers : ~(Strlen(b) < 0)
    BY StrlenIs, BufferAssumption
  <2> QED BY <2>1
<1>2. ASSUME NEW n \in N PROVE n + 1 \in N
  <2>1. ASSUME NEW b \in Buffers, Strlen(b) < n + 1 PROVE Good(b)
    <3>1. Ends(b) # {} => Good(Left(b))
      <4> SUFFICES ASSUME Ends(b) # {} PROVE Good(Left(b))
        OBVIOUS
      <4>1. Left(b) \in Buffers /\ Strlen(Left(b)) < Strlen(b)
        BY LeftIs
      <4>2. Strlen(Left(b)) \in Nat /\ Strlen(b) \in Nat
        BY <4>1, StrlenIs, BufferAssumption
      <4>3. Strlen(Left(b)) < n
        BY <2>1, <4>1, <4>2
      <4> QED BY <4>1, <4>3
    <3>2. getlines[b] = LinesFrom(getlines, b)
      BY GetlinesDef
    <3>3. /\ LinesFrom(getlines, b) \in Results
          /\ Fitting(b) => Handed(b, LinesFrom(getlines, b))
      BY <3>1, LinesFromIs
    <3> QED BY <3>2, <3>3
  <2>2. n + 1 \in Nat
    OBVIOUS
  <2> QED BY <2>1, <2>2
<1>3. N = Nat
  <2> HIDE DEF N
  <2>1. N \in SUBSET Nat
    BY DEF N
  <2> QED BY <1>1, <1>2, <2>1, Inductive
<1>4. \A b \in Buffers : Strlen(b) < BUFFER_SIZE + 2
  BY StrlenIs, BufferAssumption
<1>5. BUFFER_SIZE + 2 \in N
  BY <1>3, BufferAssumption
<1> QED BY <1>4, <1>5
-----------------------------------------------------------------------------
(***************************************************************************)
(* What addbuf makes of the buffer.                                        *)
(***************************************************************************)
LEMMA PutIs ==
  ASSUME NEW b \in Buffers, NEW at \in Int, NEW s \in Seq(Chars \cup {Nul})
  PROVE  /\ Put(b, at, s) \in Buffers
         /\ \A i \in Bytes :
              Put(b, at, s)[i] = IF i - at \in 1 .. Len(s) THEN s[i - at] ELSE b[i]
<1>1. \A i \in Bytes : (IF i - at \in 1 .. Len(s) THEN s[i - at] ELSE b[i]) \in Chars \cup {Nul}
  BY ElementOfSeq DEF Buffers
<1> QED BY <1>1 DEF Put, Buffers

LEMMA WithNul ==
  ASSUME NEW s \in Texts
  PROVE  /\ s \in Seq(Chars \cup {Nul}) /\ s \o <<Nul>> \in Seq(Chars \cup {Nul})
         /\ <<Nul>> \in Seq(Chars \cup {Nul})
         /\ Len(s \o <<Nul>>) = Len(s) + 1
         /\ \A i \in 1 .. Len(s) : (s \o <<Nul>>)[i] = s[i]
         /\ (s \o <<Nul>>)[Len(s) + 1] = Nul
<1>1. s \in Seq(Chars \cup {Nul}) /\ <<Nul>> \in Seq(Chars \cup {Nul})
  BY SeqMonotonic DEF Texts
<1>2. Append(s, Nul) = s \o <<Nul>>
  BY <1>1, AppendIsConcat
<1> QED BY <1>1, <1>2, AppendProperties

LEMMA PieceIs == ASSUME NEW s \in Pieces PROVE s \in Texts /\ Len(s) \in Nat
BY DEF Pieces, Texts

\* Whatever is read, and whatever the buffer holds.
LEMMA AddedTypes ==
  ASSUME buffer \in Buffers, NEW s \in Texts
  PROVE  /\ Appended(s) \in Buffers /\ Shifted(s) \in Buffers
         /\ Len(s) >= BUFFER_SIZE => Replaced(s) \in Buffers
<1> DEFINE n == Strlen(buffer)
           x == String(buffer)
<1>1. n \in Nat /\ x \in Texts /\ Len(x) = n /\ Len(s) \in Nat
  BY StrlenIs, StringIs, LenProperties, BufferAssumption DEF Texts
<1>2. Appended(s) \in Buffers
  <2> DEFINE b == Put(buffer, n, s)
  <2>1. b \in Buffers
    BY <1>1, PutIs, WithNul
  <2>2. Appended(s) = Put(b, Strlen(b) + Len(s), <<Nul>>)
    BY DEF Appended
  <2> HIDE DEF b
  <2> DEFINE k == Strlen(b) + Len(s)
             z == <<Nul>>
  <2>3. k \in Int
    BY <1>1, <2>1, StrlenIs, BufferAssumption
  <2>4. z \in Seq(Chars \cup {Nul})
    BY WithNul
  <2> HIDE DEF k, z
  <2>5. Put(b, k, z) \in Buffers
    BY <2>1, <2>3, <2>4, PutIs
  <2> QED BY <2>2, <2>5 DEF k, z
<1>3. ASSUME Len(s) >= BUFFER_SIZE PROVE Replaced(s) \in Buffers
  <2> DEFINE m == Len(s) - BUFFER_SIZE + 1
             p == SubSeq(s, m, Len(s))
  <2>1. m \in Int /\ Len(s) \in Int
    BY <1>1, BufferAssumption
  <2>2. Replaced(s) = Put(buffer, 0, p \o <<Nul>>)
    BY DEF Replaced
  <2>3. \A i \in m .. Len(s) : s[i] \in Chars
    BY <1>1, <1>3, BufferAssumption, ElementOfSeq DEF Texts
  <2> HIDE DEF m
  <2>4. p \in Texts
    BY <2>1, <2>3, SubSeqProperties DEF Texts
  <2> DEFINE q == p \o <<Nul>>
  <2> HIDE DEF p
  <2>5. q \in Seq(Chars \cup {Nul}) /\ 0 \in Int
    BY <2>4, WithNul
  <2> HIDE DEF q
  <2>6. Put(buffer, 0, q) \in Buffers
    BY <2>5, PutIs
  <2> QED BY <2>2, <2>6 DEF q
<1>4. Shifted(s) \in Buffers
  <2> DEFINE k == Len(s) + 1
             y == SubSeq(x, k + 1, n)
             b == Put(buffer, 0, y)
  <2>1. k \in Int /\ k + 1 \in Int /\ k >= 1
    BY <1>1
  <2>2. Shifted(s) = Put(b, k, s \o <<Nul>>)
    BY DEF Shifted
  <2> HIDE DEF n, x, k
  <2>3. \A i \in k + 1 .. n : x[i] \in Chars
    BY <1>1, <2>1, ElementOfSeq DEF Texts
  <2>4. y \in Texts
    BY <1>1, <2>1, <2>3, SubSeqProperties DEF Texts
  <2> HIDE DEF y
  <2>5. b \in Buffers
    BY <2>4, PutIs, WithNul
  <2> HIDE DEF b
  <2> QED BY <2>1, <2>2, <2>5, PutIs, WithNul
<1> QED BY <1>2, <1>3, <1>4


\* A piece that fits goes behind the string.
LEMMA AppendedString ==
  ASSUME buffer \in Buffers, Fitting(buffer), Clean(buffer), NEW s \in Texts, Fits(Len(s))
  PROVE  /\ Fitting(Appended(s)) /\ Clean(Appended(s))
         /\ String(Appended(s)) = String(buffer) \o s
<1> DEFINE n == Strlen(buffer)
           m == n + Len(s)
           x == String(buffer)
           b == Put(buffer, n, s)
           a == Appended(s)
<1>1. /\ n \in Nat /\ Len(s) \in Nat /\ BUFFER_SIZE \in Nat /\ m + 1 <= BUFFER_SIZE
      /\ \A i \in 1 .. n : buffer[i] \in Chars
      /\ \A i \in Bytes : i > n => buffer[i] = Nul
  BY StrlenIs, LenProperties, BufferAssumption DEF Fits, Texts, Clean
<1>2. x \in Texts /\ Len(x) = n /\ \A i \in 1 .. n : x[i] = buffer[i]
  BY StringIs DEF Texts
<1>3. \A i \in 1 .. Len(s) : s[i] \in Chars
  BY ElementOfSeq DEF Texts
<1>4. /\ b \in Buffers
      /\ \A i \in Bytes : b[i] = IF i - n \in 1 .. Len(s) THEN s[i - n] ELSE buffer[i]
  BY <1>1, PutIs, WithNul
<1>5. a = Put(b, Strlen(b) + Len(s), <<Nul>>)
  BY DEF Appended
<1> HIDE DEF n, x, b, a
<1>6. \A i \in 1 .. m : /\ i \in Bytes
                        /\ b[i] = (IF i <= n THEN x[i] ELSE s[i - n])
                        /\ b[i] \in Chars
  <2> SUFFICES ASSUME NEW i \in 1 .. m
               PROVE  /\ i \in Bytes
                      /\ b[i] = (IF i <= n THEN x[i] ELSE s[i - n])
                      /\ b[i] \in Chars
    OBVIOUS
  <2>1. i \in Bytes
    BY <1>1 DEF Bytes
  <2>2. CASE i <= n
    <3>1. i \in 1 .. n /\ i - n \notin 1 .. Len(s)
      BY <1>1, <2>2
    <3> QED BY <1>1, <1>2, <1>4, <2>1, <2>2, <3>1
  <2>3. CASE ~(i <= n)
    <3>1. i - n \in 1 .. Len(s)
      BY <1>1, <2>3
    <3> QED BY <1>3, <1>4, <2>1, <2>3, <3>1
  <2> QED BY <2>2, <2>3
<1>7. \A i \in Bytes : i > m => b[i] = Nul
  <2> SUFFICES ASSUME NEW i \in Bytes, i > m PROVE b[i] = Nul
    OBVIOUS
  <2>1. i > n /\ i - n \notin 1 .. Len(s)
    BY <1>1 DEF Bytes
  <2> QED BY <1>1, <1>4, <2>1
<1>8. m \in 0 .. BUFFER_SIZE + 1 /\ m <= BUFFER_SIZE /\ m + 1 \in Bytes
  BY <1>1 DEF Bytes
<1>9. Strlen(b) = m
  <2> HIDE DEF m
  <2>1. b[m + 1] = Nul
    BY <1>1, <1>7, <1>8
  <2>2. \A i \in 1 .. m : b[i] # Nul
    BY <1>6, CharsAre
  <2>3. b \in Buffers /\ m \in 0 .. BUFFER_SIZE + 1
    BY <1>4, <1>8
  <2> QED BY <2>1, <2>2, <2>3, StrlenEq
<1>10. a \in Buffers /\ \A i \in Bytes :
          a[i] = IF i - (m + Len(s)) \in 1 .. 1 THEN Nul ELSE b[i]
  <2>1. m + Len(s) \in Int /\ Len(<<Nul>>) = 1 /\ <<Nul>>[1] = Nul
    BY <1>1
  <2> DEFINE z == <<Nul>>
             k == m + Len(s)
  <2>2. z \in Seq(Chars \cup {Nul}) /\ Len(z) = 1 /\ \A i \in 1 .. 1 : z[i] = Nul
    BY WithNul
  <2> HIDE DEF z, k
  <2>3. Put(b, k, z) \in Buffers /\ \A i \in Bytes :
          Put(b, k, z)[i] = IF i - k \in 1 .. Len(z) THEN z[i - k] ELSE b[i]
    BY <1>4, <2>1, <2>2, PutIs DEF k
  <2>4. a = Put(b, k, z)
    BY <1>5, <1>9 DEF z, k
  <2> QED BY <2>2, <2>3, <2>4 DEF k
<1>11. \A i \in 1 .. m : a[i] = b[i]
  <2> SUFFICES ASSUME NEW i \in 1 .. m PROVE a[i] = b[i]
    OBVIOUS
  <2>1. i - (m + Len(s)) \notin 1 .. 1
    BY <1>1
  <2> QED BY <1>6, <1>10, <2>1
<1>12. \A i \in Bytes : i > m => a[i] = Nul
  BY <1>7, <1>10
<1> HIDE DEF m
<1>13. Strlen(a) = m
  <2>1. a[m + 1] = Nul
    BY <1>1, <1>8, <1>12
  <2>2. \A i \in 1 .. m : a[i] # Nul
    BY <1>6, <1>11, CharsAre
  <2>3. a \in Buffers /\ m \in 0 .. BUFFER_SIZE + 1
    BY <1>8, <1>10
  <2> QED BY <2>1, <2>2, <2>3, StrlenEq
<1>14. Fitting(a) /\ Clean(a)
  BY <1>8, <1>12, <1>13 DEF Fitting, Clean
<1>15. String(a) = x \o s
  <2>1. String(a) \in Texts /\ Len(String(a)) = m /\ \A i \in 1 .. m : String(a)[i] = a[i]
    BY <1>10, <1>13, StringIs DEF Texts
  <2>2. /\ x \o s \in Texts /\ Len(x \o s) = m
        /\ \A i \in 1 .. m : (x \o s)[i] = IF i <= n THEN x[i] ELSE s[i - n]
    BY <1>2, ConcatProperties DEF Texts, m
  <2>3. \A i \in 1 .. m : String(a)[i] = (x \o s)[i]
    BY <1>6, <1>11, <2>1, <2>2
  <2> QED BY <2>1, <2>2, <2>3, SeqEqual DEF Texts
<1> QED BY <1>14, <1>15 DEF a, x

\* A piece that is as large as the buffer fills it.
LEMMA ReplacedString ==
  ASSUME buffer \in Buffers, NEW s \in Texts, Len(s) = BUFFER_SIZE
  PROVE  Fitting(Replaced(s)) /\ Clean(Replaced(s)) /\ String(Replaced(s)) = s
<1> DEFINE a == Replaced(s)
           q == s \o <<Nul>>
           m == BUFFER_SIZE
<1>1. m \in Nat /\ Len(s) = m
  BY BufferAssumption
<1>2. /\ q \in Seq(Chars \cup {Nul}) /\ Len(q) = m + 1
      /\ \A i \in 1 .. m : q[i] = s[i]
      /\ q[m + 1] = Nul
  BY <1>1, WithNul
<1>3. a = Put(buffer, 0, q)
  <2>1. SubSeq(s, 1, Len(s)) = s
    BY SubSeqFull DEF Texts
  <2>2. Len(s) - BUFFER_SIZE + 1 = 1
    BY <1>1
  <2> QED BY <2>1, <2>2 DEF Replaced
<1>4. \A i \in 1 .. m : s[i] \in Chars
  BY <1>1, ElementOfSeq DEF Texts
<1> HIDE DEF a, q
<1>5. /\ a \in Buffers
      /\ \A i \in Bytes : a[i] = IF i - 0 \in 1 .. Len(q) THEN q[i - 0] ELSE buffer[i]
  BY <1>2, <1>3, PutIs
<1>6. \A i \in Bytes : i - 0 = i /\ i \in 1 .. m + 1
  BY <1>1 DEF Bytes
<1>7. \A i \in Bytes : a[i] = q[i]
  BY <1>2, <1>5, <1>6
<1>8. m + 1 \in Bytes /\ \A i \in 1 .. m : i \in Bytes
  BY <1>1 DEF Bytes
<1>9. a[m + 1] = Nul /\ \A i \in 1 .. m : a[i] = s[i] /\ a[i] \in Chars
  BY <1>2, <1>4, <1>7, <1>8
<1>10. Strlen(a) = m
  <2>1. m \in 0 .. BUFFER_SIZE + 1
    BY <1>1
  <2>2. \A i \in 1 .. m : a[i] # Nul
    BY <1>9, CharsAre
  <2>3. a \in Buffers /\ a[m + 1] = Nul
    BY <1>5, <1>9
  <2> QED BY <2>1, <2>2, <2>3, StrlenEq
<1>11. Fitting(a)
  BY <1>1, <1>10 DEF Fitting
<1>12. Clean(a)
  <2>1. \A i \in Bytes : i > m => i = m + 1
    BY <1>1 DEF Bytes
  <2> QED BY <1>9, <1>10, <2>1 DEF Clean
<1>13. String(a) = s
  <2>1. String(a) \in Texts /\ Len(String(a)) = m /\ \A i \in 1 .. m : String(a)[i] = a[i]
    BY <1>5, <1>10, StringIs DEF Texts
  <2>2. \A i \in 1 .. m : String(a)[i] = s[i]
    BY <1>9, <2>1
  <2> QED BY <1>1, <2>1, <2>2, SeqEqual DEF Texts
<1> QED BY <1>11, <1>12, <1>13 DEF a
-----------------------------------------------------------------------------
(***************************************************************************)
(* The inductive invariant: while every read has fitted, the string is     *)
(* inside the buffer and nothing but Nuls is behind it.                    *)
(***************************************************************************)
CleanBuffer == ~lost => Fitting(buffer) /\ Clean(buffer)

LinesInv == BufferTypeOK /\ CleanBuffer /\ LinesIntact /\ NoneHeldBack

LEMMA IntactIs == LinesIntact <=> (~lost => Follows(input, lines, String(buffer)))
BY DEF LinesIntact, Follows

LEMMA EmptyBuffer ==
  LET b == [i \in Bytes |-> Nul] IN
  b \in Buffers /\ Strlen(b) = 0 /\ Fitting(b) /\ Clean(b) /\ String(b) = <<>>
<1> DEFINE b == [i \in Bytes |-> Nul]
<1>1. b \in Buffers /\ \A i \in Bytes : b[i] = Nul
  BY DEF Buffers
<1> HIDE DEF b
<1>2. 0 \in 0 .. BUFFER_SIZE + 1 /\ BUFFER_SIZE >= 0 /\ 0 + 1 \in Bytes
  BY BufferAssumption DEF Bytes
<1>3. Strlen(b) = 0
  <2>1. b[0 + 1] = Nul /\ \A i \in 1 .. 0 : b[i] # Nul
    BY <1>1, <1>2
  <2> QED BY <1>1, <1>2, <2>1, StrlenEq
<1>4. Fitting(b) /\ Clean(b)
  BY <1>1, <1>2, <1>3 DEF Fitting, Clean
<1>5. String(b) = <<>>
  <2>1. String(b) \in Seq(Chars) /\ Len(String(b)) = 0
    BY <1>1, <1>3, StringIs
  <2> QED BY <2>1, EmptySeq
<1> QED BY <1>1, <1>3, <1>4, <1>5 DEF b

\* A process starts like this.
Started ==
  /\ buffer = [i \in Bytes |-> Nul] /\ closed = FALSE
  /\ lines = <<>> /\ input = <<>> /\ lost = FALSE /\ blank = FALSE

LEMMA StartedInv == Started => LinesInv
<1> SUFFICES ASSUME Started PROVE LinesInv
  OBVIOUS
<1>1. /\ buffer \in Buffers /\ Strlen(buffer) = 0 /\ Fitting(buffer) /\ Clean(buffer)
      /\ String(buffer) = <<>>
  BY EmptyBuffer DEF Started
<1>2. CleanBuffer
  BY <1>1 DEF CleanBuffer
<1>3. BufferTypeOK
  <2>1. buffer[BUFFER_SIZE + 1] = Nul
    <3>1. BUFFER_SIZE + 1 \in Bytes
      BY BufferAssumption DEF Bytes
    <3> QED BY <3>1 DEF Started
  <2>2. lines \in Seq(Seq(Chars)) /\ input \in Seq(Chars)
    BY TextsAre DEF Started, Texts
  <2> QED BY <1>1, <2>1, <2>2 DEF BufferTypeOK, Started
<1>4. LinesIntact
  <2>1. Follows(<<>>, <<>>, <<>>)
    BY TextsAre, FollowsItself
  <2> QED BY <1>1, <2>1, IntactIs DEF Started
<1>5. NoneHeldBack
  BY <1>1 DEF NoneHeldBack
<1> QED BY <1>2, <1>3, <1>4, <1>5 DEF LinesInv

LEMMA StartedNext == Started' => LinesInv'
BY StartedInv, PTL

\* process_buffer on what addbuf left, where what was read followed the string.
LEMMA ReadInv ==
  ASSUME LinesInv, NEW s \in Texts, NEW b \in Buffers,
         process_buffer(b), input' = input \o s, closed' = closed, lost' \in BOOLEAN,
         ~lost' => ~lost /\ Fitting(b) /\ Clean(b) /\ String(b) = String(buffer) \o s
  PROVE  LinesInv'
<1> DEFINE r == getlines[b]
           x == String(buffer)
<1>1. r \in Results /\ (Fitting(b) => Handed(b, r))
  BY GetlinesIs
<1>2. buffer' = r.rest /\ lines' = lines \o r.lines /\ blank' = r.blank
  BY DEF process_buffer
<1> HIDE DEF r
<1>3. r.lines \in Seq(Texts) /\ r.rest \in Buffers /\ r.blank \in BOOLEAN
  BY <1>1 DEF Results
<1>4. /\ buffer \in Buffers /\ lines \in Seq(Texts) /\ input \in Texts
      /\ closed \in BOOLEAN
  BY DEF LinesInv, BufferTypeOK, Texts
<1>5. lines' \in Seq(Texts) /\ input' \in Texts
  BY <1>2, <1>3, <1>4, ConcatProperties DEF Texts
<1>6. CleanBuffer'
  BY <1>1, <1>2 DEF CleanBuffer, Handed
<1>7. BufferTypeOK'
  <2>1. ~lost' => buffer'[BUFFER_SIZE + 1] = Nul
    <3>1. BUFFER_SIZE + 1 \in Bytes /\ BUFFER_SIZE \in Nat /\ Strlen(buffer') \in Nat
      BY <1>2, <1>3, StrlenIs, BufferAssumption DEF Bytes
    <3>2. SUFFICES ASSUME ~lost' PROVE buffer'[BUFFER_SIZE + 1] = Nul
      OBVIOUS
    <3>3. Strlen(buffer') < BUFFER_SIZE + 1
      BY <1>6, <3>1, <3>2 DEF CleanBuffer, Fitting
    <3> QED BY <1>6, <3>1, <3>2, <3>3 DEF CleanBuffer, Clean
  <2> QED BY <1>2, <1>3, <1>4, <1>5, <2>1 DEF BufferTypeOK, Texts
<1>8. LinesIntact'
  <2> SUFFICES ASSUME ~lost' PROVE Follows(input', lines', String(buffer'))
    BY DEF LinesIntact, Follows
  <2>1. Follows(input, lines, x)
    BY IntactIs DEF LinesInv
  <2>2. x \in Texts /\ String(b) \in Texts /\ String(r.rest) \in Texts
    BY <1>3, <1>4, StringIs DEF Texts
  <2>3. Follows(input \o s, lines, x \o s)
    BY <1>4, <2>1, <2>2, SplitConcat
  <2>4. String(b) = x \o s /\ Follows(String(b), r.lines, String(r.rest))
    BY <1>1 DEF Handed
  <2> HIDE DEF x
  <2>5. Follows(input', lines, String(b))
    BY <2>3, <2>4
  <2>6. Follows(input', lines \o r.lines, String(r.rest))
    BY <1>3, <1>4, <1>5, <2>2, <2>4, <2>5, FollowsOn
  <2> QED BY <1>2, <2>6
<1>9. NoneHeldBack'
  <2> SUFFICES ASSUME ~blank', ~lost', NEW i \in 1 .. Strlen(buffer')
               PROVE  buffer'[i] \notin Breaks
    BY DEF NoneHeldBack
  <2>1. Ends(buffer') = {} /\ Strlen(buffer') <= BUFFER_SIZE
    BY <1>1, <1>2 DEF Handed, Fitting
  <2>2. i <= BUFFER_SIZE
    BY <1>2, <1>3, <2>1, StrlenIs, BufferAssumption
  <2> QED BY <2>1, <2>2 DEF Ends
<1> QED BY <1>6, <1>7, <1>8, <1>9 DEF LinesInv

LEMMA LinesStep == LinesInv /\ [Next]_vars => LinesInv'
<1> SUFFICES ASSUME LinesInv, [Next]_vars PROVE LinesInv'
  OBVIOUS
<1>0. buffer \in Buffers /\ lost \in BOOLEAN
  BY DEF LinesInv, BufferTypeOK
<1>1. CASE read_stdin
  <2>1. PICK s \in Pieces :
          /\ input' = input \o s
          /\ ReadFitting(s) \/ ReadReplacing(s) \/ ReadShifting(s)
          /\ UNCHANGED closed
    BY <1>1 DEF read_stdin
  <2>2. s \in Texts /\ Len(s) \in Nat
    BY PieceIs
  <2>3. CASE ReadFitting(s)
    <3>1. Fits(Len(s)) /\ process_buffer(Appended(s)) /\ lost' = lost
      BY <2>3 DEF ReadFitting
    <3>2. ~lost => /\ Fitting(Appended(s)) /\ Clean(Appended(s))
                   /\ String(Appended(s)) = String(buffer) \o s
      BY <1>0, <2>2, <3>1, AppendedString DEF LinesInv, CleanBuffer
    <3>3. Appended(s) \in Buffers
      BY <1>0, <2>2, AddedTypes
    <3> QED BY <1>0, <2>1, <2>2, <3>1, <3>2, <3>3, ReadInv
  <2>4. CASE ReadReplacing(s)
    <3>1. /\ Len(s) >= BUFFER_SIZE /\ process_buffer(Replaced(s))
          /\ lost' = (lost \/ Strlen(buffer) > 0 \/ Len(s) > BUFFER_SIZE)
      BY <2>4 DEF ReadReplacing
    <3>2. Replaced(s) \in Buffers /\ Strlen(buffer) \in Nat
      BY <1>0, <2>2, <3>1, AddedTypes, StrlenIs, BufferAssumption
    <3>3. lost' \in BOOLEAN
      BY <3>1
    <3>4. ASSUME ~lost'
          PROVE  /\ ~lost /\ Fitting(Replaced(s)) /\ Clean(Replaced(s))
                 /\ String(Replaced(s)) = String(buffer) \o s
      <4>1. ~lost /\ ~(Strlen(buffer) > 0) /\ ~(Len(s) > BUFFER_SIZE)
        BY <3>1, <3>4
      <4>2. Strlen(buffer) = 0 /\ Len(s) = BUFFER_SIZE
        BY <2>2, <3>1, <3>2, <4>1, BufferAssumption
      <4>3. String(buffer) = <<>>
        BY <1>0, <4>2, StringIs, EmptySeq
      <4>4. <<>> \o s = s
        BY <2>2, ConcatEmptySeq DEF Texts
      <4> QED BY <1>0, <2>2, <4>1, <4>2, <4>3, <4>4, ReplacedString
    <3> QED BY <2>1, <2>2, <3>1, <3>2, <3>3, <3>4, ReadInv
  <2>5. CASE ReadShifting(s)
    <3>1. process_buffer(Shifted(s)) /\ lost' = TRUE
      BY <2>5 DEF ReadShifting
    <3>2. Shifted(s) \in Buffers
      BY <1>0, <2>2, AddedTypes
    <3> QED BY <2>1, <2>2, <3>1, <3>2, ReadInv
  <2> QED BY <2>1, <2>3, <2>4, <2>5
<1>2. CASE ReadDying
  BY <1>2, StartedNext DEF ReadDying, Restart, Started
<1>3. CASE ReadEOF
  BY <1>3 DEF ReadEOF, LinesInv, BufferTypeOK, CleanBuffer, LinesIntact, NoneHeldBack
<1>4. CASE Restart
  BY <1>4, StartedNext DEF Restart, Started
<1>5. CASE UNCHANGED vars
  BY <1>5 DEF vars, LinesInv, BufferTypeOK, CleanBuffer, LinesIntact, NoneHeldBack
<1> QED BY <1>1, <1>2, <1>3, <1>4, <1>5 DEF Next

\* The invariant holds in every state.
THEOREM LinesInvariant == Spec => []LinesInv
<1>1. Init => LinesInv
  BY StartedInv DEF Init, Started
<1> QED BY <1>1, LinesStep, PTL DEF Spec

\* The buffer holds characters and Nuls, and while every read has fitted its
\* last place holds a Nul.
THEOREM BufferTypes == Spec => []BufferTypeOK
<1>1. LinesInv => BufferTypeOK
  BY DEF LinesInv
<1> QED BY <1>1, LinesInvariant, PTL

\* However the input is cut into reads, and for every size of the buffer: while
\* every read has fitted, the lines handed to the parser and what is in the
\* buffer are the input.
THEOREM LinesStayIntact == Spec => []LinesIntact
<1>1. LinesInv => LinesIntact
  BY DEF LinesInv
<1> QED BY <1>1, LinesInvariant, PTL

\* Nothing but an empty line keeps a complete line in the buffer.
THEOREM NothingHeldBack == Spec => []NoneHeldBack
<1>1. LinesInv => NoneHeldBack
  BY DEF LinesInv
<1> QED BY <1>1, LinesInvariant, PTL
=============================================================================
