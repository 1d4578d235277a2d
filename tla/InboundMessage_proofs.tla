------------------------- MODULE InboundMessage_proofs -------------------------
(***************************************************************************)
(* Proofs about InboundMessage, with ConfigStore and Calibration: no key   *)
(* has two entries in a table or its file and no table outgrows its array, *)
(* the configuration is the map ConfigMap promises, and the calibrations   *)
(* are what was announced.                                                 *)
(***************************************************************************)
EXTENDS InboundMessage, SequenceTheorems, FiniteSetTheorems, TLAPS

-----------------------------------------------------------------------------
(***************************************************************************)
(* Tables: sequences of entries with keys.                                 *)
(***************************************************************************)
Table(S, t) == t \in Seq(S) /\ Unique(t)

\* A table has no more entries than there are keys.
LEMMA TableBound ==
  ASSUME NEW S, NEW t, Table(S, t), NEW K, IsFiniteSet(K), KeysOf(t) \subseteq K
  PROVE  Len(t) <= Cardinality(K)
<1> DEFINE n == Len(t)
           P == 1 .. n
           f == [i \in P |-> t[i].key]
<1>1. n \in Nat /\ Cardinality(K) \in Nat
  BY LenProperties, FS_CardinalityType DEF Table
<1> HIDE DEF n
<1>2. IsFiniteSet(P) /\ Cardinality(P) = n
  BY <1>1, FS_Interval
<1>3. f \in [P -> K]
  BY DEF KeysOf, n
<1>4. ASSUME Cardinality(K) < n PROVE FALSE
  <2>1. \A i \in P : f[i] = t[i].key
    OBVIOUS
  <2>2. P = 1 .. n
    OBVIOUS
  <2> HIDE DEF f, P
  <2>3. \E i, j \in P : i # j /\ f[i] = f[j]
    BY <1>2, <1>3, <1>4, FS_PigeonHole
  <2> QED BY <2>1, <2>2, <2>3 DEF Table, Unique, n
<1> QED BY <1>1, <1>4 DEF n

\* Entries changed, but not their keys.
LEMMA SameKeys ==
  ASSUME NEW S, NEW t, Table(S, t), NEW T, NEW r \in [1 .. Len(t) -> T],
         \A i \in 1 .. Len(t) : r[i].key = t[i].key
  PROVE  Table(T, r) /\ Len(r) = Len(t) /\ KeysOf(r) = KeysOf(t)
<1>1. Len(t) \in Nat
  BY LenProperties DEF Table
<1>2. r \in Seq(T)
  BY <1>1, SeqDef
<1>3. Len(r) \in Nat /\ 1 .. Len(r) = 1 .. Len(t)
  BY <1>2, LenProperties
<1>4. Len(r) = Len(t)
  BY <1>1, <1>3
<1>5. Unique(r)
  BY <1>4 DEF Table, Unique
<1>6. KeysOf(r) = KeysOf(t)
  BY <1>4 DEF KeysOf
<1> QED BY <1>2, <1>4, <1>5, <1>6 DEF Table

\* One table after another that has none of its keys.
LEMMA JoinTables ==
  ASSUME NEW S, NEW s, Table(S, s), NEW t, Table(S, t), KeysOf(s) \cap KeysOf(t) = {}
  PROVE  /\ Table(S, s \o t) /\ KeysOf(s \o t) = KeysOf(s) \cup KeysOf(t)
         /\ \A i \in 1 .. Len(s \o t) : \/ \E j \in 1 .. Len(s) : (s \o t)[i] = s[j]
                                        \/ \E j \in 1 .. Len(t) : (s \o t)[i] = t[j]
         /\ \A j \in 1 .. Len(s) : \E i \in 1 .. Len(s \o t) : (s \o t)[i] = s[j]
         /\ \A j \in 1 .. Len(t) : \E i \in 1 .. Len(s \o t) : (s \o t)[i] = t[j]
<1> DEFINE u == s \o t
<1>1. /\ u \in Seq(S) /\ Len(u) = Len(s) + Len(t)
      /\ \A i \in 1 .. Len(s) + Len(t) : u[i] = IF i <= Len(s) THEN s[i] ELSE t[i - Len(s)]
      /\ Len(s) \in Nat /\ Len(t) \in Nat
  BY ConcatProperties, LenProperties DEF Table
<1> HIDE DEF u
<1>2. ASSUME NEW i \in 1 .. Len(u)
      PROVE  \/ i \in 1 .. Len(s) /\ u[i] = s[i]
             \/ i > Len(s) /\ i - Len(s) \in 1 .. Len(t) /\ u[i] = t[i - Len(s)]
  BY <1>1
<1>3. \A j \in 1 .. Len(s) : j \in 1 .. Len(u) /\ u[j] = s[j]
  BY <1>1
<1>4. ASSUME NEW j \in 1 .. Len(t) PROVE Len(s) + j \in 1 .. Len(u) /\ u[Len(s) + j] = t[j]
  <2>1. Len(s) + j \in 1 .. Len(s) + Len(t) /\ ~(Len(s) + j <= Len(s)) /\ Len(s) + j - Len(s) = j
    BY <1>1
  <2> QED BY <1>1, <2>1
<1>5. KeysOf(u) = KeysOf(s) \cup KeysOf(t)
  <2>1. KeysOf(u) \subseteq KeysOf(s) \cup KeysOf(t)
    BY <1>2 DEF KeysOf
  <2>2. KeysOf(s) \cup KeysOf(t) \subseteq KeysOf(u)
    BY <1>3, <1>4 DEF KeysOf
  <2> QED BY <2>1, <2>2
<1>7. \A i \in 1 .. Len(u) : IF i \in 1 .. Len(s) THEN u[i].key \in KeysOf(s)
                             ELSE u[i].key \in KeysOf(t)
  <2> SUFFICES ASSUME NEW i \in 1 .. Len(u)
               PROVE  IF i \in 1 .. Len(s) THEN u[i].key \in KeysOf(s)
                      ELSE u[i].key \in KeysOf(t)
    OBVIOUS
  <2>1. CASE i \in 1 .. Len(s)
    BY <1>3, <2>1 DEF KeysOf
  <2>2. CASE i \notin 1 .. Len(s)
    BY <1>2, <2>2 DEF KeysOf
  <2> QED BY <2>1, <2>2
<1>6. Unique(u)
  <2> SUFFICES ASSUME NEW i \in 1 .. Len(u), NEW j \in 1 .. Len(u), u[i].key = u[j].key
               PROVE  i = j
    BY DEF Unique
  <2>1. CASE i \in 1 .. Len(s) /\ j \in 1 .. Len(s)
    BY <1>3, <2>1 DEF Table, Unique
  <2>2. CASE i \in 1 .. Len(s) /\ j \notin 1 .. Len(s)
    BY <1>7, <2>2
  <2>3. CASE i \notin 1 .. Len(s) /\ j \in 1 .. Len(s)
    BY <1>7, <2>3
  <2>4. CASE i \notin 1 .. Len(s) /\ j \notin 1 .. Len(s)
    <3>1. /\ i - Len(s) \in 1 .. Len(t) /\ u[i] = t[i - Len(s)]
          /\ j - Len(s) \in 1 .. Len(t) /\ u[j] = t[j - Len(s)]
      BY <1>2, <2>4
    <3>2. i - Len(s) = j - Len(s)
      BY <3>1 DEF Table, Unique
    <3> QED BY <1>1, <3>2
  <2> QED BY <2>1, <2>2, <2>3, <2>4
<1> QED BY <1>1, <1>2, <1>3, <1>4, <1>5, <1>6 DEF Table, u

\* The sequences of a finite set: each element once.
LEMMA Orders ==
  ASSUME NEW S, IsFiniteSet(S), NEW s \in SetToSeqs(S)
  PROVE  /\ s \in Seq(S)
         /\ \A i, j \in 1 .. Len(s) : s[i] = s[j] => i = j
         /\ \A x \in S : \E i \in 1 .. Len(s) : s[i] = x
<1> DEFINE n == Cardinality(S)
           D == 1 .. n
<1>1. n \in Nat
  BY FS_CardinalityType
<1>2. s \in [D -> S] /\ \A i, j \in D : i # j => s[i] # s[j]
  BY DEF SetToSeqs
<1>3. IsFiniteSet(D) /\ Cardinality(D) = n
  BY <1>1, FS_Interval
<1>4. s \in Seq(S)
  BY <1>1, <1>2, SeqDef
<1>5. Len(s) \in Nat /\ 1 .. Len(s) = D
  BY <1>2, <1>4, LenProperties
<1>6. s \in Injection(D, S)
  BY <1>2 DEF Injection, IsInjective
<1> HIDE DEF D
<1>7. s \in Surjection(D, S)
  BY <1>3, <1>6, FS_Injection DEF n
<1>8. \A x \in S : \E i \in D : s[i] = x
  BY <1>7 DEF Surjection
<1> QED BY <1>2, <1>4, <1>5, <1>8

\* New entries in any order, one for each of some keys.
LEMMA NewEntries ==
  ASSUME NEW S, NEW E, IsFiniteSet(E), E \subseteq S,
         \A x, y \in E : x.key = y.key => x = y,
         NEW s \in SetToSeqs(E)
  PROVE  /\ Table(S, s) /\ KeysOf(s) = {x.key : x \in E}
         /\ \A i \in 1 .. Len(s) : s[i] \in E
<1>1. /\ s \in Seq(E) /\ \A i, j \in 1 .. Len(s) : s[i] = s[j] => i = j
      /\ \A x \in E : \E i \in 1 .. Len(s) : s[i] = x
  BY Orders
<1>2. \A i \in 1 .. Len(s) : s[i] \in E
  BY <1>1, ElementOfSeq
<1>3. s \in Seq(S)
  BY <1>1, SeqMonotonic
<1>4. Unique(s)
  BY <1>1, <1>2 DEF Unique
<1>5. KeysOf(s) = {x.key : x \in E}
  BY <1>1, <1>2 DEF KeysOf
<1> QED BY <1>2, <1>3, <1>4, <1>5 DEF Table

-----------------------------------------------------------------------------
(***************************************************************************)
(* The map a table of the configuration stands for.                        *)
(***************************************************************************)
ConfigTable(t) == Table(Entry, t)

LEMMA EntriesOf ==
  ASSUME NEW t, ConfigTable(t)
  PROVE  /\ Len(t) \in Nat /\ KeysOf(t) \subseteq Keys
         /\ \A i \in 1 .. Len(t) : t[i] \in Entry /\ t[i].key \in Keys /\ t[i].value \in Values
<1>1. t \in Seq(Entry)
  BY DEF ConfigTable, Table
<1>2. Len(t) \in Nat /\ \A i \in 1 .. Len(t) : t[i] \in Entry
  BY <1>1, LenProperties, ElementOfSeq
<1> QED BY <1>2 DEF Entry, KeysOf

LEMMA MapAt ==
  ASSUME NEW t, ConfigTable(t), NEW i \in 1 .. Len(t)
  PROVE  MapOf(t)[t[i].key] = t[i].value
<1>1. t[i].key \in Keys /\ t[i].key \in KeysOf(t)
  BY EntriesOf DEF KeysOf
<1>2. \A j \in 1 .. Len(t) : t[j].key = t[i].key => j = i
  BY DEF ConfigTable, Table, Unique
<1>3. (CHOOSE j \in 1 .. Len(t) : t[j].key = t[i].key) = i
  BY <1>2
<1> QED BY <1>1, <1>3 DEF MapOf

LEMMA MapNone ==
  ASSUME NEW t, NEW k \in Keys, k \notin KeysOf(t)
  PROVE  MapOf(t)[k] = Absent
  BY DEF MapOf

LEMMA MapType ==
  ASSUME NEW t, ConfigTable(t)
  PROVE  /\ MapOf(t) \in AbstractMap!Map /\ MapOf(t) = [k \in Keys |-> MapOf(t)[k]]
         /\ \A k \in KeysOf(t) : MapOf(t)[k] \in Values
<1>1. ASSUME NEW k \in KeysOf(t) PROVE MapOf(t)[k] \in Values
  <2>1. PICK i \in 1 .. Len(t) : t[i].key = k
    BY DEF KeysOf
  <2> QED BY <2>1, MapAt, EntriesOf
<1>2. ASSUME NEW k \in Keys PROVE MapOf(t)[k] \in Values \cup {Absent}
  BY <1>1, MapNone
<1>3. MapOf(t) = [k \in Keys |-> MapOf(t)[k]]
  BY DEF MapOf
<1> QED BY <1>1, <1>2, <1>3 DEF AbstractMap!Map

\* A value assigned to a key, if the table has it.
LEMMA AssignIs ==
  ASSUME NEW t, ConfigTable(t), NEW k \in Keys, NEW v \in Values
  PROVE  /\ ConfigTable(Assign(t, k, v))
         /\ MapOf(Assign(t, k, v))
              = [MapOf(t) EXCEPT ![k] = IF @ = Absent THEN Absent ELSE v]
<1> DEFINE r == Assign(t, k, v)
<1>1. /\ r = [i \in 1 .. Len(t) |-> r[i]]
      /\ \A i \in 1 .. Len(t) :
           r[i] = IF t[i].key = k THEN [t[i] EXCEPT !.value = v] ELSE t[i]
  BY DEF Assign
<1> HIDE DEF r
<1>2. \A i \in 1 .. Len(t) :
        /\ r[i] \in Entry /\ r[i].key = t[i].key
        /\ r[i].value = IF t[i].key = k THEN v ELSE t[i].value
  BY <1>1, EntriesOf DEF Entry
<1>3. ConfigTable(r) /\ Len(r) = Len(t) /\ KeysOf(r) = KeysOf(t)
  <2>1. r \in [1 .. Len(t) -> Entry]
    BY <1>1, <1>2
  <2> QED BY <1>2, <2>1, SameKeys DEF ConfigTable
<1>4. ASSUME NEW l \in Keys
      PROVE  MapOf(r)[l] = IF l = k /\ MapOf(t)[l] # Absent THEN v ELSE MapOf(t)[l]
  <2>1. CASE l \in KeysOf(t)
    <3>1. PICK i \in 1 .. Len(t) : t[i].key = l
      BY <2>1 DEF KeysOf
    <3>2. MapOf(t)[l] = t[i].value /\ MapOf(r)[l] = r[i].value
      BY <1>2, <1>3, <3>1, MapAt
    <3>3. MapOf(t)[l] # Absent
      BY <2>1, MapType, ConfigAssumption
    <3> QED BY <1>2, <3>1, <3>2, <3>3
  <2>2. CASE l \notin KeysOf(t)
    BY <1>3, <2>2, MapNone
  <2> QED BY <2>1, <2>2
<1>5. MapOf(r) = [MapOf(t) EXCEPT ![k] = IF @ = Absent THEN Absent ELSE v]
  <2> DEFINE a == MapOf(r)
             b == MapOf(t)
  <2>1. a = [l \in Keys |-> a[l]] /\ b = [l \in Keys |-> b[l]]
    BY <1>3, MapType
  <2>2. \A l \in Keys : a[l] = IF l = k /\ b[l] # Absent THEN v ELSE b[l]
    BY <1>4
  <2> HIDE DEF a, b
  <2>3. a = [b EXCEPT ![k] = IF @ = Absent THEN Absent ELSE v]
    BY <2>1, <2>2
  <2> QED BY <2>3 DEF a, b
<1> QED BY <1>3, <1>5 DEF r

\* A new key at the end.
LEMMA AppendIs ==
  ASSUME NEW t, ConfigTable(t), NEW k \in Keys, k \notin KeysOf(t), NEW v \in Values
  PROVE  LET r == Append(t, [key |-> k, value |-> v])
         IN  ConfigTable(r) /\ MapOf(r) = [MapOf(t) EXCEPT ![k] = v]
<1> DEFINE e == [key |-> k, value |-> v]
           r == Append(t, e)
           n == Len(t)
<1>1. t \in Seq(Entry) /\ n \in Nat /\ e \in Entry /\ e.key = k /\ e.value = v
  BY EntriesOf DEF ConfigTable, Table, Entry
<1> HIDE DEF e
<1>2. /\ r \in Seq(Entry) /\ Len(r) = n + 1 /\ r[n + 1] = e
      /\ \A i \in 1 .. n : r[i] = t[i]
  BY <1>1, AppendProperties
<1> HIDE DEF r
<1>3. \A i \in 1 .. n : t[i].key # k
  BY DEF KeysOf
<1>4. \A i \in 1 .. n + 1 : i \in 1 .. n \/ i = n + 1
  BY <1>1
<1>5. ConfigTable(r)
  BY <1>1, <1>2, <1>3, <1>4 DEF ConfigTable, Table, Unique
<1>6. ASSUME NEW l \in Keys PROVE MapOf(r)[l] = IF l = k THEN v ELSE MapOf(t)[l]
  <2>1. CASE l = k
    BY <1>1, <1>2, <1>5, <2>1, MapAt
  <2>2. CASE l # k /\ l \in KeysOf(t)
    <3>1. PICK i \in 1 .. n : t[i].key = l
      BY <2>2 DEF KeysOf
    <3>2. i \in 1 .. Len(r) /\ r[i] = t[i]
      BY <1>1, <1>2
    <3> QED BY <1>5, <2>2, <3>1, <3>2, MapAt
  <2>3. CASE l # k /\ l \notin KeysOf(t)
    <3>1. l \notin KeysOf(r)
      BY <1>1, <1>2, <1>4, <2>3 DEF KeysOf
    <3> QED BY <2>3, <3>1, MapNone
  <2> QED BY <2>1, <2>2, <2>3
<1>7. MapOf(r) = [MapOf(t) EXCEPT ![k] = v]
  <2> DEFINE a == MapOf(r)
             b == MapOf(t)
  <2>1. a = [l \in Keys |-> a[l]] /\ b = [l \in Keys |-> b[l]]
    BY <1>5, MapType
  <2>2. \A l \in Keys : a[l] = IF l = k THEN v ELSE b[l]
    BY <1>6
  <2> HIDE DEF a, b
  <2>3. a = [b EXCEPT ![k] = v]
    BY <2>1, <2>2
  <2> QED BY <2>3 DEF a, b
<1> QED BY <1>5, <1>7 DEF r, e

\* A command makes of the table a table that stands for what it makes of the
\* map.
LEMMA CommandIs ==
  ASSUME ConfigTable(items), NEW c \in Commands
  PROVE  ConfigTable(process_cmd(c)) /\ MapOf(process_cmd(c)) \in AbstractMap!Commanded
<1> DEFINE Set(k, v) == [MapOf(items) EXCEPT ![k] = v]
           Clear(k)  == [MapOf(items) EXCEPT ![k] = IF @ = Absent THEN Absent ELSE Blank]
<1>1. /\ \A k \in Keys, v \in Values : Set(k, v) \in AbstractMap!Commanded
      /\ \A k \in Keys : Clear(k) \in AbstractMap!Commanded
  BY DEF AbstractMap!Commanded
<1>2. CASE c.verb = "clear"
  <2>1. c.key \in Keys /\ process_cmd(c) = Assign(items, c.key, Blank)
    BY <1>2 DEF Commands, process_cmd
  <2> QED BY <1>1, <2>1, AssignIs, ConfigAssumption
<1>3. CASE c.verb # "clear"
  <2>1. c.key \in Keys /\ c.value \in Values
    BY <1>3 DEF Commands
  <2>2. CASE c.key \in KeysOf(items)
    <3>1. process_cmd(c) = Assign(items, c.key, c.value)
      BY <1>3, <2>2 DEF process_cmd
    <3>2. MapOf(items)[c.key] # Absent
      BY <2>2, MapType, ConfigAssumption
    <3>3. MapOf(process_cmd(c))
            = [MapOf(items) EXCEPT ![c.key] = IF @ = Absent THEN Absent ELSE c.value]
      BY <2>1, <3>1, AssignIs
    <3>4. MapOf(process_cmd(c)) = Set(c.key, c.value)
      BY <3>2, <3>3
    <3> QED BY <1>1, <2>1, <3>1, <3>4, AssignIs
  <2>3. CASE c.key \notin KeysOf(items)
    <3>1. process_cmd(c) = Append(items, [key |-> c.key, value |-> c.value])
      BY <1>3, <2>3 DEF process_cmd
    <3>2. ConfigTable(process_cmd(c)) /\ MapOf(process_cmd(c)) = Set(c.key, c.value)
      BY <2>1, <2>3, <3>1, AppendIs
    <3> QED BY <1>1, <2>1, <3>2
  <2> QED BY <2>2, <2>3
<1> QED BY <1>2, <1>3

\* The first entries of a table.
LEMMA FrontIs ==
  ASSUME NEW t, ConfigTable(t), NEW n \in 1 .. Len(t)
  PROVE  /\ ConfigTable(SubSeq(t, 1, n)) /\ Len(SubSeq(t, 1, n)) = n
         /\ \A k \in Keys : MapOf(SubSeq(t, 1, n))[k] \in {MapOf(t)[k], Absent}
<1> DEFINE r == SubSeq(t, 1, n)
<1>1. Len(t) \in Nat /\ n \in Int /\ n >= 1 /\ \A i \in 1 .. n : i \in 1 .. Len(t) /\ t[i] \in Entry
  BY EntriesOf
<1>2. r \in Seq(Entry) /\ Len(r) = n /\ \A i \in 1 .. n : r[i] = t[i]
  <2>1. /\ r \in Seq(Entry) /\ Len(r) = IF 1 <= n THEN n - 1 + 1 ELSE 0
        /\ \A i \in 1 .. n - 1 + 1 : r[i] = t[1 + i - 1]
    BY <1>1, SubSeqProperties
  <2>2. n - 1 + 1 = n /\ \A i \in 1 .. n : 1 + i - 1 = i
    BY <1>1
  <2> HIDE DEF r
  <2> QED BY <1>1, <2>1, <2>2
<1> HIDE DEF r
<1>3. ConfigTable(r)
  BY <1>1, <1>2 DEF ConfigTable, Table, Unique
<1>4. ASSUME NEW k \in Keys PROVE MapOf(r)[k] \in {MapOf(t)[k], Absent}
  <2>1. CASE k \in KeysOf(r)
    <3>1. PICK i \in 1 .. n : r[i].key = k
      BY <1>2, <2>1 DEF KeysOf
    <3>2. MapOf(r)[k] = r[i].value
      BY <1>2, <1>3, <3>1, MapAt
    <3>3. MapOf(t)[k] = t[i].value
      BY <1>1, <1>2, <3>1, MapAt
    <3> QED BY <1>2, <3>1, <3>2, <3>3
  <2>2. CASE k \notin KeysOf(r)
    BY <2>2, MapNone
  <2> QED BY <2>1, <2>2
<1> QED BY <1>2, <1>3, <1>4 DEF r

\* What a save cut short leaves has lost keys or values and made up none.
LEMMA TornIs ==
  ASSUME NEW t, ConfigTable(t), NEW r \in Torn(t)
  PROVE  /\ ConfigTable(r)
         /\ \A k \in Keys : MapOf(r)[k] \in {MapOf(t)[k], Absent, Blank}
<1>1. CASE r = <<>>
  <2>1. <<>> \in Seq(Entry) /\ Len(<<>>) = 0
    BY EmptySeq
  <2>2. ConfigTable(r) /\ KeysOf(r) = {}
    BY <1>1, <2>1 DEF ConfigTable, Table, Unique, KeysOf
  <2> QED BY <2>2, MapNone
<1>2. ASSUME NEW n \in 1 .. Len(t), r = SubSeq(t, 1, n)
      PROVE  /\ ConfigTable(r)
             /\ \A k \in Keys : MapOf(r)[k] \in {MapOf(t)[k], Absent, Blank}
  BY <1>2, FrontIs
<1>3. ASSUME NEW n \in 1 .. Len(t), r = [SubSeq(t, 1, n) EXCEPT ![n].value = Blank]
      PROVE  /\ ConfigTable(r)
             /\ \A k \in Keys : MapOf(r)[k] \in {MapOf(t)[k], Absent, Blank}
  <2> DEFINE f == SubSeq(t, 1, n)
  <2>1. /\ ConfigTable(f) /\ Len(f) = n
        /\ \A k \in Keys : MapOf(f)[k] \in {MapOf(t)[k], Absent}
    BY FrontIs
  <2>2. r = [f EXCEPT ![n].value = Blank] /\ f \in [1 .. n -> Entry]
    BY <1>3, <2>1, LenProperties DEF ConfigTable, Table
  <2> HIDE DEF f
  <2>3. \A i \in 1 .. n : f[i] \in Entry /\ f[i].key \in Keys /\ f[i].value \in Values
    BY <2>1, EntriesOf
  <2>4. /\ r \in [1 .. n -> Entry]
        /\ \A i \in 1 .. n : /\ r[i].key = f[i].key
                             /\ r[i].value = IF i = n THEN Blank ELSE f[i].value
    BY <2>2, <2>3, ConfigAssumption DEF Entry
  <2>5. ConfigTable(r) /\ Len(r) = n /\ KeysOf(r) = KeysOf(f)
    BY <2>1, <2>4, SameKeys DEF ConfigTable
  <2>6. ASSUME NEW k \in Keys PROVE MapOf(r)[k] \in {MapOf(f)[k], Blank}
    <3>1. CASE k \in KeysOf(f)
      <4>1. PICK i \in 1 .. n : f[i].key = k
        BY <2>1, <3>1 DEF KeysOf
      <4>2. MapOf(f)[k] = f[i].value
        BY <2>1, <4>1, MapAt
      <4>3. MapOf(r)[k] = r[i].value
        BY <2>4, <2>5, <4>1, MapAt
      <4> QED BY <2>4, <4>2, <4>3
    <3>2. CASE k \notin KeysOf(f)
      BY <2>5, <3>2, MapNone
    <3> QED BY <3>1, <3>2
  <2> QED BY <2>1, <2>5, <2>6
<1>4. r = <<>> \/ \E n \in 1 .. Len(t) : r = SubSeq(t, 1, n) \/ r = [SubSeq(t, 1, n) EXCEPT ![n].value = Blank]
  BY DEF Torn
<1> QED BY <1>1, <1>2, <1>3, <1>4

\* An announced state gives keys values or clears them.
LEMMA StateIs ==
  ASSUME NEW t, ConfigTable(t), NEW obj \in Announcements, NEW r \in process_state(t, obj)
  PROVE  ConfigTable(r) /\ AbstractMap!Adopts(MapOf(r), MapOf(t))
<1> DEFINE K == {l \in DOMAIN obj : l \notin KeysOf(t) /\ obj[l] # Null}
           s == Merged(t, obj)
<1>1. /\ DOMAIN obj \subseteq Keys
      /\ \A k \in DOMAIN obj : obj[k] # Null => obj[k] \in Values
  <2>1. PICK D \in SUBSET Keys : obj \in [D -> Values \cup {Null}]
    BY DEF Announcements
  <2> QED BY <2>1
<1>2. PICK new \in SetToSeqs(Added(t, obj)) : r = s \o new
  BY DEF process_state
<1>3. ConfigTable(new) /\ KeysOf(new) \cap KeysOf(t) = {}
  <2> DEFINE A == Added(t, obj)
  <2>1. A = {[key |-> k, value |-> obj[k]] : k \in K}
    BY DEF Added
  <2>2. IsFiniteSet(K)
    BY <1>1, ConfigAssumption, FS_Subset
  <2>3. IsFiniteSet(A)
    <3> DEFINE g == [k \in K |-> [key |-> k, value |-> obj[k]]]
    <3>1. g \in [K -> A] /\ \A x \in A : \E k \in K : g[k] = x
      BY <2>1
    <3> HIDE DEF g, K, A
    <3>2. g \in Surjection(K, A)
      BY <3>1 DEF Surjection
    <3> QED BY <2>2, <3>2, FS_Surjection
  <2>4. /\ A \subseteq Entry /\ \A x, y \in A : x.key = y.key => x = y
        /\ {x.key : x \in A} \cap KeysOf(t) = {}
    BY <1>1, <2>1 DEF Entry
  <2>5. new \in SetToSeqs(A)
    OBVIOUS
  <2> HIDE DEF A
  <2> QED BY <2>3, <2>4, <2>5, NewEntries DEF ConfigTable
<1>4. /\ s = [i \in 1 .. Len(t) |-> s[i]]
      /\ \A i \in 1 .. Len(t) :
           s[i] = IF t[i].key \notin DOMAIN obj THEN t[i]
                  ELSE [key |-> t[i].key,
                        value |-> IF obj[t[i].key] = Null THEN Blank ELSE obj[t[i].key]]
  BY DEF Merged
<1>5. \A i \in 1 .. Len(t) :
        /\ s[i] \in Entry /\ s[i].key = t[i].key
        /\ s[i].value \in Values
  <2> HIDE DEF s
  <2> QED BY <1>1, <1>4, EntriesOf, ConfigAssumption DEF Entry
<1>6. ConfigTable(s) /\ Len(s) = Len(t) /\ KeysOf(s) = KeysOf(t)
  <2> HIDE DEF s
  <2>1. s \in [1 .. Len(t) -> Entry]
    BY <1>4, <1>5
  <2> QED BY <1>5, <2>1, SameKeys DEF ConfigTable
<1>7. KeysOf(s) \cap KeysOf(new) = {}
  BY <1>3, <1>6
<1> HIDE DEF s
<1>8. ConfigTable(r) /\ KeysOf(r) = KeysOf(s) \cup KeysOf(new)
  BY <1>2, <1>3, <1>6, <1>7, JoinTables DEF ConfigTable
<1>9. ASSUME NEW k \in Keys PROVE MapOf(r)[k] \in Values \cup {MapOf(t)[k]}
  <2>1. CASE k \in KeysOf(r)
    BY <1>8, <2>1, MapType
  <2>2. CASE k \notin KeysOf(r)
    <3>1. k \notin KeysOf(t)
      BY <1>6, <1>8, <2>2
    <3> QED BY <2>2, <3>1, MapNone
  <2> QED BY <2>1, <2>2
<1>10. MapOf(r) \in AbstractMap!Map
  BY <1>8, MapType
<1> QED BY <1>8, <1>9, <1>10 DEF AbstractMap!Adopts
-----------------------------------------------------------------------------
(***************************************************************************)
(* The configuration under the messages and the restarts.                  *)
(***************************************************************************)
ConfigInv == ConfigTable(items) /\ ConfigTable(file)

LEMMA EmptyTable ==
  ASSUME NEW S
  PROVE  Table(S, <<>>) /\ KeysOf(<<>>) = {} /\ Len(<<>>) = 0
<1>1. <<>> \in Seq(S) /\ Len(<<>>) = 0
  BY EmptySeq
<1> QED BY <1>1 DEF Table, Unique, KeysOf

\* The parts of a message that are there.
LEMMA PartsOf ==
  ASSUME NEW m \in Messages
  PROVE  /\ m.sources # {} => \E d \in Devices \cup {Anyone} : m.sources = {d}
         /\ m.cmd # {} => \E c \in Commands : m.cmd = {c}
         /\ m.config # {} => \E obj \in Announcements : m.config = {obj}
         /\ m.calibrations # {} => \E obj \in Calibrations : m.calibrations = {obj}
<1>1. m \in [sources : AtMostOne(Devices \cup {Anyone}), cmd : AtMostOne(Commands),
             config : AtMostOne(Announcements), calibrations : AtMostOne(Calibrations)]
  BY DEF Messages
<1>2. /\ m.sources \in AtMostOne(Devices \cup {Anyone}) /\ m.cmd \in AtMostOne(Commands)
      /\ m.config \in AtMostOne(Announcements)
      /\ m.calibrations \in AtMostOne(Calibrations)
  BY <1>1
<1>3. ASSUME NEW S, NEW x \in AtMostOne(S), x # {} PROVE \E y \in S : x = {y}
  BY <1>3 DEF AtMostOne
<1> QED BY <1>2, <1>3

\* The two parts of a message for the configuration are a message to the map.
LEMMA MessageMaps ==
  ASSUME ConfigInv, NEW m \in Messages, ConfigPart(m)
  PROVE  ConfigInv' /\ AbstractMap!Message
<1> DEFINE T == AfterCmd(m)
<1>1. /\ ConfigTable(T)
      /\ m.cmd = {} => T = items
      /\ m.cmd # {} => MapOf(T) \in AbstractMap!Commanded
  <2>1. CASE m.cmd = {}
    BY <2>1 DEF AfterCmd, ConfigInv
  <2>2. CASE m.cmd # {}
    <3>1. PICK c \in Commands : m.cmd = {c}
      BY <2>2, PartsOf
    <3>2. T = process_cmd(c)
      BY <3>1 DEF AfterCmd
    <3>3. ConfigTable(process_cmd(c)) /\ MapOf(process_cmd(c)) \in AbstractMap!Commanded
      BY CommandIs DEF ConfigInv
    <3> QED BY <2>2, <3>2, <3>3
  <2> QED BY <2>1, <2>2
<1>2. ConfigTable(items') /\ AbstractMap!Adopts(MapOf(items'), MapOf(T))
  <2>1. items' \in AfterConfig(m)
    BY DEF ConfigPart
  <2>2. CASE m.config = {}
    <3>1. items' = T
      BY <2>1, <2>2 DEF AfterConfig
    <3>2. MapOf(T) \in AbstractMap!Map
      BY <1>1, MapType
    <3> QED BY <1>1, <3>1, <3>2 DEF AbstractMap!Adopts
  <2>3. CASE m.config # {}
    <3>1. PICK obj \in Announcements : m.config = {obj}
      BY <2>3, PartsOf
    <3>2. items' \in process_state(T, obj)
      BY <2>1, <3>1 DEF AfterConfig
    <3> QED BY <1>1, <3>2, StateIs
  <2> QED BY <2>2, <2>3
<1>3. CASE m.cmd = {}
  <2>1. file' = file
    BY <1>3 DEF ConfigPart
  <2>2. AbstractMap!Adopts(MapOf(items'), MapOf(items)) /\ MapOf(file') = MapOf(file)
    BY <1>1, <1>2, <1>3, <2>1
  <2> QED BY <1>2, <2>1, <2>2 DEF ConfigInv, AbstractMap!Message
<1>4. CASE m.cmd # {}
  <2>1. file' \in {file, T} \cup Torn(T)
    BY <1>4 DEF ConfigPart, save_config
  <2> HIDE DEF T
  <2>2. ConfigTable(file') /\ AbstractMap!Copy(MapOf(file'), MapOf(T))
    <3>1. CASE file' \in {file, T}
      BY <1>1, <3>1 DEF ConfigInv, AbstractMap!Copy
    <3>2. CASE file' \in Torn(T)
      <4>1. /\ ConfigTable(file')
            /\ \A k \in Keys : MapOf(file')[k] \in {MapOf(T)[k], Absent, Blank}
        BY <1>1, <3>2, TornIs
      <4>2. MapOf(file') \in AbstractMap!Map
        BY <4>1, MapType
      <4> QED BY <4>1, <4>2 DEF AbstractMap!Copy
    <3> QED BY <2>1, <3>1, <3>2
  <2>3. AbstractMap!Message
    BY <1>1, <1>2, <1>4, <2>2 DEF AbstractMap!Message
  <2> QED BY <1>2, <2>2, <2>3 DEF ConfigInv
<1> QED BY <1>3, <1>4

\* Initially the tables and the maps are empty.
LEMMA ConfigStarts ==
  ASSUME Init
  PROVE  ConfigInv /\ AbstractMap!Init
<1>1. items = <<>> /\ file = <<>>
  BY DEF Init, ConfigInit
<1>2. ConfigTable(<<>>) /\ KeysOf(<<>>) = {}
  BY EmptyTable DEF ConfigTable
<1>3. \A k \in Keys : MapOf(<<>>)[k] = Absent
  BY <1>2, MapNone
<1>4. MapOf(<<>>) = [k \in Keys |-> Absent]
  BY <1>2, <1>3, MapType
<1> QED BY <1>1, <1>2, <1>4 DEF ConfigInv, AbstractMap!Init

\* Every step keeps the tables and is a step of the map.
LEMMA ConfigSteps ==
  ASSUME ConfigInv, [Next]_vars
  PROVE  ConfigInv' /\ [AbstractMap!Next]_(AbstractMap!vars)
<1>1. ASSUME NEW m \in Messages, process_inbound_message(m)
      PROVE  ConfigInv' /\ AbstractMap!Next
  BY <1>1, MessageMaps DEF process_inbound_message, AbstractMap!Next
<1>2. CASE Restart
  <2>1. items' = file /\ file' = file
    BY <1>2 DEF Restart, Start, init_config
  <2> QED BY <2>1 DEF ConfigInv, AbstractMap!Next, AbstractMap!Restart
<1>3. CASE UNCHANGED vars
  BY <1>3 DEF ConfigInv, vars, config_vars, AbstractMap!vars
<1> QED BY <1>1, <1>2, <1>3 DEF Next

LEMMA ConfigKept == Spec => []ConfigInv
<1>1. Init => ConfigInv
  BY ConfigStarts
<1>2. ConfigInv /\ [Next]_vars => ConfigInv'
  BY ConfigSteps
<1> QED BY <1>1, <1>2, PTL DEF Spec

\* No key ever has two entries, in the table or in its file.
THEOREM ConfigUnique == Spec => []UniqueKeys
<1>1. ConfigInv => UniqueKeys
  BY DEF ConfigInv, ConfigTable, Table, UniqueKeys
<1> QED BY <1>1, ConfigKept, PTL

\* The configuration and its file are what ConfigMap promises: a map, and a
\* copy of it that may be older or have lost keys or values, but never holds
\* a value that its key was not given.
THEOREM ConfigIsMap == Spec => MapSpec
<1>1. Init => AbstractMap!Init
  BY ConfigStarts
<1>2. ConfigInv /\ [Next]_vars => [AbstractMap!Next]_(AbstractMap!vars)
  BY ConfigSteps
<1> QED BY <1>1, <1>2, ConfigKept, PTL DEF Spec, MapSpec, AbstractMap!Spec
-----------------------------------------------------------------------------
(***************************************************************************)
(* The calibrations.                                                       *)
(***************************************************************************)
Amounts == Numbers \cup {Nulled}

\* What an entry holds when given is all that was said of its key.
Says(member, given) ==
  \A m \in Members : member[m] = IF m \in DOMAIN given THEN given[m] ELSE Zero

CalibInv ==
  /\ Table(CalibItem, calib)
  /\ KeysOf(calib) = DOMAIN announced
  /\ announced \in Calibrations
  /\ \A i \in 1 .. Len(calib) : Says(calib[i].member, announced[calib[i].key])

LEMMA GivenIs ==
  ASSUME NEW g
  PROVE  g \in Given <=> /\ g = [x \in DOMAIN g |-> g[x]] /\ DOMAIN g \subseteq Members
                         /\ \A x \in DOMAIN g : g[x] \in Amounts
  BY DEF Given, Amounts

LEMMA CalibrationsAre ==
  ASSUME NEW obj
  PROVE  obj \in Calibrations <=> /\ obj = [k \in DOMAIN obj |-> obj[k]]
                                  /\ DOMAIN obj \subseteq CalibKeys
                                  /\ \A k \in DOMAIN obj : obj[k] \in Given
  BY DEF Calibrations

\* What is given goes over what was said before.
LEMMA OverIs ==
  ASSUME NEW g \in Given, NEW h \in Given
  PROVE  Over(g, h) \in Given
<1>1. /\ DOMAIN g \subseteq Members /\ \A x \in DOMAIN g : g[x] \in Amounts
      /\ DOMAIN h \subseteq Members /\ \A x \in DOMAIN h : h[x] \in Amounts
  BY GivenIs
<1>2. /\ Over(g, h) = [x \in DOMAIN Over(g, h) |-> Over(g, h)[x]]
      /\ DOMAIN Over(g, h) \subseteq Members
      /\ \A x \in DOMAIN Over(g, h) : Over(g, h)[x] \in Amounts
  BY <1>1 DEF Over
<1> QED BY <1>2, GivenIs

\* And over what the entry holds.
LEMMA CopyIs ==
  ASSUME NEW g \in Given, NEW e \in [Members -> Amounts]
  PROVE  /\ copy_calib_values(g, e) \in [Members -> Amounts]
         /\ (\A m \in Members : e[m] = Zero) => Says(copy_calib_values(g, e), g)
         /\ \A h \in Given : Says(e, h) => Says(copy_calib_values(g, e), Over(g, h))
<1>1. /\ DOMAIN g \subseteq Members /\ \A x \in DOMAIN g : g[x] \in Amounts
  BY GivenIs
<1>2. /\ copy_calib_values(g, e) \in [Members -> Amounts]
      /\ \A m \in Members :
           copy_calib_values(g, e)[m] = IF m \in DOMAIN g THEN g[m] ELSE e[m]
  BY <1>1 DEF copy_calib_values, Over
<1>3. (\A m \in Members : e[m] = Zero) => Says(copy_calib_values(g, e), g)
  BY <1>2 DEF Says
<1>4. ASSUME NEW h \in Given, Says(e, h)
      PROVE  Says(copy_calib_values(g, e), Over(g, h))
  <2>1. /\ DOMAIN Over(g, h) = DOMAIN g \cup DOMAIN h
        /\ \A m \in DOMAIN Over(g, h) : Over(g, h)[m] = IF m \in DOMAIN g THEN g[m] ELSE h[m]
    BY DEF Over
  <2>2. \A m \in Members : e[m] = IF m \in DOMAIN h THEN h[m] ELSE Zero
    BY <1>4 DEF Says
  <2> QED BY <1>2, <2>1, <2>2 DEF Says
<1> QED BY <1>2, <1>3, <1>4

LEMMA CalibEntries ==
  ASSUME NEW t, Table(CalibItem, t)
  PROVE  /\ Len(t) \in Nat /\ KeysOf(t) \subseteq CalibKeys
         /\ \A i \in 1 .. Len(t) : /\ t[i] \in CalibItem /\ t[i].key \in KeysOf(t)
                                   /\ t[i].key \in CalibKeys
                                   /\ t[i].member \in [Members -> Amounts]
<1>1. t \in Seq(CalibItem)
  BY DEF Table
<1>2. Len(t) \in Nat /\ \A i \in 1 .. Len(t) : t[i] \in CalibItem
  BY <1>1, LenProperties, ElementOfSeq
<1>3. \A x \in CalibItem : x.key \in CalibKeys /\ x.member \in [Members -> Amounts]
  BY DEF CalibItem, Amounts
<1> QED BY <1>2, <1>3 DEF KeysOf

\* The entry of a new key.
LEMMA NewItemIs ==
  ASSUME NEW k \in CalibKeys, NEW g \in Given
  PROVE  /\ NewItem(k, g) \in CalibItem /\ NewItem(k, g).key = k
         /\ Says(NewItem(k, g).member, g)
<1> DEFINE e == [m \in Members |-> Zero]
<1>1. e \in [Members -> Amounts] /\ \A m \in Members : e[m] = Zero
  BY CalibAssumption DEF Amounts
<1>2. NewItem(k, g) = [key |-> k, member |-> copy_calib_values(g, e)]
  BY DEF NewItem
<1> HIDE DEF e
<1>3. copy_calib_values(g, e) \in [Members -> Amounts] /\ Says(copy_calib_values(g, e), g)
  BY <1>1, CopyIs
<1> QED BY <1>2, <1>3 DEF CalibItem, Amounts

\* What was announced, with obj.
LEMMA AnnouncedIs ==
  ASSUME announced \in Calibrations, NEW obj \in Calibrations, process_calib_state(obj)
  PROVE  /\ announced' \in Calibrations /\ DOMAIN announced' = DOMAIN announced \cup DOMAIN obj
         /\ \A k \in DOMAIN announced' :
              announced'[k] = IF k \notin DOMAIN obj THEN announced[k]
                              ELSE IF k \notin DOMAIN announced THEN obj[k]
                              ELSE Over(obj[k], announced[k])
<1>1. /\ DOMAIN announced \subseteq CalibKeys /\ \A k \in DOMAIN announced : announced[k] \in Given
      /\ DOMAIN obj \subseteq CalibKeys /\ \A k \in DOMAIN obj : obj[k] \in Given
  BY CalibrationsAre
<1>2. /\ announced' = [k \in DOMAIN announced' |-> announced'[k]]
      /\ DOMAIN announced' = DOMAIN announced \cup DOMAIN obj
      /\ \A k \in DOMAIN announced' :
           announced'[k] = IF k \notin DOMAIN obj THEN announced[k]
                           ELSE IF k \notin DOMAIN announced THEN obj[k]
                           ELSE Over(obj[k], announced[k])
  BY DEF process_calib_state
<1>3. ASSUME NEW k \in DOMAIN announced' PROVE announced'[k] \in Given
  <2>1. CASE k \in DOMAIN obj /\ k \in DOMAIN announced
    <3>1. Over(obj[k], announced[k]) \in Given
      BY <1>1, <2>1, OverIs
    <3> QED BY <1>2, <2>1, <3>1
  <2>2. CASE k \notin DOMAIN obj \/ k \notin DOMAIN announced
    BY <1>1, <1>2, <2>2
  <2> QED BY <2>1, <2>2
<1> QED BY <1>1, <1>2, <1>3, CalibrationsAre

\* The calibrations keep what was announced when obj is announced.
LEMMA CalibAnnounces ==
  ASSUME CalibInv, NEW obj \in Calibrations, process_calib_state(obj)
  PROVE  CalibInv'
<1> DEFINE K == DOMAIN obj \ KeysOf(calib)
           E == {NewItem(k, obj[k]) : k \in K}
           found == [i \in 1 .. Len(calib) |->
                       IF calib[i].key \notin DOMAIN obj THEN calib[i]
                       ELSE [calib[i] EXCEPT !.member = copy_calib_values(obj[calib[i].key], @)]]
<1>1. /\ DOMAIN announced = KeysOf(calib)
      /\ \A k \in DOMAIN announced : announced[k] \in Given
      /\ DOMAIN obj \subseteq CalibKeys /\ \A k \in DOMAIN obj : obj[k] \in Given
  BY CalibrationsAre DEF CalibInv
<1>2. /\ announced' \in Calibrations /\ DOMAIN announced' = DOMAIN announced \cup DOMAIN obj
      /\ \A k \in DOMAIN announced' :
           announced'[k] = IF k \notin DOMAIN obj THEN announced[k]
                           ELSE IF k \notin DOMAIN announced THEN obj[k]
                           ELSE Over(obj[k], announced[k])
  BY AnnouncedIs DEF CalibInv
<1>3. /\ Len(calib) \in Nat
      /\ \A i \in 1 .. Len(calib) : /\ calib[i] \in CalibItem /\ calib[i].key \in KeysOf(calib)
                                    /\ calib[i].key \in CalibKeys
                                    /\ calib[i].member \in [Members -> Amounts]
  BY CalibEntries DEF CalibInv
<1>4. PICK new \in SetToSeqs(E) : calib' = found \o new
  <2>1. \E new \in SetToSeqs({NewItem(k, obj[k]) :
                 k \in DOMAIN obj \ {calib[i].key : i \in 1 .. Len(calib)}}) :
          calib' = found \o new
    BY DEF process_calib_state
  <2>2. {calib[i].key : i \in 1 .. Len(calib)} = KeysOf(calib)
    BY DEF KeysOf
  <2> QED BY <2>1, <2>2
<1>5. ASSUME NEW i \in 1 .. Len(calib)
      PROVE  /\ found[i] \in CalibItem /\ found[i].key = calib[i].key
             /\ Says(found[i].member, announced'[calib[i].key])
  <2> DEFINE k == calib[i].key
             e == calib[i].member
  <2>1. /\ calib[i] \in CalibItem /\ k \in CalibKeys /\ e \in [Members -> Amounts]
        /\ k \in DOMAIN announced /\ k \in DOMAIN announced' /\ announced[k] \in Given
        /\ Says(e, announced[k])
    BY <1>1, <1>2, <1>3 DEF CalibInv
  <2>2. CASE k \notin DOMAIN obj
    BY <1>2, <2>1, <2>2
  <2>3. CASE k \in DOMAIN obj
    <3>1. found[i] = [calib[i] EXCEPT !.member = copy_calib_values(obj[k], e)]
      BY <2>3
    <3>2. /\ copy_calib_values(obj[k], e) \in [Members -> Amounts]
          /\ Says(copy_calib_values(obj[k], e), Over(obj[k], announced[k]))
      BY <1>1, <2>1, <2>3, CopyIs
    <3>3. announced'[k] = Over(obj[k], announced[k])
      BY <1>2, <2>1, <2>3
    <3> HIDE DEF found
    <3>4. \A c \in [Members -> Amounts] :
            LET x == [calib[i] EXCEPT !.member = c]
            IN  x \in CalibItem /\ x.key = k /\ x.member = c
      BY <2>1 DEF CalibItem, Amounts
    <3> QED BY <3>1, <3>2, <3>3, <3>4
  <2> QED BY <2>2, <2>3
<1>6. Table(CalibItem, found) /\ Len(found) = Len(calib) /\ KeysOf(found) = KeysOf(calib)
  <2>1. found = [i \in 1 .. Len(calib) |-> found[i]]
    OBVIOUS
  <2> HIDE DEF found
  <2>2. found \in [1 .. Len(calib) -> CalibItem]
    BY <1>5, <2>1
  <2> QED BY <1>5, <2>2, SameKeys DEF CalibInv
<1>7. ASSUME NEW x \in E
      PROVE  x \in CalibItem /\ x.key \in K /\ x = NewItem(x.key, obj[x.key])
             /\ Says(x.member, announced'[x.key])
  <2>1. PICK k \in K : x = NewItem(k, obj[k])
    OBVIOUS
  <2>2. k \in CalibKeys /\ obj[k] \in Given /\ announced'[k] = obj[k]
    BY <1>1, <1>2
  <2> QED BY <2>1, <2>2, NewItemIs
<1>8. IsFiniteSet(E)
  <2>1. IsFiniteSet(K)
    BY <1>1, CalibAssumption, FS_Subset
  <2> DEFINE g == [k \in K |-> NewItem(k, obj[k])]
  <2>2. g \in [K -> E] /\ \A x \in E : \E k \in K : g[k] = x
    OBVIOUS
  <2> HIDE DEF g, K, E
  <2>3. g \in Surjection(K, E)
    BY <2>2 DEF Surjection
  <2> QED BY <2>1, <2>3, FS_Surjection
<1>9. {x.key : x \in E} = K
  <2>1. \A k \in K : NewItem(k, obj[k]).key = k
    BY <1>1, NewItemIs
  <2> QED BY <1>7, <2>1
<1>10. /\ Table(CalibItem, new) /\ KeysOf(new) = K
       /\ \A i \in 1 .. Len(new) : new[i] \in E
  <2>1. E \subseteq CalibItem /\ \A x, y \in E : x.key = y.key => x = y
    BY <1>7
  <2> HIDE DEF E
  <2> QED BY <1>4, <1>8, <1>9, <2>1, NewEntries
<1> HIDE DEF found, E
<1>11. /\ Table(CalibItem, calib') /\ KeysOf(calib') = KeysOf(found) \cup KeysOf(new)
       /\ \A i \in 1 .. Len(calib') : \/ \E j \in 1 .. Len(found) : calib'[i] = found[j]
                                      \/ \E j \in 1 .. Len(new) : calib'[i] = new[j]
  <2>1. KeysOf(found) \cap KeysOf(new) = {}
    BY <1>6, <1>10
  <2> QED BY <1>4, <1>6, <1>10, <2>1, JoinTables
<1>12. KeysOf(calib') = DOMAIN announced'
  BY <1>1, <1>2, <1>6, <1>10, <1>11
<1>13. ASSUME NEW i \in 1 .. Len(calib')
       PROVE  Says(calib'[i].member, announced'[calib'[i].key])
  <2>1. CASE \E j \in 1 .. Len(found) : calib'[i] = found[j]
    BY <1>5, <1>6, <2>1
  <2>2. CASE \E j \in 1 .. Len(new) : calib'[i] = new[j]
    BY <1>7, <1>10, <2>2
  <2> QED BY <1>11, <2>1, <2>2
<1> QED BY <1>2, <1>11, <1>12, <1>13 DEF CalibInv

\* Nothing announced, and an empty table.
LEMMA CalibForgets ==
  ASSUME NEW t, t = <<>>, NEW a, a = Unannounced
  PROVE  /\ Table(CalibItem, t) /\ KeysOf(t) = DOMAIN a /\ a \in Calibrations
         /\ \A i \in 1 .. Len(t) : Says(t[i].member, a[t[i].key])
<1>1. Table(CalibItem, t) /\ KeysOf(t) = {} /\ Len(t) = 0
  BY EmptyTable
<1>2. DOMAIN a = {} /\ a = [k \in DOMAIN a |-> a[k]]
  BY DEF Unannounced
<1>3. a \in Calibrations
  BY <1>2, CalibrationsAre
<1> QED BY <1>1, <1>2, <1>3

LEMMA CalibKept == Spec => []CalibInv
<1>1. Init => CalibInv
  BY CalibForgets DEF Init, CalibInit, CalibInv
<1>2. CalibInv /\ [Next]_vars => CalibInv'
  <2> SUFFICES ASSUME CalibInv, [Next]_vars PROVE CalibInv'
    OBVIOUS
  <2>1. ASSUME NEW m \in Messages, process_inbound_message(m) PROVE CalibInv'
    <3>1. CASE m.calibrations = {}
      BY <2>1, <3>1 DEF process_inbound_message, calib_vars, CalibInv
    <3>2. CASE m.calibrations # {}
      <4>1. PICK obj \in Calibrations : m.calibrations = {obj}
        BY <3>2, PartsOf
      <4>2. process_calib_state(obj)
        BY <2>1, <4>1 DEF process_inbound_message
      <4> QED BY <4>2, CalibAnnounces
    <3> QED BY <3>1, <3>2
  <2>2. CASE Restart
    BY <2>2, CalibForgets DEF Restart, Start, ForgetCalibrations, CalibInv
  <2>3. CASE UNCHANGED vars
    BY <2>3 DEF vars, calib_vars, CalibInv
  <2> QED BY <2>1, <2>2, <2>3 DEF Next
<1> QED BY <1>1, <1>2, PTL DEF Spec

\* The calibrations are what this run was told: one entry for each key, in it
\* the last said of each member.
THEOREM CalibAsAnnounced == Spec => []CalibrationsAnnounced
<1>1. CalibInv => CalibrationsAnnounced
  BY DEF CalibInv, Table, Unique, KeysOf, Says, CalibrationsAnnounced
<1> QED BY <1>1, CalibKept, PTL

\* Every table stays within its array, though no line of the code checks: it
\* has no more entries than there are keys.
THEOREM MessageTypes == Spec => []MessageTypeOK
<1> DEFINE SourcesOK == {sources, sources_file} \subseteq Devices \cup {Anyone}
<1>1. ConfigInv => ConfigTypeOK
  <2>1. ASSUME NEW t, ConfigTable(t) PROVE t \in Seq(Entry) /\ Len(t) <= MaxItems
    <3>1. Len(t) <= Cardinality(Keys) /\ Len(t) \in Nat /\ Cardinality(Keys) \in Nat
      BY <2>1, EntriesOf, TableBound, FS_CardinalityType, ConfigAssumption DEF ConfigTable
    <3> QED BY <2>1, <3>1, ConfigAssumption DEF ConfigTable, Table
  <2> QED BY <2>1 DEF ConfigInv, ConfigTypeOK
<1>2. CalibInv => CalibTypeOK
  <2> SUFFICES ASSUME CalibInv PROVE CalibTypeOK
    OBVIOUS
  <2>1. Table(CalibItem, calib)
    BY DEF CalibInv
  <2>2. /\ Len(calib) <= Cardinality(CalibKeys) /\ Len(calib) \in Nat
        /\ Cardinality(CalibKeys) \in Nat
    BY <2>1, CalibEntries, TableBound, FS_CardinalityType, CalibAssumption
  <2> QED BY <2>1, <2>2, CalibAssumption DEF CalibTypeOK, Table
<1>3. Init => SourcesOK
  BY DEF Init
<1>4. SourcesOK /\ [Next]_vars => SourcesOK'
  <2> SUFFICES ASSUME SourcesOK, [Next]_vars PROVE SourcesOK'
    OBVIOUS
  <2>1. ASSUME NEW m \in Messages, process_inbound_message(m) PROVE SourcesOK'
    <3>1. CASE m.sources = {}
      BY <2>1, <3>1 DEF process_inbound_message, source_vars
    <3>2. CASE m.sources # {}
      BY <2>1, <3>2, PartsOf DEF process_inbound_message, set_nmea_sources
    <3> QED BY <3>1, <3>2
  <2>2. CASE Restart
    BY <2>2 DEF Restart, Start
  <2>3. CASE UNCHANGED vars
    BY <2>3 DEF vars, source_vars
  <2> QED BY <2>1, <2>2, <2>3 DEF Next
<1>5. Spec => []SourcesOK
  BY <1>3, <1>4, PTL DEF Spec
<1>6. ConfigTypeOK /\ CalibTypeOK /\ SourcesOK => MessageTypeOK
  BY DEF MessageTypeOK
<1> HIDE DEF SourcesOK
<1> QED BY <1>1, <1>2, <1>5, <1>6, ConfigKept, CalibKept, PTL
=============================================================================
