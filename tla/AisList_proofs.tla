---------------------------- MODULE AisList_proofs ----------------------------
(***************************************************************************)
(* Proofs about AisList: its types, and that a display that connects late  *)
(* is shown what one that heard every line knows.                          *)
(***************************************************************************)
EXTENDS AisList, SequenceTheorems, FiniteSetTheorems, TLAPS

-----------------------------------------------------------------------------
(***************************************************************************)
(* The inductive invariant.                                                *)
(***************************************************************************)
\* What the fields of a boat are after what was heard of it.
Known(h) == [f \in Fields |-> IF h[f] = Absent THEN Zero ELSE h[f]]

Typed ==
  /\ list \in Seq(Boat)
  /\ heard \in [Vessels -> [Fields -> Values \cup {Absent}]]

\* No vessel has two entries.
OneEntry == \A i, j \in 1 .. Len(list) : list[i].mmsi = list[j].mmsi => i = j

\* An entry is what was heard of its vessel; of a vessel without one nothing
\* was heard.
ListIsHeard ==
  /\ \A i \in 1 .. Len(list) : list[i].data = Known(heard[list[i].mmsi])
  /\ \A m \in Vessels : Entries(m) = {} => heard[m] = [f \in Fields |-> Absent]

ListInv == Typed /\ OneEntry /\ ListIsHeard

\* The fields of a line: some of them, each with a value or none.
Lines == UNION {[F -> Values \cup {Null}] : F \in SUBSET Fields}

LEMMA LineFields ==
  ASSUME NEW fields \in Lines, NEW f \in Fields, f \in DOMAIN fields, fields[f] # Null
  PROVE  fields[f] \in Values
<1>1. PICK F \in SUBSET Fields : fields \in [F -> Values \cup {Null}]
  BY DEF Lines
<1> QED BY <1>1

\* What is heard of a vessel after a line about it.
Hears(h, fields) ==
  [f \in Fields |-> IF f \in DOMAIN fields /\ fields[f] # Null THEN fields[f] ELSE h[f]]

\* A line that updates what is known of a boat makes of it what is known when
\* the line is heard.
LEMMA UpdateIsHeard ==
  ASSUME NEW h \in [Fields -> Values \cup {Absent}], NEW fields \in Lines
  PROVE  /\ Hears(h, fields) \in [Fields -> Values \cup {Absent}]
         /\ Known(h) \in [Fields -> Values]
         /\ update_ais_value(Known(h), fields) = Known(Hears(h, fields))
<1>1. \A f \in Fields : f \in DOMAIN fields /\ fields[f] # Null => fields[f] \in Values
  BY LineFields
<1>2. Hears(h, fields) \in [Fields -> Values \cup {Absent}]
  BY <1>1 DEF Hears
<1>3. Known(h) \in [Fields -> Values]
  BY AisAssumption DEF Known
<1>4. ASSUME NEW f \in Fields
      PROVE  update_ais_value(Known(h), fields)[f] = Known(Hears(h, fields))[f]
  BY <1>1, AisAssumption DEF update_ais_value, Known, Hears
<1>5. update_ais_value(Known(h), fields) = Known(Hears(h, fields))
  BY <1>4 DEF update_ais_value, Known
<1> QED BY <1>2, <1>3, <1>5

\* A line about vessel m.
LEMMA LineKeeps ==
  ASSUME ListInv, NEW m \in Vessels, NEW fields \in Lines, AisLine(m, fields)
  PROVE  ListInv'
<1> DEFINE h == Hears(heard[m], fields)
<1>0. list \in Seq(Boat) /\ Len(list) \in Nat /\ \A i \in 1 .. Len(list) : list[i] \in Boat
  BY LenProperties, ElementOfSeq DEF ListInv, Typed
<1>h. /\ heard \in [Vessels -> [Fields -> Values \cup {Absent}]]
      /\ heard[m] \in [Fields -> Values \cup {Absent}]
  BY DEF ListInv, Typed
<1>1. /\ heard' = [heard EXCEPT ![m] = h]
      /\ h \in [Fields -> Values \cup {Absent}] /\ Known(h) \in [Fields -> Values]
      /\ update_ais_value(Known(heard[m]), fields) = Known(h)
  <2>1. heard' = [heard EXCEPT ![m] = h]
    BY DEF AisLine, Hears
  <2>2. h \in [Fields -> Values \cup {Absent}] /\ update_ais_value(Known(heard[m]), fields) = Known(h)
    BY <1>h, UpdateIsHeard
  <2> HIDE DEF h
  <2>3. Known(h) \in [Fields -> Values]
    BY <2>2, UpdateIsHeard
  <2> QED BY <2>1, <2>2, <2>3
<1> HIDE DEF h
<1>2. /\ heard' \in [Vessels -> [Fields -> Values \cup {Absent}]]
      /\ heard'[m] = h /\ \A n \in Vessels : n # m => heard'[n] = heard[n]
  BY <1>h, <1>1
<1>3. [mmsi |-> m, data |-> Known(h)] \in Boat
  BY <1>1 DEF Boat
\* The list has one entry of the vessel, whose data is what is known of it, and
\* the others as they were.
<1>4. \E i \in 1 .. Len(list) + 1 :
        /\ list' \in Seq(Boat) /\ i \in 1 .. Len(list')
        /\ list'[i] = [mmsi |-> m, data |-> Known(h)]
        /\ Len(list') \in {Len(list), Len(list) + 1}
        /\ \A j \in 1 .. Len(list') : j # i => j \in 1 .. Len(list) /\ list'[j] = list[j]
                                               /\ list[j].mmsi # m
        /\ \A j \in 1 .. Len(list) : j \in 1 .. Len(list')
        /\ i \in 1 .. Len(list) => list[i].mmsi = m
  <2>1. CASE Entries(m) # {}
    <3> DEFINE i == CHOOSE j \in Entries(m) : \A k \in Entries(m) : j <= k
    <3>1. PICK e \in 1 .. Len(list) : list[e].mmsi = m
      BY <2>1 DEF Entries
    <3>2. \A j \in 1 .. Len(list) : list[j].mmsi = m => j = e
      BY <3>1 DEF ListInv, OneEntry
    <3>3. Entries(m) = {e} /\ e <= e
      BY <3>1, <3>2 DEF Entries
    <3>4. i = e
      BY <3>3
    <3>5. list' = [list EXCEPT ![i].data = update_ais_value(@, fields)]
      BY <2>1 DEF AisLine, add_or_update_ais
    <3> HIDE DEF i
    <3> DEFINE b == [list[e] EXCEPT !.data = update_ais_value(list[e].data, fields)]
    <3>6. list' = [list EXCEPT ![e] = b]
      BY <3>4, <3>5
    <3>7. b = [mmsi |-> m, data |-> Known(h)]
      <4>1. list[e].data = Known(heard[m]) /\ list[e] \in Boat
        BY <1>0, <3>1 DEF ListInv, ListIsHeard
      <4> QED BY <1>1, <3>1, <4>1 DEF Boat
    <3> HIDE DEF b
    <3>8. /\ list' \in Seq(Boat) /\ Len(list') = Len(list)
          /\ \A j \in 1 .. Len(list) : list'[j] = IF j = e THEN b ELSE list[j]
      BY <1>0, <1>3, <3>1, <3>6, <3>7, ExceptSeq
    <3> QED BY <1>0, <3>1, <3>2, <3>7, <3>8
  <2>2. CASE Entries(m) = {}
    <3> DEFINE n == Len(list)
               z == [f \in Fields |-> Zero]
               b == [mmsi |-> m, data |-> update_ais_value(z, fields)]
    <3>1. \A j \in 1 .. n : list[j].mmsi # m
      BY <2>2 DEF Entries
    <3>2. z = Known(heard[m])
      BY <2>2 DEF ListInv, ListIsHeard, Known
    <3>3. list' = Append(list, b)
      BY <2>2 DEF AisLine, add_or_update_ais
    <3>4. b = [mmsi |-> m, data |-> Known(h)]
      BY <1>1, <3>2
    <3> HIDE DEF b
    <3>5. /\ list' \in Seq(Boat) /\ Len(list') = n + 1 /\ list'[n + 1] = b
          /\ \A j \in 1 .. n : list'[j] = list[j]
      BY <1>0, <1>3, <3>3, <3>4, AppendProperties
    <3> QED BY <1>0, <3>1, <3>4, <3>5
  <2> QED BY <2>1, <2>2
<1>5. PICK i \in 1 .. Len(list) + 1 :
        /\ list' \in Seq(Boat) /\ i \in 1 .. Len(list')
        /\ list'[i] = [mmsi |-> m, data |-> Known(h)]
        /\ Len(list') \in {Len(list), Len(list) + 1}
        /\ \A j \in 1 .. Len(list') : j # i => j \in 1 .. Len(list) /\ list'[j] = list[j]
                                               /\ list[j].mmsi # m
        /\ \A j \in 1 .. Len(list) : j \in 1 .. Len(list')
        /\ i \in 1 .. Len(list) => list[i].mmsi = m
  BY <1>4
<1>6. Typed'
  BY <1>2, <1>5 DEF Typed
<1>7. OneEntry'
  BY <1>5 DEF OneEntry, ListInv
<1>8. ASSUME NEW j \in 1 .. Len(list') PROVE list'[j].data = Known(heard'[list'[j].mmsi])
  <2>1. CASE j = i
    BY <1>2, <1>5, <2>1
  <2>2. CASE j # i
    <3>1. j \in 1 .. Len(list) /\ list'[j] = list[j] /\ list[j].mmsi # m
      BY <1>5, <2>2
    <3>2. list[j].mmsi \in Vessels /\ list[j].data = Known(heard[list[j].mmsi])
      BY <1>0, <3>1 DEF ListInv, ListIsHeard, Boat
    <3> QED BY <1>2, <3>1, <3>2
  <2> QED BY <2>1, <2>2
<1>9. ASSUME NEW n \in Vessels, Entries(n)' = {}
      PROVE  heard'[n] = [f \in Fields |-> Absent]
  <2>1. \A j \in 1 .. Len(list') : list'[j].mmsi # n
    BY <1>9 DEF Entries
  <2>2. n # m
    BY <1>5, <2>1
  <2>3. \A j \in 1 .. Len(list) : list[j].mmsi # n
    BY <1>5, <2>1, <2>2
  <2>4. Entries(n) = {}
    BY <2>3 DEF Entries
  <2> QED BY <1>2, <2>2, <2>4 DEF ListInv, ListIsHeard
<1> QED BY <1>6, <1>7, <1>8, <1>9 DEF ListInv, ListIsHeard

LEMMA ListInvPreserved == ListInv /\ [Next]_vars => ListInv'
<1> SUFFICES ASSUME ListInv, [Next]_vars PROVE ListInv'
  OBVIOUS
<1>1. ASSUME NEW m \in Vessels, NEW F \in SUBSET Fields,
             NEW fields \in [F -> Values \cup {Null}], AisLine(m, fields)
      PROVE  ListInv'
  <2>1. fields \in Lines
    BY DEF Lines
  <2> QED BY <1>1, <2>1, LineKeeps
<1>2. CASE Restart
  <2>1. list' = <<>> /\ heard' = NothingHeard /\ <<>> \in Seq(Boat) /\ Len(<<>>) = 0
    BY <1>2, EmptySeq DEF Restart
  <2>2. Typed' /\ OneEntry'
    BY <2>1 DEF Typed, OneEntry, NothingHeard
  <2>3. ListIsHeard'
    BY <2>1 DEF ListIsHeard, NothingHeard
  <2> QED BY <2>2, <2>3 DEF ListInv
<1>3. CASE UNCHANGED vars
  BY <1>3 DEF vars, ListInv, Typed, OneEntry, ListIsHeard, Entries
<1> QED BY <1>1, <1>2, <1>3 DEF Next

LEMMA ListInvariant == Spec => []ListInv
<1>1. Init => ListInv
  <2> SUFFICES ASSUME Init PROVE ListInv
    OBVIOUS
  <2>1. list = <<>> /\ heard = NothingHeard /\ <<>> \in Seq(Boat) /\ Len(<<>>) = 0
    BY EmptySeq DEF Init
  <2> QED BY <2>1 DEF ListInv, Typed, OneEntry, ListIsHeard, NothingHeard
<1> QED BY <1>1, ListInvPreserved, PTL DEF Spec

-----------------------------------------------------------------------------
(***************************************************************************)
(* What follows.                                                           *)
(***************************************************************************)
LEMMA NoMoreThanVessels == ListInv => ListTypeOK
<1> SUFFICES ASSUME ListInv PROVE ListTypeOK
  OBVIOUS
<1> DEFINE n == Len(list)
           f == [i \in 1 .. n |-> list[i].mmsi]
<1>1. list \in Seq(Boat) /\ n \in Nat /\ \A i \in 1 .. n : list[i].mmsi \in Vessels
  <2>1. list \in Seq(Boat)
    BY DEF ListInv, Typed
  <2>2. n \in Nat /\ \A i \in 1 .. n : list[i] \in Boat
    BY <2>1, LenProperties, ElementOfSeq
  <2> QED BY <2>1, <2>2 DEF Boat
<1> HIDE DEF n
<1>2. IsFiniteSet(1 .. n) /\ Cardinality(1 .. n) = n
  BY <1>1, FS_Interval
<1>3. IsFiniteSet(Vessels) /\ Cardinality(Vessels) \in Nat
  BY AisAssumption, FS_CardinalityType
<1>4. ASSUME Cardinality(Vessels) < n PROVE FALSE
  <2>1. f \in [1 .. n -> Vessels]
    BY <1>1
  <2>2. \A i \in 1 .. n : f[i] = list[i].mmsi
    OBVIOUS
  <2> DEFINE S == 1 .. n
  <2>3. IsFiniteSet(S) /\ Cardinality(Vessels) < Cardinality(S) /\ f \in [S -> Vessels]
    BY <1>2, <1>4, <2>1
  <2> HIDE DEF f, S
  <2>4. \E i, j \in S : i # j /\ f[i] = f[j]
    BY <1>3, <2>3, FS_PigeonHole
  <2> QED BY <2>2, <2>4 DEF ListInv, OneEntry, n, S
<1> QED BY <1>1, <1>3, <1>4 DEF ListTypeOK, n

\* The list has an entry for each vessel at most, for any set of vessels.
THEOREM AisTypes == Spec => []ListTypeOK
  BY ListInvariant, NoMoreThanVessels, PTL

LEMMA ShownIsHeard == ListInv => LateDisplayAgrees
<1> SUFFICES ASSUME ListInv, NEW i \in 1 .. Len(list)
             PROVE  LET s == [mmsi |-> list[i].mmsi,
                              shown |-> [f \in Shown(list[i].data) |-> list[i].data[f]]]
                    IN  /\ \A t \in get_ais_state : t.mmsi = s.mmsi => t = s
                        /\ \A f \in DOMAIN s.shown :
                             \/ s.shown[f] = heard[s.mmsi][f]
                             \/ /\ f = "heading" /\ s.shown[f] = Zero
                                /\ heard[s.mmsi][f] = Absent
                        /\ \A f \in Fields \ DOMAIN s.shown :
                             \/ heard[s.mmsi][f] \in {Zero, Absent}
                             \/ \E g \in {"beam", "length"} :
                                  /\ f \in {"beam", "length"}
                                  /\ heard[s.mmsi][g] \in {Zero, Absent}
  BY DEF LateDisplayAgrees, get_ais_state
<1> DEFINE data == list[i].data
           h    == heard[list[i].mmsi]
           s    == [mmsi |-> list[i].mmsi, shown |-> [f \in Shown(data) |-> data[f]]]
<1>1. ASSUME NEW t \in get_ais_state, t.mmsi = s.mmsi PROVE t = s
  <2>1. PICK j \in 1 .. Len(list) :
          t = [mmsi |-> list[j].mmsi,
               shown |-> [f \in Shown(list[j].data) |-> list[j].data[f]]]
    BY DEF get_ais_state
  <2>2. j = i
    BY <1>1, <2>1 DEF ListInv, OneEntry
  <2> QED BY <2>1, <2>2
<1>2. \A f \in Fields : data[f] = IF h[f] = Absent THEN Zero ELSE h[f]
  <2>1. data = Known(h)
    BY DEF ListInv, ListIsHeard
  <2> HIDE DEF data, h
  <2> QED BY <2>1 DEF Known
<1>3. s.mmsi = list[i].mmsi /\ DOMAIN s.shown = Shown(data) /\ \A f \in Shown(data) : s.shown[f] = data[f]
  OBVIOUS
<1> HIDE DEF data, h
<1>4. ASSUME NEW f \in Shown(data)
      PROVE  \/ data[f] = h[f]
             \/ f = "heading" /\ data[f] = Zero /\ h[f] = Absent
  BY <1>2 DEF Shown, Fields
<1>5. ASSUME NEW f \in Fields \ Shown(data)
      PROVE  \/ h[f] \in {Zero, Absent}
             \/ \E g \in {"beam", "length"} : f \in {"beam", "length"} /\ h[g] \in {Zero, Absent}
  BY <1>2 DEF Shown, Fields
<1> QED BY <1>1, <1>3, <1>4, <1>5 DEF h, data

\* What a display that connects late is shown of a vessel is what was heard of
\* it, for any vessels and values and any lines since the start.
THEOREM AisLateDisplayAgrees == Spec => []LateDisplayAgrees
  BY ListInvariant, ShownIsHeard, PTL
=============================================================================
