--------------------------- MODULE CloudView_proofs ---------------------------
(***************************************************************************)
(* Proofs about NmeaParser and CloudView: the parser's values and filters, *)
(* and what the cloud knows of the boat.                                   *)
(***************************************************************************)
EXTENDS CloudView, NmeaClaims_proofs, SequenceTheorems

-----------------------------------------------------------------------------
(***************************************************************************)
(* The composition implements its parts.                                   *)
(***************************************************************************)
\* The parser keeps the tables of claims: the values, filters and restarts
\* leave no behaviour that NmeaClaims does not have, so its theorems hold.
THEOREM ParserKeepsClaims == Spec => ClaimsSpec
<1>1. Init => ClaimsInit
  BY DEF Init
<1>2. [Next]_vars => [ClaimsNext]_claim_vars
  <2> SUFFICES ASSUME [Next]_vars PROVE [ClaimsNext]_claim_vars
    OBVIOUS
  <2>1. ASSUME NEW l \in Lines, ValueLine(l) PROVE UNCHANGED claim_vars
    BY <2>1 DEF ValueLine
  <2>2. CASE BusLine
    BY <2>2 DEF BusLine, ClaimsNext
  <2>3. CASE set_nmea_sources
    BY <2>3 DEF set_nmea_sources
  <2>4. CASE Restart
    BY <2>4 DEF Restart, ClaimsNext
  <2>5. CASE UNCHANGED vars
    BY <2>5 DEF vars
  <2> QED BY <2>1, <2>2, <2>3, <2>4, <2>5 DEF Next
<1> QED BY <1>1, <1>2, PTL DEF Spec, ClaimsSpec

\* What happens to the differences is invisible to the parser.
THEOREM ViewKeepsParser == ViewSpec => Spec
<1>1. ViewInit => Init
  BY DEF ViewInit
<1>2. [ViewNext]_all_vars => [Next]_vars
  <2> SUFFICES ASSUME [ViewNext]_all_vars PROVE [Next]_vars
    OBVIOUS
  <2>1. CASE process_buffer
    BY <2>1 DEF process_buffer, Next
  <2>2. CASE set_nmea_sources /\ UNCHANGED view_vars
    BY <2>2 DEF Next
  <2>3. CASE Deliver
    BY <2>3 DEF Deliver
  <2>4. CASE Discard
    BY <2>4 DEF Discard
  <2>5. CASE RestartAll
    BY <2>5 DEF RestartAll, Next
  <2>6. CASE UNCHANGED all_vars
    BY <2>6 DEF all_vars
  <2> QED BY <2>1, <2>2, <2>3, <2>4, <2>5, <2>6 DEF ViewNext
<1> QED BY <1>1, <1>2, PTL DEF ViewSpec, Spec

-----------------------------------------------------------------------------
(***************************************************************************)
(* The values: types.                                                      *)
(***************************************************************************)
\* The quantities are arrays of struct nmea_state.
LEMMA QuantitiesAre == Quantities \subseteq {Layout[i] : i \in 1 .. 17}
<1> DEFINE N == {Layout[i] : i \in 1 .. 17}
<1>1. N = {"heading", "variation", "trueheading", "sog", "cog", "aws", "awa", "tws", "twa",
           "twd", "lng", "lat", "speed", "depth", "pitch", "roll", "rot"}
  BY DEF Layout
<1>2. \A k \in DOMAIN Carries : ToSet(Carries[k]) \subseteq N
  BY <1>1 DEF Carries, ToSet
<1>3. TrueWinds \cup WindNeeds \subseteq N
  BY <1>1 DEF TrueWinds, WindNeeds
<1>4. Kinds \subseteq DOMAIN Carries
  BY ParserAssumption DEF Kinds
<1>5. Len(Layout) = 17
  BY DEF Layout
<1> HIDE DEF N
<1>6. \A i \in 2 .. Len(Layout) : Layout[i] \in N
  BY <1>5 DEF N
<1> DEFINE used == (UNION {ToSet(Carries[k]) : k \in Kinds})
                     \cup (IF "wind" \in Kinds THEN TrueWinds \cup WindNeeds ELSE {})
<1>7. used \subseteq N
  BY <1>2, <1>3, <1>4
<1>8. \A q : Behind(q) \subseteq N
  BY <1>6 DEF Behind
<1>9. Quantities = used \cup UNION {Behind(q) : q \in used}
  BY Zenon DEF Quantities
<1> HIDE DEF used
<1>10. Quantities \subseteq N
  BY <1>7, <1>8, <1>9
<1> QED BY <1>10 DEF N

\* The quantities a line carries: one or two, none of them computed.
LEMMA CarriesAre ==
  ASSUME NEW k \in DOMAIN Carries
  PROVE  LET c == Carries[k] IN
         /\ Len(c) = 1 \/ (Len(c) = 2 /\ c[1] # c[2])
         /\ ToSet(c) = IF Len(c) = 1 THEN {c[1]} ELSE {c[1], c[2]}
         /\ ToSet(c) \cap TrueWinds = {}
  BY DEF Carries, ToSet, TrueWinds

LEMMA LineIs ==
  ASSUME NEW l \in Lines
  PROVE  /\ l.kind \in DOMAIN Carries /\ l.kind \in Kinds /\ l.src \in Addresses /\ l.src \in Sources
         /\ ToSet(Carries[l.kind]) \subseteq Quantities /\ DOMAIN l.fields = ToSet(Carries[l.kind])
         /\ \A q \in ToSet(Carries[l.kind]) : l.fields[q] \in Values \cup {Null, Absent}
         /\ l.kind = "wind" => TrueWinds \subseteq Quantities
<1>1. /\ l.kind \in DOMAIN Carries /\ l.src \in Addresses
      /\ l.fields \in [ToSet(Carries[l.kind]) -> Values \cup {Null, Absent}]
  BY ParserAssumption
<1>2. l.kind \in Kinds
  BY DEF Kinds
<1>3. ToSet(Carries[l.kind]) \subseteq Quantities
  BY <1>2 DEF Quantities
<1>4. l.kind = "wind" => TrueWinds \subseteq Quantities
  BY <1>2 DEF Quantities
<1> QED BY <1>1, <1>2, <1>3, <1>4 DEF Sources

States == [Quantities -> [SourceSlots -> Slot]]

\* A value stored anywhere leaves a state.
LEMMA InsertTyped ==
  ASSUME NEW st \in States, NEW q, NEW s \in Sources, NEW v \in Values
  PROVE  insert_or_replace(st, q, s, v) \in States
<1> DEFINE slot == [src |-> s, value |-> v]
<1>1. slot \in Slot
  BY DEF Slot
<1> HIDE DEF slot
<1>2. ASSUME NEW p, NEW x PROVE [st EXCEPT ![p][x] = slot] \in States
  BY <1>1 DEF States
<1> DEFINE room == Room(st[q], s)
           past == [p \in DOMAIN st |-> IF p \in Behind(q) THEN [st[p] EXCEPT ![1] = slot] ELSE st[p]]
<1>3. past \in States
  BY <1>1 DEF States
<1>4. insert_or_replace(st, q, s, v) = IF room # {} THEN [st EXCEPT ![q][First(room)] = slot] ELSE past
  BY Zenon DEF insert_or_replace, slot
<1> HIDE DEF past, room
<1> QED BY <1>2, <1>3, <1>4

LEMMA UpdateTyped ==
  ASSUME NEW st \in States, NEW q, NEW s \in Sources, NEW f \in Values \cup {Null, Absent}
  PROVE  update_nmea_value(st, q, s, f) \in States
<1>1. f # Absent => (IF f = Null THEN Zero ELSE f) \in Values
  BY ParserAssumption
<1> QED BY <1>1, InsertTyped DEF update_nmea_value

LEMMA StoredTyped ==
  ASSUME state \in States, NEW l \in Lines
  PROVE  Stored(l.kind, l.src, l.fields) \in States
<1> DEFINE c == Carries[l.kind]
           one == update_nmea_value(state, c[1], l.src, l.fields[c[1]])
           two == update_nmea_value(one, c[2], l.src, l.fields[c[2]])
<1>1. Stored(l.kind, l.src, l.fields) = IF Len(c) = 1 THEN one ELSE two
  BY DEF Stored
<1>2. /\ l.fields[c[1]] \in Values \cup {Null, Absent}
      /\ Len(c) # 1 => l.fields[c[2]] \in Values \cup {Null, Absent}
  BY LineIs, CarriesAre
<1>3. one \in States
  BY <1>2, LineIs, UpdateTyped
<1> HIDE DEF one
<1>4. Len(c) # 1 => two \in States
  BY <1>2, <1>3, LineIs, UpdateTyped
<1> QED BY <1>1, <1>3, <1>4

LEMMA TrueWindTyped ==
  ASSUME NEW st \in States, NEW r \in TrueWind(st)
  PROVE  r \in States
<1>1. PICK tws \in Values, twa \in Values, twd \in Values :
        r = insert_or_replace(insert_or_replace(insert_or_replace(st,
              "tws", 0, tws), "twa", 0, twa), "twd", 0, twd)
  BY DEF TrueWind
<1>2. 0 \in Sources
  BY DEF Sources
<1> DEFINE a == insert_or_replace(st, "tws", 0, tws)
           b == insert_or_replace(a, "twa", 0, twa)
<1>3. a \in States
  BY <1>2, InsertTyped
<1> HIDE DEF a
<1>4. b \in States
  BY <1>2, <1>3, InsertTyped
<1> HIDE DEF b
<1>5. insert_or_replace(b, "twd", 0, twd) \in States
  BY <1>2, <1>4, InsertTyped
<1> QED BY <1>1, <1>5 DEF a, b

LEMMA EmptyTyped == EmptyState \in States /\ AnyDevice \in [Filters -> Names \cup {Blank}]
<1>1. [src |-> 0, value |-> Zero] \in Slot
  BY ParserAssumption DEF Slot, Sources
<1> QED BY <1>1 DEF EmptyState, States, AnyDevice

LEMMA BehindTyped ==
  /\ \A l \in Lines : \A q \in ToSet(Carries[l.kind]) : Behind(q) \subseteq Quantities
  /\ "wind" \in Kinds => \A q \in TrueWinds : Behind(q) \subseteq Quantities
<1>1. \A l \in Lines : l.kind \in Kinds
  BY DEF Kinds
<1> QED BY <1>1 DEF Quantities

LEMMA ParserStepTyped == ParserTypeOK /\ [Next]_vars => ParserTypeOK'
<1> SUFFICES ASSUME ParserTypeOK, [Next]_vars PROVE ParserTypeOK'
  OBVIOUS
<1>1. ASSUME NEW l \in Lines, ValueLine(l) PROVE ParserTypeOK'
  <2>1. Stored(l.kind, l.src, l.fields) \in States
    BY StoredTyped DEF ParserTypeOK, States
  <2>2. state' \in States
    BY <1>1, <2>1, TrueWindTyped DEF ValueLine
  <2>3. sources' = sources /\ sources_file' = sources_file
    BY <1>1 DEF ValueLine
  <2>4. overrun' \subseteq Quantities
    <3>1. /\ DOMAIN l.fields = ToSet(Carries[l.kind])
          /\ Computes(l.kind, l.fields) => "wind" \in Kinds
      BY LineIs DEF Computes
    <3>2. \A st, q, s : Past(st, q, s) \subseteq Behind(q)
      BY DEF Past
    <3>3. overrun \subseteq Quantities
      BY DEF ParserTypeOK
    <3> QED BY <1>1, <3>1, <3>2, <3>3, BehindTyped DEF ValueLine
  <2> QED BY <2>2, <2>3, <2>4 DEF ParserTypeOK, States
<1>2. CASE BusLine
  BY <1>2 DEF BusLine, value_vars, ParserTypeOK
<1>3. CASE set_nmea_sources
  <2>1. PICK F \in SUBSET Filters : \E s \in [F -> Names \cup {Blank}] :
          sources' = Over(s, sources) /\ sources_file' \in {sources', AnyDevice}
    BY <1>3 DEF set_nmea_sources
  <2>2. PICK s \in [F -> Names \cup {Blank}] :
          sources' = Over(s, sources) /\ sources_file' \in {sources', AnyDevice}
    BY <2>1
  <2>3. sources' \in [Filters -> Names \cup {Blank}]
    BY <2>2 DEF Over, ParserTypeOK
  <2>4. sources_file' \in [Filters -> Names \cup {Blank}]
    BY <2>2, <2>3 DEF AnyDevice
  <2> QED BY <1>3, <2>3, <2>4 DEF set_nmea_sources, ParserTypeOK
<1>4. CASE Restart
  BY <1>4, EmptyTyped DEF Restart, StartValues, ParserTypeOK, States
<1>5. CASE UNCHANGED vars
  BY <1>5 DEF vars, value_vars, ParserTypeOK
<1> QED BY <1>1, <1>2, <1>3, <1>4, <1>5 DEF Next

\* The values, the filters and the history have their types.
THEOREM ParserTypes == Spec => []ParserTypeOK
<1>1. Init => ParserTypeOK
  BY EmptyTyped DEF Init, ParserTypeOK, States
<1> QED BY <1>1, ParserStepTyped, PTL DEF Spec

-----------------------------------------------------------------------------
(***************************************************************************)
(* The values: slots.                                                      *)
(***************************************************************************)
\* A source has one slot, the slots in use come first, and a computed value is
\* in the first slot of its array, which stays free.
OneSlot(slots) ==
  \A x, y \in SourceSlots : slots[x].src # 0 /\ slots[x].src = slots[y].src => x = y
UsedFirst(slots) ==
  \A x, y \in SourceSlots : slots[y].src # 0 /\ x < y => slots[x].src # 0
OnlyComputed(slots) ==
  \A x \in SourceSlots : slots[x].src = 0 /\ (x # 1 => slots[x].value = Zero)

SlotsInv ==
  /\ \A q \in Quantities \ overrun : OneSlot(state[q]) /\ UsedFirst(state[q])
  /\ \A q \in (TrueWinds \cap Quantities) \ overrun : OnlyComputed(state[q])

\* A value of s is put in the first slot with room for it, or none is.
Puts(old, new, s) ==
  \/ new = old
  \/ \E x \in Room(old, s), v \in Values :
       /\ \A y \in Room(old, s) : x <= y
       /\ new = [old EXCEPT ![x] = [src |-> s, value |-> v]]

\* No array is behind itself.
LEMMA NotBehindItself == ASSUME NEW q PROVE q \notin Behind(q)
<1>1. /\ Len(Layout) = 17
      /\ \A j \in 2 .. 17 : Layout[j - 1] # Layout[j]
  BY DEF Layout
<1> QED BY <1>1 DEF Behind

\* What storing a value does to the arrays that nothing falls in.
LEMMA InsertIs ==
  ASSUME NEW st \in States, NEW q \in Quantities, NEW s, NEW v \in Values,
         NEW p \in Quantities, p \notin Past(st, q, s)
  PROVE  LET r == insert_or_replace(st, q, s, v) IN
         IF p = q THEN Puts(st[p], r[p], s) ELSE r[p] = st[p]
<1> DEFINE slot == [src |-> s, value |-> v]
           x == First(Room(st[q], s))
           r == insert_or_replace(st, q, s, v)
<1>1. Room(st[q], s) \in SUBSET Nat
  BY ParserAssumption DEF Room, SourceSlots
<1>2. CASE Room(st[q], s) # {}
  <2>1. x \in Room(st[q], s) /\ \A y \in Room(st[q], s) : x <= y
    BY <1>1, <1>2, FirstIn
  <2>2. r = [st EXCEPT ![q][x] = slot]
    BY <1>2 DEF insert_or_replace
  <2> HIDE DEF x, r, slot
  <2>3. r[q] = [st[q] EXCEPT ![x] = slot] /\ (p # q => r[p] = st[p])
    BY <2>2 DEF States
  <2> QED BY <2>1, <2>3 DEF Puts, r, slot
<1>3. CASE Room(st[q], s) = {}
  <2>1. p \notin Behind(q) /\ p \in DOMAIN st
    BY <1>3 DEF Past, States
  <2>2. r[p] = st[p]
    BY <1>3, <2>1 DEF insert_or_replace
  <2> QED BY <2>2 DEF Puts
<1> QED BY <1>2, <1>3

\* A source that has room in an array has it after any value of that source.
LEMMA RoomStays ==
  ASSUME NEW st \in States, NEW q \in Quantities, NEW s \in Sources, NEW v \in Values,
         NEW p \in Quantities
  PROVE  Past(insert_or_replace(st, q, s, v), p, s) \subseteq Past(st, p, s)
<1> DEFINE slot == [src |-> s, value |-> v]
           r == insert_or_replace(st, q, s, v)
<1>1. \A y \in SourceSlots : r[p][y] \in {slot, st[p][y]}
  <2>1. CASE Room(st[q], s) # {}
    <3>1. r = [st EXCEPT ![q][First(Room(st[q], s))] = slot]
      BY <2>1 DEF insert_or_replace
    <3> HIDE DEF r, slot
    <3> QED BY <3>1 DEF States
  <2>2. CASE Room(st[q], s) = {}
    <3>1. r[p] \in {[st[p] EXCEPT ![1] = slot], st[p]}
      BY <2>2 DEF insert_or_replace, States
    <3> HIDE DEF r, slot
    <3> QED BY <3>1 DEF States
  <2> QED BY <2>1, <2>2
<1> HIDE DEF r
<1>2. \A y \in SourceSlots : st[p][y].src \in {0, s} => r[p][y].src \in {0, s}
  BY <1>1
<1>3. Room(st[p], s) # {} => Room(r[p], s) # {}
  BY <1>2 DEF Room
<1> QED BY <1>3 DEF Past, r

\* The same of a field of a line, which may be absent.
FallsFrom(st, q, s, f) == IF f = Absent THEN {} ELSE Past(st, q, s)

LEMMA UpdateIs ==
  ASSUME NEW st \in States, NEW q \in Quantities, NEW s \in Sources,
         NEW f \in Values \cup {Null, Absent}, NEW p \in Quantities
  PROVE  LET r == update_nmea_value(st, q, s, f) IN
         /\ p \notin FallsFrom(st, q, s, f) =>
              IF p = q THEN Puts(st[p], r[p], s) ELSE r[p] = st[p]
         /\ Past(r, p, s) \subseteq Past(st, p, s)
<1>1. CASE f = Absent
  BY <1>1 DEF update_nmea_value, Puts
<1>2. CASE f # Absent
  <2> DEFINE v == IF f = Null THEN Zero ELSE f
  <2>1. /\ v \in Values /\ update_nmea_value(st, q, s, f) = insert_or_replace(st, q, s, v)
        /\ FallsFrom(st, q, s, f) = Past(st, q, s)
    BY <1>2, ParserAssumption DEF update_nmea_value, FallsFrom
  <2> HIDE DEF v
  <2> QED BY <2>1, InsertIs, RoomStays
<1> QED BY <1>1, <1>2

\* Where the fields of a line fall that find no room.
Fallen(l) ==
  UNION {Past(state, q, l.src) : q \in {r \in DOMAIN l.fields : l.fields[r] # Absent}}

\* The fields of a line go to their quantities, and what falls into no other.
LEMMA StoredIs ==
  ASSUME state \in States, NEW l \in Lines, NEW q \in Quantities, q \notin Fallen(l)
  PROVE  IF q \in ToSet(Carries[l.kind])
           THEN Puts(state[q], Stored(l.kind, l.src, l.fields)[q], l.src)
           ELSE Stored(l.kind, l.src, l.fields)[q] = state[q]
<1> DEFINE c == Carries[l.kind]
           c1 == c[1]
           c2 == c[2]
           f1 == l.fields[c1]
           f2 == l.fields[c2]
           one == update_nmea_value(state, c1, l.src, f1)
           two == update_nmea_value(one, c2, l.src, f2)
<1>1. Stored(l.kind, l.src, l.fields) = IF Len(c) = 1 THEN one ELSE two
  BY DEF Stored
<1>2. /\ c1 \in Quantities /\ c1 \in DOMAIN l.fields /\ f1 \in Values \cup {Null, Absent}
      /\ Len(c) # 1 => /\ c2 \in Quantities /\ c2 \in DOMAIN l.fields
                       /\ f2 \in Values \cup {Null, Absent} /\ c1 # c2
      /\ ToSet(c) = IF Len(c) = 1 THEN {c1} ELSE {c1, c2}
      /\ l.src \in Sources
  BY LineIs, CarriesAre
<1>3. /\ q \notin FallsFrom(state, c1, l.src, f1)
      /\ Len(c) # 1 => q \notin FallsFrom(state, c2, l.src, f2)
  <2> HIDE DEF c, c1, c2
  <2> QED BY <1>2 DEF Fallen, FallsFrom
<1> HIDE DEF c, c1, c2, f1, f2
<1>4. one \in States
  BY <1>2, UpdateTyped
<1>5. IF q = c1 THEN Puts(state[q], one[q], l.src) ELSE one[q] = state[q]
  BY <1>2, <1>3, UpdateIs
<1>6. CASE Len(c) = 1
  BY <1>1, <1>2, <1>5, <1>6 DEF c
<1>7. CASE Len(c) # 1
  <2>1. Past(one, c2, l.src) \subseteq Past(state, c2, l.src)
    BY <1>2, <1>7, UpdateIs
  <2>2. q \notin FallsFrom(one, c2, l.src, f2)
    BY <1>3, <1>7, <2>1 DEF FallsFrom
  <2> HIDE DEF one
  <2>3. IF q = c2 THEN Puts(one[q], two[q], l.src) ELSE two[q] = one[q]
    BY <1>2, <1>4, <1>7, <2>2, UpdateIs
  <2> HIDE DEF two
  <2> QED BY <1>1, <1>2, <1>5, <1>7, <2>3 DEF c
<1> QED BY <1>6, <1>7

\* The true wind goes to its quantities, and what falls into no other.
LEMMA TrueWindIs ==
  ASSUME NEW st \in States, TrueWinds \subseteq Quantities,
         NEW r \in TrueWind(st), NEW q \in Quantities,
         \A p \in TrueWinds : q \notin Past(st, p, 0)
  PROVE  IF q \in TrueWinds THEN Puts(st[q], r[q], 0) ELSE r[q] = st[q]
<1>1. PICK tws \in Values, twa \in Values, twd \in Values :
        r = insert_or_replace(insert_or_replace(insert_or_replace(st,
              "tws", 0, tws), "twa", 0, twa), "twd", 0, twd)
  BY DEF TrueWind
<1> DEFINE k1 == "tws"
           k2 == "twa"
           k3 == "twd"
           one == insert_or_replace(st, k1, 0, tws)
           two == insert_or_replace(one, k2, 0, twa)
           three == insert_or_replace(two, k3, 0, twd)
<1>2. 0 \in Sources /\ TrueWinds = {k1, k2, k3} /\ k1 # k2 /\ k1 # k3 /\ k2 # k3
  BY DEF Sources, TrueWinds
<1>3. r = three
  BY <1>1
<1> HIDE DEF k1, k2, k3
<1>4. one \in States /\ \A p \in TrueWinds : Past(one, p, 0) \subseteq Past(st, p, 0)
  BY <1>2, InsertTyped, RoomStays
<1>5. IF q = k1 THEN Puts(st[q], one[q], 0) ELSE one[q] = st[q]
  BY <1>2, InsertIs
<1> HIDE DEF one
<1>6. two \in States /\ \A p \in TrueWinds : Past(two, p, 0) \subseteq Past(one, p, 0)
  BY <1>2, <1>4, InsertTyped, RoomStays
<1>7. IF q = k2 THEN Puts(one[q], two[q], 0) ELSE two[q] = one[q]
  <2>1. q \notin Past(one, k2, 0)
    BY <1>2, <1>4
  <2> QED BY <1>2, <1>4, <2>1, InsertIs
<1> HIDE DEF two
<1>8. IF q = k3 THEN Puts(two[q], three[q], 0) ELSE three[q] = two[q]
  <2>1. q \notin Past(two, k3, 0)
    BY <1>2, <1>4, <1>6
  <2> QED BY <1>2, <1>6, <2>1, InsertIs
<1> HIDE DEF three
<1> QED BY <1>2, <1>3, <1>5, <1>7, <1>8

\* What a line does to the slots of a quantity that no value fell in.
LEMMA LinePuts ==
  ASSUME state \in States, NEW l \in Lines, ValueLine(l), NEW q \in Quantities \ overrun'
  PROVE  /\ q \notin overrun
         /\ IF q \in TrueWinds THEN Puts(state[q], state'[q], 0)
            ELSE IF q \in ToSet(Carries[l.kind]) THEN Puts(state[q], state'[q], l.src)
            ELSE state'[q] = state[q]
<1> DEFINE stored == Stored(l.kind, l.src, l.fields)
<1>1. IF Computes(l.kind, l.fields)
        THEN /\ state' \in TrueWind(stored)
             /\ overrun' = overrun \cup Fallen(l) \cup UNION {Past(stored, p, 0) : p \in TrueWinds}
        ELSE state' = stored /\ overrun' = overrun \cup Fallen(l)
  BY DEF ValueLine, Fallen
<1> HIDE DEF stored
<1>2. q \notin overrun /\ q \notin Fallen(l)
  BY <1>1
<1>3. stored \in States
  BY StoredTyped DEF stored
<1>4. IF q \in ToSet(Carries[l.kind]) THEN Puts(state[q], stored[q], l.src)
      ELSE stored[q] = state[q]
  BY <1>2, StoredIs DEF stored
<1>5. ToSet(Carries[l.kind]) \cap TrueWinds = {}
  BY LineIs, CarriesAre
<1>6. CASE ~Computes(l.kind, l.fields)
  <2>1. q \in TrueWinds => Puts(state[q], state'[q], 0)
    BY <1>1, <1>4, <1>5, <1>6 DEF Puts
  <2> QED BY <1>1, <1>2, <1>4, <1>6, <2>1
<1>7. CASE Computes(l.kind, l.fields)
  <2>1. TrueWinds \subseteq Quantities
    BY <1>7, LineIs DEF Computes
  <2>2. \A p \in TrueWinds : q \notin Past(stored, p, 0)
    BY <1>1, <1>7
  <2>3. IF q \in TrueWinds THEN Puts(stored[q], state'[q], 0) ELSE state'[q] = stored[q]
    BY <1>1, <1>3, <1>7, <2>1, <2>2, TrueWindIs
  <2> QED BY <1>2, <1>4, <1>5, <2>3
<1> QED BY <1>6, <1>7

\* Slots in order stay so.
LEMMA PutsKeeps ==
  ASSUME NEW old \in [SourceSlots -> Slot], NEW s \in Sources, NEW new, Puts(old, new, s)
  PROVE  /\ OneSlot(old) /\ UsedFirst(old) => OneSlot(new) /\ UsedFirst(new)
         /\ OnlyComputed(old) /\ s = 0 => OnlyComputed(new)
<1>1. CASE new = old
  BY <1>1
<1>2. ASSUME NEW x \in Room(old, s), NEW v \in Values, \A y \in Room(old, s) : x <= y,
             new = [old EXCEPT ![x] = [src |-> s, value |-> v]]
      PROVE  /\ OneSlot(old) /\ UsedFirst(old) => OneSlot(new) /\ UsedFirst(new)
             /\ OnlyComputed(old) /\ s = 0 => OnlyComputed(new)
  <2>1. /\ x \in SourceSlots /\ old[x].src \in {0, s} /\ SourceSlots \subseteq Int
        /\ \A y \in SourceSlots : old[y].src \in {0, s} => x <= y
    BY <1>2, ParserAssumption DEF Room, SourceSlots
  <2>2. /\ new[x].src = s
        /\ \A y \in SourceSlots : y # x => new[y] = old[y]
    BY <1>2, <2>1
  <2>3. ASSUME OneSlot(old), UsedFirst(old) PROVE OneSlot(new)
    <3>1. \A y \in SourceSlots : old[y].src = s /\ s # 0 => y = x
      BY <2>1, <2>3 DEF OneSlot, UsedFirst
    <3> QED BY <2>1, <2>2, <2>3, <3>1 DEF OneSlot
  <2>4. ASSUME UsedFirst(old) PROVE UsedFirst(new)
    <3>1. \A y \in SourceSlots : y < x => old[y].src # 0
      BY <2>1
    <3> QED BY <2>1, <2>2, <2>4, <3>1 DEF UsedFirst
  <2>5. ASSUME OnlyComputed(old), s = 0 PROVE OnlyComputed(new)
    <3>1. 1 \in SourceSlots /\ \A y \in SourceSlots : 1 <= y
      BY ParserAssumption DEF SourceSlots
    <3>2. x = 1
      BY <2>1, <2>5, <3>1 DEF OnlyComputed
    <3> QED BY <2>2, <2>5, <3>2 DEF OnlyComputed
  <2> QED BY <2>3, <2>4, <2>5
<1> QED BY <1>1, <1>2 DEF Puts

LEMMA SlotsStep == ParserTypeOK /\ SlotsInv /\ [Next]_vars => SlotsInv'
<1> SUFFICES ASSUME ParserTypeOK, SlotsInv, [Next]_vars PROVE SlotsInv'
  OBVIOUS
<1>1. ASSUME NEW l \in Lines, ValueLine(l) PROVE SlotsInv'
  <2> SUFFICES /\ \A q \in Quantities \ overrun' : OneSlot(state'[q]) /\ UsedFirst(state'[q])
               /\ \A q \in (TrueWinds \cap Quantities) \ overrun' : OnlyComputed(state'[q])
    BY DEF SlotsInv, OneSlot, UsedFirst, OnlyComputed
  <2>1. state \in States /\ 0 \in Sources /\ l.src \in Sources
    BY LineIs DEF ParserTypeOK, States, Sources
  <2>3. ASSUME NEW q \in Quantities \ overrun'
        PROVE  /\ OneSlot(state'[q]) /\ UsedFirst(state'[q])
               /\ q \in TrueWinds => OnlyComputed(state'[q])
    <3>1. /\ q \notin overrun
          /\ IF q \in TrueWinds THEN Puts(state[q], state'[q], 0)
             ELSE IF q \in ToSet(Carries[l.kind]) THEN Puts(state[q], state'[q], l.src)
             ELSE state'[q] = state[q]
      BY <1>1, <2>1, LinePuts
    <3>2. /\ OneSlot(state[q]) /\ UsedFirst(state[q]) /\ state[q] \in [SourceSlots -> Slot]
          /\ q \in TrueWinds => OnlyComputed(state[q])
      BY <2>1, <3>1 DEF SlotsInv, States
    <3> QED BY <2>1, <3>1, <3>2, PutsKeeps
  <2> QED BY <2>3
<1>2. CASE BusLine \/ set_nmea_sources \/ UNCHANGED vars
  <2>1. state' = state /\ overrun' = overrun
    BY <1>2 DEF BusLine, set_nmea_sources, vars, value_vars
  <2> QED BY <2>1 DEF SlotsInv, OneSlot, UsedFirst, OnlyComputed
<1>3. CASE Restart
  <2>1. state' = EmptyState
    BY <1>3 DEF Restart, StartValues
  <2>2. \A q \in Quantities, x \in SourceSlots : state'[q][x].src = 0 /\ state'[q][x].value = Zero
    BY <2>1 DEF EmptyState
  <2> QED BY <2>2 DEF SlotsInv, OneSlot, UsedFirst, OnlyComputed
<1> QED BY <1>1, <1>2, <1>3 DEF Next

\* The slots of every quantity are in order that no value of another fell in.
THEOREM SlotsInOrder == Spec => []SlotsInv
<1>1. Init => SlotsInv
  BY DEF Init, EmptyState, SlotsInv, OneSlot, UsedFirst, OnlyComputed
<1> QED BY <1>1, SlotsStep, ParserTypes, PTL DEF Spec

\* What is stored of a source in an array.
ValuesIn(slots, r) == {slots[x].value : x \in {y \in SourceSlots : slots[y].src = r}}

\* Where the value of a source is kept: a line of another source leaves it.
LEMMA PutsElsewhere ==
  ASSUME NEW old \in [SourceSlots -> Slot], NEW s, NEW new, Puts(old, new, s),
         NEW r, r # 0, r # s
  PROVE  ValuesIn(new, r) = ValuesIn(old, r)
<1>1. CASE new = old
  BY <1>1
<1>2. ASSUME NEW x \in Room(old, s), NEW v \in Values,
             new = [old EXCEPT ![x] = [src |-> s, value |-> v]]
      PROVE  \A y \in SourceSlots : IF y = x THEN new[y].src # r /\ old[y].src # r
                                    ELSE new[y] = old[y]
  BY <1>2 DEF Room
<1>3. CASE \A y \in SourceSlots : new[y].src = r \/ old[y].src = r => new[y] = old[y]
  BY <1>3 DEF ValuesIn
<1> QED BY <1>1, <1>2, <1>3 DEF Puts

\* Filtered lines of different kinds carry different quantities.
LEMMA FilteredApart ==
  ASSUME NEW k \in Kinds \cap DOMAIN FilterOf, NEW l \in Kinds, l # k
  PROVE  ToSet(Carries[k]) \cap ToSet(Carries[l]) = {}
<1>1. k \in DOMAIN Carries /\ l \in DOMAIN Carries
  BY ParserAssumption DEF Kinds
<1>2. \A i \in DOMAIN FilterOf, j \in DOMAIN Carries :
        i # j => ToSet(Carries[i]) \cap ToSet(Carries[j]) = {}
  BY DEF FilterOf, Carries, ToSet
<1> QED BY <1>1, <1>2

\* Once a device is chosen, nothing is stored of another address than the one it
\* is known to hold, for any number of devices, addresses and slots, as devices
\* move and their old entries are used again.
THEOREM ChosenOnly == Spec => OnlyChosenDevice
<1> DEFINE Good == ParserTypeOK /\ SlotsInv /\ NeverFoundElsewhere
           Keeps == \A kind \in Kinds \cap DOMAIN FilterOf, s \in Addresses \ {0} :
                      LET n == sources[FilterOf[kind]] IN
                      n \in Names /\ heard[n] \notin {s, Unheard} =>
                        \A q \in ToSet(Carries[kind]) \ overrun' :
                          ValuesOf(q, s)' \in {ValuesOf(q, s), {}}
<1>1. Spec => []Good
  BY ParserTypes, SlotsInOrder, ParserKeepsClaims, FoundWhereHeard, PTL
<1>2. Good /\ [Next]_vars => [Keeps]_vars
  <2> SUFFICES ASSUME Good, [Next]_vars, NEW kind \in Kinds \cap DOMAIN FilterOf,
                      NEW s \in Addresses \ {0}, sources[FilterOf[kind]] \in Names,
                      heard[sources[FilterOf[kind]]] \notin {s, Unheard},
                      NEW q \in ToSet(Carries[kind]) \ overrun'
               PROVE  ValuesOf(q, s)' \in {ValuesOf(q, s), {}}
    BY DEF Keeps
  <2> DEFINE n == sources[FilterOf[kind]]
  <2>1. q \in Quantities /\ q \notin TrueWinds
    <3>1. kind \in DOMAIN Carries
      BY ParserAssumption DEF Kinds
    <3> QED BY <3>1, CarriesAre DEF Quantities
  <2>2. CASE state' = state
    BY <2>2 DEF ValuesOf
  <2>3. ASSUME NEW l \in Lines, ValueLine(l) PROVE ValuesOf(q, s)' = ValuesOf(q, s)
    <3>1. IF q \in ToSet(Carries[l.kind]) THEN Puts(state[q], state'[q], l.src)
          ELSE state'[q] = state[q]
      BY <2>1, <2>3, LinePuts DEF Good, ParserTypeOK, States
    <3>2. CASE l.kind = kind
      <4>1. get_unique_number(l.src) = n
        BY <2>3, <3>2, ClaimsAssumption DEF ValueLine, Accepted
      <4>2. l.src # s
        BY <4>1, LineIs DEF Good, NeverFoundElsewhere
      <4>3. Puts(state[q], state'[q], l.src) /\ state[q] \in [SourceSlots -> Slot]
        BY <2>1, <3>1, <3>2 DEF Good, ParserTypeOK
      <4>4. s # 0 /\ s # l.src
        BY <4>2
      <4>5. ValuesIn(state'[q], s) = ValuesIn(state[q], s)
        BY <4>3, <4>4, PutsElsewhere
      <4> QED BY <4>5 DEF ValuesOf, ValuesIn
    <3>3. CASE l.kind # kind
      <4>1. q \notin ToSet(Carries[l.kind])
        BY <3>3, LineIs, FilteredApart
      <4> QED BY <3>1, <4>1 DEF ValuesOf
    <3> QED BY <3>2, <3>3
  <2>4. CASE Restart
    <3>1. \A x \in SourceSlots : state'[q][x].src = 0
      BY <2>1, <2>4 DEF Restart, StartValues, EmptyState
    <3> QED BY <3>1 DEF ValuesOf
  <2>5. BusLine \/ set_nmea_sources \/ UNCHANGED vars => state' = state
    BY DEF BusLine, set_nmea_sources, vars, value_vars
  <2> QED BY <2>2, <2>3, <2>4, <2>5 DEF Next
<1>3. [][Keeps]_vars => OnlyChosenDevice
  BY DEF Keeps, OnlyChosenDevice
<1> HIDE DEF Good, Keeps
<1> QED BY <1>1, <1>2, <1>3, PTL DEF Spec

-----------------------------------------------------------------------------
(***************************************************************************)
(* The feed to the cloud, and the differences in it.                       *)
(***************************************************************************)
\* Every sequence is one of its own elements.
LEMMA OwnElements ==
  ASSUME NEW S, NEW s \in Seq(S)
  PROVE  s \in Seq({s[i] : i \in 1 .. Len(s)})
<1>1. Len(s) \in Nat /\ s \in [1 .. Len(s) -> S]
  BY LenProperties
<1>2. s \in [1 .. Len(s) -> {s[i] : i \in 1 .. Len(s)}]
  BY <1>1
<1> QED BY <1>1, <1>2, SeqDef

\* What is left of a sequence without its first elements.
LEMMA RestIs ==
  ASSUME NEW S, NEW s \in Seq(S), NEW n \in 0 .. Len(s)
  PROVE  LET r == SubSeq(s, n + 1, Len(s)) IN
         /\ r \in Seq(S) /\ Len(r) = Len(s) - n
         /\ \A i \in 1 .. Len(r) : n + i \in 1 .. Len(s) /\ r[i] = s[n + i]
<1> DEFINE r == SubSeq(s, n + 1, Len(s))
<1>1. Len(s) \in Nat /\ \A i \in 1 .. Len(s) : s[i] \in S
  BY LenProperties, ElementOfSeq
<1>2. /\ r \in Seq(S)
      /\ Len(r) = IF n + 1 <= Len(s) THEN Len(s) - (n + 1) + 1 ELSE 0
      /\ \A i \in 1 .. Len(s) - (n + 1) + 1 : r[i] = s[n + 1 + i - 1]
  BY <1>1, SubSeqProperties
<1> HIDE DEF r
<1>3. Len(r) = Len(s) - n /\ Len(s) - (n + 1) + 1 = Len(s) - n
  BY <1>1, <1>2
<1>4. ASSUME NEW i \in 1 .. Len(r) PROVE n + i \in 1 .. Len(s) /\ r[i] = s[n + i]
  <2>1. i \in 1 .. Len(s) - (n + 1) + 1 /\ n + 1 + i - 1 = n + i
    BY <1>1, <1>3
  <2> QED BY <1>1, <1>2, <1>3, <2>1
<1> QED BY <1>2, <1>3, <1>4 DEF r

\* The pending messages and their differences.
FeedInv ==
  /\ Feed!TypeOK
  /\ news \in Seq({news[i] : i \in 1 .. Len(news)}) /\ Len(news) = Len(pending)

\* The last news on a topic, of differences n after the view w.
LatestOf(n, w, t) ==
  LET S == {i \in 1 .. Len(n) : t \in DOMAIN n[i]}
  IN IF S # {} THEN n[CHOOSE i \in S : \A j \in S : j <= i][t]
     ELSE IF t \in DOMAIN w THEN w[t] ELSE Absent

SaysLast(n, i, t) ==
  /\ i \in 1 .. Len(n) /\ t \in DOMAIN n[i]
  /\ \A j \in 1 .. Len(n) : t \in DOMAIN n[j] => j <= i

Silent(n, t) == \A i \in 1 .. Len(n) : t \notin DOMAIN n[i]

LEMMA LatestIs ==
  ASSUME NEW n, Len(n) \in Nat, NEW w, NEW t
  PROVE  /\ Silent(n, t) \/ \E i \in 1 .. Len(n) : SaysLast(n, i, t)
         /\ Silent(n, t) => LatestOf(n, w, t) = IF t \in DOMAIN w THEN w[t] ELSE Absent
         /\ \A i \in 1 .. Len(n) : SaysLast(n, i, t) => LatestOf(n, w, t) = n[i][t]
<1> DEFINE S == {i \in 1 .. Len(n) : t \in DOMAIN n[i]}
           D == {Len(n) - i : i \in S}
<1>1. CASE S = {}
  BY <1>1 DEF Silent, SaysLast, LatestOf
<1>2. CASE S # {}
  <2>1. D \in SUBSET Nat /\ D # {}
    BY <1>2
  <2>2. First(D) \in D /\ \A y \in D : First(D) <= y
    BY <2>1, FirstIn
  <2>3. PICK i \in S : First(D) = Len(n) - i
    BY <2>2
  <2>4. \A j \in S : j <= i
    <3> TAKE j \in S
    <3>1. Len(n) - j \in D
      OBVIOUS
    <3>2. i \in Int /\ j \in Int
      OBVIOUS
    <3> HIDE DEF D, S
    <3>3. Len(n) - i <= Len(n) - j
      BY <2>2, <2>3, <3>1
    <3> QED BY <3>2, <3>3
  <2>5. SaysLast(n, i, t)
    BY <2>4 DEF SaysLast
  <2>6. ASSUME NEW k \in 1 .. Len(n), SaysLast(n, k, t) PROVE LatestOf(n, w, t) = n[k][t]
    <3>1. k \in S /\ \A j \in S : j <= k
      BY <2>6 DEF SaysLast
    <3>2. (CHOOSE x \in S : \A j \in S : j <= x) = k
      BY <3>1
    <3> QED BY <1>2, <3>2 DEF LatestOf
  <2> QED BY <1>2, <2>5, <2>6 DEF Silent
<1> QED BY <1>1, <1>2

\* The first k differences gone.
LEMMA DroppedIs ==
  ASSUME NEW n, Len(n) \in Nat, NEW k \in 0 .. Len(n), NEW r, Len(r) = Len(n) - k,
         \A i \in 1 .. Len(r) : k + i \in 1 .. Len(n) /\ r[i] = n[k + i], NEW t
  PROVE  /\ Silent(n, t) => Silent(r, t)
         /\ \A i \in 1 .. Len(n) : SaysLast(n, i, t) =>
              IF i > k THEN SaysLast(r, i - k, t) /\ r[i - k] = n[i] ELSE Silent(r, t)
<1>1. Silent(n, t) => Silent(r, t)
  BY DEF Silent
<1>2. ASSUME NEW i \in 1 .. Len(n), SaysLast(n, i, t), i > k
      PROVE  SaysLast(r, i - k, t) /\ r[i - k] = n[i]
  <2>1. i - k \in 1 .. Len(r) /\ k + (i - k) = i
    BY <1>2
  <2>2. r[i - k] = n[i]
    BY <2>1
  <2>3. \A j \in 1 .. Len(r) : t \in DOMAIN r[j] => j <= i - k
    BY <1>2 DEF SaysLast
  <2> QED BY <1>2, <2>1, <2>2, <2>3 DEF SaysLast
<1>3. ASSUME NEW i \in 1 .. Len(n), SaysLast(n, i, t), ~(i > k)
      PROVE  Silent(r, t)
  BY <1>3 DEF SaysLast, Silent
<1> QED BY <1>1, <1>2, <1>3

\* One difference more.
LEMMA AddedIs ==
  ASSUME NEW n, Len(n) \in Nat, NEW d, NEW r, Len(r) = Len(n) + 1, r[Len(n) + 1] = d,
         \A i \in 1 .. Len(n) : r[i] = n[i], NEW w, NEW t
  PROVE  LatestOf(r, w, t) = IF t \in DOMAIN d THEN d[t] ELSE LatestOf(n, w, t)
<1>1. \A i \in 1 .. Len(r) : i \in 1 .. Len(n) \/ i = Len(n) + 1
  OBVIOUS
<1>2. CASE t \in DOMAIN d
  <2>1. SaysLast(r, Len(n) + 1, t)
    BY <1>2 DEF SaysLast
  <2>2. LatestOf(r, w, t) = r[Len(n) + 1][t]
    BY <2>1, LatestIs
  <2> QED BY <1>2, <2>2
<1>3. CASE t \notin DOMAIN d /\ Silent(n, t)
  <2>1. Silent(r, t)
    BY <1>1, <1>3 DEF Silent
  <2> QED BY <1>3, <2>1, LatestIs
<1>4. CASE t \notin DOMAIN d /\ ~Silent(n, t)
  <2>1. PICK i \in 1 .. Len(n) : SaysLast(n, i, t)
    BY <1>4, LatestIs
  <2>2. i \in 1 .. Len(r) /\ SaysLast(r, i, t)
    BY <1>1, <1>4, <2>1 DEF SaysLast
  <2>3. LatestOf(n, w, t) = n[i][t]
    BY <2>1, LatestIs
  <2>4. LatestOf(r, w, t) = r[i][t]
    BY <2>2, LatestIs
  <2> QED BY <1>4, <2>3, <2>4
<1> QED BY <1>2, <1>3, <1>4

LEMMA FeedLengths ==
  ASSUME FeedInv
  PROVE  /\ offered \in Nat /\ last \in Nat /\ pending \in Seq(Nat)
         /\ Len(pending) \in Nat /\ Len(news) = Len(pending)
         /\ news \in Seq({news[i] : i \in 1 .. Len(news)})
  BY LenProperties DEF FeedInv, Feed!TypeOK

\* A line's difference: what it says is pending or lost, and the rest is as it
\* was.
LEMMA LineTells ==
  ASSUME FeedInv, process_buffer
  PROVE  /\ FeedInv'
         /\ \A t \in DOMAIN build_diff : t \in lost' \/ LatestOf(news', view', t) = build_diff[t]
         /\ \A t : t \notin DOMAIN build_diff =>
                     (t \in lost => t \in lost') /\ LatestOf(news', view', t) = LatestOf(news, view, t)
<1> DEFINE d == build_diff
<1>1. CASE ~hasdiff(d)
  <2>1. UNCHANGED view_vars
    BY <1>1 DEF process_buffer
  <2>2. UNCHANGED <<offered, pending, last, news, view, lost>>
    BY <2>1 DEF view_vars, feed_vars
  <2>3. FeedInv'
    BY <2>2 DEF FeedInv, Feed!TypeOK
  <2>4. DOMAIN d = {}
    BY <1>1 DEF hasdiff
  <2>5. \A t : LatestOf(news', view', t) = LatestOf(news, view, t)
    BY <2>2
  <2> QED BY <2>2, <2>3, <2>4, <2>5
<1>2. CASE hasdiff(d)
  <2>1. /\ Feed!Offer /\ UNCHANGED view
        /\ IF Len(pending') > Len(pending)
             THEN news' = Append(news, d) /\ lost' = lost \ DOMAIN d
             ELSE UNCHANGED news /\ lost' = lost \cup DOMAIN d
    BY <1>2 DEF process_buffer
  <2> HIDE DEF d
  <2>2. /\ offered' = offered + 1 /\ last' = last
        /\ pending' \in {pending, Append(pending, offered + 1)}
    BY <2>1 DEF Feed!Offer
  <2>4. CASE pending' = pending
    <3>1. news' = news /\ lost' = lost \cup DOMAIN d /\ view' = view
      BY <2>1, <2>4, FeedLengths
    <3>2. FeedInv'
      BY <2>2, <2>4, <3>1, FeedLengths DEF FeedInv, Feed!TypeOK
    <3>3. \A t : LatestOf(news', view', t) = LatestOf(news, view, t)
      BY <3>1
    <3> QED BY <3>1, <3>2, <3>3 DEF d
  <2>5. CASE pending' = Append(pending, offered + 1)
    <3>1. pending' \in Seq(Nat) /\ Len(pending') = Len(pending) + 1
      BY <2>5, FeedLengths, AppendProperties
    <3>2. news' = Append(news, d) /\ lost' = lost \ DOMAIN d /\ view' = view
      BY <2>1, <3>1, FeedLengths
    <3>3. /\ news' \in Seq({news[i] : i \in 1 .. Len(news)} \cup {d})
          /\ Len(news') = Len(news) + 1 /\ news'[Len(news) + 1] = d
          /\ \A i \in 1 .. Len(news) : news'[i] = news[i]
      <4> DEFINE S == {news[i] : i \in 1 .. Len(news)}
      <4>1. S \subseteq S \cup {d} /\ d \in S \cup {d} /\ news \in Seq(S)
        BY FeedLengths
      <4> HIDE DEF S
      <4>2. news \in Seq(S \cup {d})
        BY <4>1, SeqMonotonic
      <4>3. /\ news' \in Seq(S \cup {d})
            /\ Len(news') = Len(news) + 1 /\ news'[Len(news) + 1] = d
            /\ \A i \in 1 .. Len(news) : news'[i] = news[i]
        BY <3>2, <4>1, <4>2, AppendProperties
      <4> QED BY <4>3 DEF S
    <3>4. FeedInv'
      <4>1. news' \in Seq({news'[i] : i \in 1 .. Len(news')})
        BY <3>3, OwnElements
      <4>2. Len(news') = Len(pending')
        BY <3>1, <3>3, FeedLengths
      <4> QED BY <2>2, <3>1, <4>1, <4>2, FeedLengths DEF FeedInv, Feed!TypeOK
    <3>5. ASSUME NEW t
          PROVE  LatestOf(news', view', t) = IF t \in DOMAIN d THEN d[t] ELSE LatestOf(news, view, t)
      <4>1. Len(news) \in Nat
        BY FeedLengths
      <4>2. /\ Len(news') = Len(news) + 1 /\ news'[Len(news) + 1] = d
            /\ \A i \in 1 .. Len(news) : news'[i] = news[i]
        BY <3>3
      <4>3. LatestOf(news', view, t) = IF t \in DOMAIN d THEN d[t] ELSE LatestOf(news, view, t)
        BY <4>1, <4>2, AddedIs
      <4> QED BY <3>2, <4>3
    <3> QED BY <3>2, <3>4, <3>5 DEF d
  <2> QED BY <2>2, <2>4, <2>5
<1> QED BY <1>1, <1>2

\* r is n without its first k differences.
Dropped(n, k, r) ==
  /\ r \in Seq({r[i] : i \in 1 .. Len(r)}) /\ Len(r) = Len(n) - k /\ Len(r) \in Nat
  /\ \A t : /\ Silent(n, t) => Silent(r, t)
            /\ \A i \in 1 .. Len(n) : SaysLast(n, i, t) =>
                 IF i > k THEN SaysLast(r, i - k, t) /\ r[i - k] = n[i] ELSE Silent(r, t)

LEMMA DropIs ==
  ASSUME NEW S, NEW n \in Seq(S), NEW k \in 0 .. Len(n)
  PROVE  Dropped(n, k, SubSeq(n, k + 1, Len(n)))
<1> DEFINE r == SubSeq(n, k + 1, Len(n))
<1>1. /\ r \in Seq(S) /\ Len(r) = Len(n) - k
      /\ \A i \in 1 .. Len(r) : k + i \in 1 .. Len(n) /\ r[i] = n[k + i]
  BY RestIs
<1>2. Len(n) \in Nat
  BY LenProperties
<1> HIDE DEF r
<1>3. r \in Seq({r[i] : i \in 1 .. Len(r)})
  BY <1>1, OwnElements
<1>4. Len(r) \in Nat
  BY <1>1, <1>2
<1>5. ASSUME NEW t
      PROVE  /\ Silent(n, t) => Silent(r, t)
             /\ \A i \in 1 .. Len(n) : SaysLast(n, i, t) =>
                  IF i > k THEN SaysLast(r, i - k, t) /\ r[i - k] = n[i] ELSE Silent(r, t)
  BY <1>1, <1>2, DroppedIs
<1>6. Dropped(n, k, r)
  BY <1>1, <1>3, <1>4, <1>5 DEF Dropped
<1> QED BY <1>6 DEF r

\* The first k messages leave the feed.
LEMMA FeedDrops ==
  ASSUME FeedInv, NEW k \in 0 .. Len(pending), offered' = offered, last' \in Nat,
         pending' = SubSeq(pending, k + 1, Len(pending)),
         news' = SubSeq(news, k + 1, Len(news))
  PROVE  FeedInv' /\ Len(pending') = Len(pending) - k /\ Dropped(news, k, news')
<1>1. /\ Len(news) = Len(pending) /\ pending \in Seq(Nat) /\ k \in 0 .. Len(news)
      /\ news \in Seq({news[i] : i \in 1 .. Len(news)})
  BY FeedLengths
<1>2. pending' \in Seq(Nat) /\ Len(pending') = Len(pending) - k
  BY <1>1, RestIs
<1>3. Dropped(news, k, news')
  BY <1>1, DropIs
<1>4. FeedInv'
  BY <1>1, <1>2, <1>3, FeedLengths DEF FeedInv, Feed!TypeOK, Dropped
<1> QED BY <1>2, <1>3, <1>4

\* A delivery and a loss: each topic's latest news stays the latest, or is lost.
LEMMA FeedMoves ==
  ASSUME FeedInv, Deliver \/ Discard
  PROVE  /\ FeedInv'
         /\ \A t : (t \in lost => t \in lost') /\ (t \in lost' \/ LatestOf(news', view', t) = LatestOf(news, view, t))
<1>1. PICK n \in 1 .. Len(pending) :
        /\ pending' = SubSeq(pending, n + 1, Len(pending)) /\ offered' = offered
        /\ IF Deliver THEN last' = pending[n] ELSE last' = last
  BY DEF Deliver, Discard, Feed!Deliver, Feed!Discard, Feed!After
<1>2. last' \in Nat
  BY <1>1, FeedLengths, ElementOfSeq
<1>3. /\ pending \in Seq(Nat) /\ Len(pending) \in Nat /\ Len(news) = Len(pending)
      /\ n \in 0 .. Len(pending)
  BY FeedLengths
<1>4. Len(pending') = Len(pending) - n
  BY <1>1, <1>3, RestIs
<1>5. Len(pending) - Len(pending') = n
  BY <1>3, <1>4
<1>6. /\ news' = SubSeq(news, n + 1, Len(news))
      /\ IF Deliver THEN /\ view' = Over(news[n], view)
                         /\ lost' = lost \cup (OnlyIn(n - 1) \ DOMAIN news[n])
         ELSE view' = view /\ lost' = lost \cup OnlyIn(n)
  BY <1>5 DEF Deliver, Discard
<1>7. /\ FeedInv' /\ Len(news') \in Nat
      /\ \A t : /\ Silent(news, t) => Silent(news', t)
                /\ \A i \in 1 .. Len(news) : SaysLast(news, i, t) =>
                     IF i > n THEN SaysLast(news', i - n, t) /\ news'[i - n] = news[i]
                     ELSE Silent(news', t)
  <2>1. FeedInv' /\ Dropped(news, n, news')
    BY <1>1, <1>2, <1>3, <1>6, FeedDrops
  <2> QED BY <2>1 DEF Dropped
<1>9. ASSUME NEW t PROVE t \in lost' \/ LatestOf(news', view', t) = LatestOf(news, view, t)
  <2>1. CASE Silent(news, t)
    <3>1. t \notin DOMAIN news[n]
      BY <1>3, <2>1 DEF Silent
    <3>2. /\ t \in DOMAIN view' <=> t \in DOMAIN view
          /\ t \in DOMAIN view => view'[t] = view[t]
      BY <1>6, <3>1 DEF Over
    <3>3. Silent(news', t)
      BY <1>7, <2>1
    <3>4. LatestOf(news, view, t) = IF t \in DOMAIN view THEN view[t] ELSE Absent
      BY <1>3, <2>1, LatestIs
    <3>5. LatestOf(news', view', t) = IF t \in DOMAIN view' THEN view'[t] ELSE Absent
      BY <1>7, <3>3, LatestIs
    <3> QED BY <3>2, <3>4, <3>5
  <2>2. CASE ~Silent(news, t)
    <3>1. PICK i \in 1 .. Len(news) : SaysLast(news, i, t)
      BY <1>3, <2>2, LatestIs
    <3>2. LatestOf(news, view, t) = news[i][t]
      BY <1>3, <3>1, LatestIs
    <3>3. IF i > n THEN SaysLast(news', i - n, t) /\ news'[i - n] = news[i] ELSE Silent(news', t)
      BY <1>7, <3>1
    <3>4. t \in DOMAIN news[i] /\ \A j \in 1 .. Len(news) : t \in DOMAIN news[j] => j <= i
      BY <3>1 DEF SaysLast
    <3>5. CASE i > n
      <4>1. i - n \in 1 .. Len(news') /\ SaysLast(news', i - n, t)
        BY <3>3, <3>5 DEF SaysLast
      <4>2. LatestOf(news', view', t) = news'[i - n][t]
        BY <1>7, <4>1, LatestIs
      <4> QED BY <3>2, <3>3, <3>5, <4>2
    <3>6. ASSUME ~(i > n), NEW m \in {n - 1, n}, i <= m PROVE t \in OnlyIn(m)
      <4>1. i \in 1 .. m
        BY <3>6
      <4>2. \A j \in m + 1 .. Len(news) : j \in 1 .. Len(news) /\ ~(j <= i)
        BY <3>6, <1>3
      <4>3. \A j \in m + 1 .. Len(news) : t \notin DOMAIN news[j]
        BY <3>4, <4>2
      <4> QED BY <3>4, <4>1, <4>3 DEF OnlyIn
    <3>7. CASE ~(i > n) /\ ~Deliver
      BY <1>6, <3>6, <3>7
    <3>8. CASE i < n /\ Deliver
      <4>1. t \notin DOMAIN news[n]
        BY <1>3, <3>4, <3>8
      <4>2. t \in OnlyIn(n - 1)
        BY <3>6, <3>8
      <4> QED BY <1>6, <3>8, <4>1, <4>2
    <3>9. CASE i = n /\ Deliver
      <4>1. t \in DOMAIN view' /\ view'[t] = news[i][t]
        BY <1>6, <3>4, <3>9 DEF Over
      <4>2. Silent(news', t)
        BY <3>3, <3>9
      <4>3. LatestOf(news', view', t) = view'[t]
        BY <1>7, <4>1, <4>2, LatestIs
      <4> QED BY <3>2, <4>1, <4>3
    <3> QED BY <3>5, <3>7, <3>8, <3>9
  <2> QED BY <2>1, <2>2
<1>10. ASSUME NEW t PROVE (t \in lost => t \in lost') /\ (t \in lost' \/ LatestOf(news', view', t) = LatestOf(news, view, t))
  <2>1. t \in lost => t \in lost'
    BY <1>6
  <2> QED BY <1>9, <2>1
<1> QED BY <1>7, <1>10

\* A restart: what was pending is lost.
LEMMA RestartLoses ==
  ASSUME FeedInv, RestartAll
  PROVE  /\ FeedInv'
         /\ \A t : (t \in lost => t \in lost') /\ (t \in lost' \/ LatestOf(news', view', t) = LatestOf(news, view, t))
<1>1. /\ pending' = <<>> /\ news' = <<>> /\ offered' = offered /\ last' = last /\ view' = view
      /\ lost \subseteq lost' /\ OnlyIn(Len(news)) \subseteq lost'
  BY DEF RestartAll
<1>2. /\ <<>> \in Seq(Nat) /\ <<>> \in Seq({<<>>[i] : i \in 1 .. Len(<<>>)})
      /\ Len(<<>>) = 0
  BY EmptySeq
<1>3. FeedInv'
  BY <1>1, <1>2, FeedLengths DEF FeedInv, Feed!TypeOK
<1>5. ASSUME NEW t PROVE t \in lost' \/ LatestOf(news', view', t) = LatestOf(news, view, t)
  <2>1. Len(news) \in Nat
    BY FeedLengths
  <2>2. Silent(<<>>, t)
    BY <1>2 DEF Silent
  <2>3. LatestOf(<<>>, view, t) = IF t \in DOMAIN view THEN view[t] ELSE Absent
    BY <1>2, <2>2, LatestIs
  <2>4. CASE Silent(news, t)
    <3>1. LatestOf(news, view, t) = IF t \in DOMAIN view THEN view[t] ELSE Absent
      BY <2>1, <2>4, LatestIs
    <3> QED BY <1>1, <2>3, <3>1
  <2>5. CASE ~Silent(news, t)
    <3>1. PICK i \in 1 .. Len(news) : t \in DOMAIN news[i]
      BY <2>5 DEF Silent
    <3>2. Len(news) + 1 .. Len(news) = {}
      BY <2>1
    <3>3. t \in OnlyIn(Len(news))
      BY <3>1, <3>2 DEF OnlyIn
    <3> QED BY <1>1, <3>3
  <2> QED BY <2>4, <2>5
<1> QED BY <1>1, <1>3, <1>5

\* Each message pending stays one difference.
LEMMA FeedSteps ==
  ASSUME FeedInv, [ViewNext]_all_vars
  PROVE  FeedInv'
<1>1. CASE UNCHANGED view_vars
  <2>1. UNCHANGED <<offered, pending, last, news>>
    BY <1>1 DEF view_vars, feed_vars
  <2> QED BY <2>1 DEF FeedInv, Feed!TypeOK
<1>2. CASE UNCHANGED all_vars
  BY <1>1, <1>2 DEF all_vars
<1> QED BY <1>1, <1>2, LineTells, FeedMoves, RestartLoses DEF ViewNext

LEMMA FeedStarts == ViewInit => FeedInv
<1>1. /\ <<>> \in Seq(Nat) /\ <<>> \in Seq({<<>>[i] : i \in 1 .. Len(<<>>)})
      /\ Len(<<>>) = 0
  BY EmptySeq
<1> QED BY <1>1 DEF ViewInit, Feed!Init, FeedInv, Feed!TypeOK

LEMMA FeedKept == ViewSpec => []FeedInv
<1>1. FeedInv /\ [ViewNext]_all_vars => FeedInv'
  BY FeedSteps
<1> QED BY <1>1, FeedStarts, PTL DEF ViewSpec

-----------------------------------------------------------------------------
(***************************************************************************)
(* What the cloud knows of the bus.                                        *)
(***************************************************************************)
LEMMA NoSuchQuantity == "claims" \notin Quantities /\ "devices" \notin Quantities
<1>1. "claims" \notin {Layout[i] : i \in 1 .. 17} /\ "devices" \notin {Layout[i] : i \in 1 .. 17}
  BY DEF Layout
<1> QED BY <1>1, QuantitiesAre

LEMMA OverAt ==
  ASSUME NEW f, NEW g, NEW t
  PROVE  /\ t \in DOMAIN Over(f, g) <=> t \in DOMAIN f \/ t \in DOMAIN g
         /\ t \in DOMAIN Over(f, g) => Over(f, g)[t] = IF t \in DOMAIN f THEN f[t] ELSE g[t]
  BY DEF Over

\* Values are told under their quantities.
LEMMA ValueTopics == \A t \in DOMAIN ValueNews : t[1] \in Quantities
  BY DEF ValueNews

\* The address of a name is told when its claim is reported.
LEMMA ClaimTopics ==
  /\ \A t \in DOMAIN ClaimNews : t[1] = "claims"
  /\ \A n : LET t == <<"claims", n>> IN
       /\ t \in DOMAIN build_diff
            <=> \E x \in diff_claim_values(claims, claims') : claims'[x].unique_number = n
       /\ t \in DOMAIN build_diff => build_diff[t] = ClaimNews[t]
<1>1. \A t \in DOMAIN ClaimNews : t[1] = "claims"
  BY DEF ClaimNews
<1>2. \A t \in DOMAIN DeviceNews : t[1] = "devices"
  BY DEF DeviceNews
<1>3. ASSUME NEW n
      PROVE  <<"claims", n>> \in DOMAIN ClaimNews
               <=> \E x \in diff_claim_values(claims, claims') : claims'[x].unique_number = n
  BY DEF ClaimNews
<1>4. ASSUME NEW n
      PROVE  /\ <<"claims", n>> \notin DOMAIN ValueNews
             /\ <<"claims", n>> \notin DOMAIN DeviceNews
  BY <1>2, ValueTopics, NoSuchQuantity
<1>5. ASSUME NEW n
      PROVE  LET t == <<"claims", n>> IN
             /\ t \in DOMAIN build_diff <=> t \in DOMAIN ClaimNews
             /\ t \in DOMAIN build_diff => build_diff[t] = ClaimNews[t]
  BY <1>4, OverAt DEF build_diff
<1> QED BY <1>1, <1>3, <1>5

\* The model of a name, when its device is reported.
LEMMA DeviceTopics ==
  \A n : LET t == <<"devices", n>> IN
    /\ t \in DOMAIN build_diff
         <=> \E x \in diff_device_values(devices, devices') : devices'[x].unique_number = n
    /\ t \in DOMAIN build_diff => build_diff[t] = DeviceNews[t]
<1>1. ASSUME NEW n
      PROVE  <<"devices", n>> \in DOMAIN DeviceNews
               <=> \E x \in diff_device_values(devices, devices') : devices'[x].unique_number = n
  BY DEF DeviceNews
<1>2. ASSUME NEW n
      PROVE  /\ <<"devices", n>> \notin DOMAIN ValueNews
             /\ <<"devices", n>> \notin DOMAIN ClaimNews
  BY ClaimTopics, ValueTopics, NoSuchQuantity
<1>3. ASSUME NEW n
      PROVE  LET t == <<"devices", n>> IN
             /\ t \in DOMAIN build_diff <=> t \in DOMAIN DeviceNews
             /\ t \in DOMAIN build_diff => build_diff[t] = DeviceNews[t]
  BY <1>2, OverAt DEF build_diff
<1> QED BY <1>1, <1>3

\* With a name at one address, what is told of it is that.
LEMMA ClaimToldIs ==
  ASSUME OneAddressPerName', NEW x \in diff_claim_values(claims, claims')
  PROVE  ClaimNews[<<"claims", claims'[x].unique_number>>] = claims'[x].src
<1> DEFINE claimed == {claims'[y] : y \in diff_claim_values(claims, claims')}
           n == claims'[x].unique_number
<1>1. \A c \in claimed : c.unique_number = n => c = claims'[x]
  BY DEF diff_claim_values, OneAddressPerName, Live
<1>2. claims'[x] \in claimed /\ claims'[x].unique_number = n
  OBVIOUS
<1>3. ClaimNews[<<"claims", n>>] = (CHOOSE c \in claimed : c.unique_number = n).src
  BY <1>2 DEF ClaimNews
<1> HIDE DEF claimed, n
<1>4. (CHOOSE c \in claimed : c.unique_number = n) = claims'[x]
  BY <1>1, <1>2
<1> QED BY <1>3, <1>4 DEF n

LEMMA DeviceToldIs ==
  ASSUME DevicesDistinct', NEW x \in diff_device_values(devices, devices')
  PROVE  DeviceNews[<<"devices", devices'[x].unique_number>>] = devices'[x].model
<1> DEFINE products == {devices'[y] : y \in diff_device_values(devices, devices')}
           n == devices'[x].unique_number
<1>1. \A d \in products : d.unique_number = n => d = devices'[x]
  BY DEF diff_device_values, DevicesDistinct
<1>2. devices'[x] \in products /\ devices'[x].unique_number = n
  OBVIOUS
<1>3. DeviceNews[<<"devices", n>>] = (CHOOSE d \in products : d.unique_number = n).model
  BY <1>2 DEF DeviceNews
<1> HIDE DEF products, n
<1>4. (CHOOSE d \in products : d.unique_number = n) = devices'[x]
  BY <1>1, <1>2
<1> QED BY <1>3, <1>4 DEF n

\* No line takes a device from its entry.
LEMMA DevicesStay ==
  ASSUME devices \in Seq(Device), BusLine \/ \E l \in Lines : ValueLine(l)
  PROVE  \A o \in 1 .. Len(devices) : o \in 1 .. Len(devices') /\ devices'[o] = devices[o]
<1>1. devices' = devices \/ \E d : devices' = Append(devices, d)
  BY DEF BusLine, ValueLine, ClaimLine, DeviceLine, DevicesAfter, update_nmea_device, claim_vars
<1>2. ASSUME NEW d, devices' = Append(devices, d)
      PROVE  \A o \in 1 .. Len(devices) : o \in 1 .. Len(devices') /\ devices'[o] = devices[o]
  <2>1. devices \in Seq(Device \cup {d}) /\ d \in Device \cup {d} /\ Len(devices) \in Nat
    BY SeqMonotonic, LenProperties
  <2>2. /\ Len(Append(devices, d)) = Len(devices) + 1
        /\ \A o \in 1 .. Len(devices) : Append(devices, d)[o] = devices[o]
    BY <2>1, AppendProperties
  <2> QED BY <1>2, <2>1, <2>2
<1> QED BY <1>1, <1>2

\* What CloudKnowsBus says, before and after a step.
KnowsBus(c, d, n, w, l) ==
  /\ \A x \in Slots : c[x].src # 0 =>
       LET t == <<"claims", c[x].unique_number>> IN t \in l \/ LatestOf(n, w, t) = c[x].src
  /\ \A x \in 1 .. Len(d) : d[x].unique_number # Blank =>
       LET t == <<"devices", d[x].unique_number>> IN t \in l \/ LatestOf(n, w, t) = d[x].model

LEMMA KnowsBusIs ==
  /\ CloudKnowsBus <=> KnowsBus(claims, devices, news, view, lost)
  /\ CloudKnowsBus' <=> KnowsBus(claims', devices', news', view', lost')
  BY DEF CloudKnowsBus, KnowsBus, Live, Latest, LatestOf

\* A line keeps the cloud informed of the bus.
LEMMA LineTellsBus ==
  ASSUME FeedInv, CloudKnowsBus, OneAddressPerName', DevicesDistinct', devices \in Seq(Device),
         process_buffer
  PROVE  CloudKnowsBus'
<1>1. ASSUME NEW x \in Slots, claims'[x].src # 0
      PROVE  LET t == <<"claims", claims'[x].unique_number>> IN
             t \in lost' \/ LatestOf(news', view', t) = claims'[x].src
  <2> DEFINE n == claims'[x].unique_number
             t == <<"claims", n>>
  <2>1. CASE x \in diff_claim_values(claims, claims')
    <3>1. t \in DOMAIN build_diff /\ build_diff[t] = claims'[x].src
      BY <2>1, ClaimTopics, ClaimToldIs
    <3> QED BY <3>1, LineTells
  <2>2. CASE x \notin diff_claim_values(claims, claims')
    <3>1. PICK o \in Slots : claims[o] = claims'[x]
      BY <1>1, <2>2 DEF diff_claim_values
    <3>2. t \in lost \/ LatestOf(news, view, t) = claims'[x].src
      BY <1>1, <3>1, KnowsBusIs DEF KnowsBus
    <3>3. \A y \in diff_claim_values(claims, claims') : claims'[y].unique_number # n
      BY <1>1, <2>2 DEF diff_claim_values, OneAddressPerName, Live
    <3>4. t \notin DOMAIN build_diff
      BY <3>3, ClaimTopics
    <3> QED BY <3>2, <3>4, LineTells
  <2> QED BY <2>1, <2>2
<1>2. ASSUME NEW x \in 1 .. Len(devices'), devices'[x].unique_number # Blank
      PROVE  LET t == <<"devices", devices'[x].unique_number>> IN
             t \in lost' \/ LatestOf(news', view', t) = devices'[x].model
  <2> DEFINE n == devices'[x].unique_number
             t == <<"devices", n>>
  <2>1. CASE x \in diff_device_values(devices, devices')
    <3>1. t \in DOMAIN build_diff /\ build_diff[t] = devices'[x].model
      BY <2>1, DeviceTopics, DeviceToldIs
    <3> QED BY <3>1, LineTells
  <2>2. CASE x \notin diff_device_values(devices, devices')
    <3>1. PICK o \in 1 .. Len(devices) : devices[o].unique_number = n
      BY <1>2, <2>2 DEF diff_device_values
    <3>2. o \in 1 .. Len(devices') /\ devices'[o] = devices[o]
      BY DevicesStay DEF process_buffer
    <3>3. o = x
      BY <3>1, <3>2 DEF DevicesDistinct
    <3>4. t \in lost \/ LatestOf(news, view, t) = devices'[x].model
      BY <1>2, <3>1, <3>2, <3>3, KnowsBusIs DEF KnowsBus
    <3>5. \A y \in diff_device_values(devices, devices') : devices'[y].unique_number # n
      BY <3>1 DEF diff_device_values
    <3>6. t \notin DOMAIN build_diff
      BY <3>5, DeviceTopics
    <3> QED BY <3>4, <3>6, LineTells
  <2> QED BY <2>1, <2>2
<1>3. KnowsBus(claims', devices', news', view', lost')
  BY <1>1, <1>2 DEF KnowsBus
<1> QED BY <1>3, KnowsBusIs

\* A restart counts as lost what the file says and the cloud was not told.
LEMMA RestartTellsBus ==
  ASSUME FeedInv, RestartAll
  PROVE  CloudKnowsBus'
<1>1. \A t : t \in lost' \/ LatestOf(news', view', t) = LatestOf(news, view, t)
  BY RestartLoses
<1>2. ASSUME NEW x \in Slots, claims'[x].src # 0,
             claims'[x].src # Latest(<<"claims", claims'[x].unique_number>>)
      PROVE  <<"claims", claims'[x].unique_number>> \in lost'
  BY <1>2 DEF RestartAll
<1>3. ASSUME NEW x \in 1 .. Len(devices'),
             devices'[x].model # Latest(<<"devices", devices'[x].unique_number>>)
      PROVE  <<"devices", devices'[x].unique_number>> \in lost'
  BY <1>3 DEF RestartAll
<1>4. \A t : Latest(t) = LatestOf(news, view, t)
  BY DEF Latest, LatestOf
<1>5. KnowsBus(claims', devices', news', view', lost')
  BY <1>1, <1>2, <1>3, <1>4 DEF KnowsBus
<1> QED BY <1>5, KnowsBusIs

\* The cloud knows, or will, the address and the model of every device in the
\* tables, unless the latest news of it was lost: for every number of devices,
\* of addresses and of entries, over torn files and restarts.
THEOREM CloudIsToldBus == ViewSpec => []CloudKnowsBus
<1> DEFINE Tables == OneAddressPerName /\ DevicesDistinct /\ ClaimsTypeOK
<1>1. ViewSpec => []Tables
  <2>1. ViewSpec => ClaimsSpec
    BY ViewKeepsParser, ParserKeepsClaims
  <2> QED BY <2>1, NamesAtOneAddress, DevicesEnteredOnce, ClaimsTypes, PTL
<1>2. ViewInit => CloudKnowsBus
  <2> SUFFICES ASSUME ViewInit PROVE CloudKnowsBus
    OBVIOUS
  <2>1. devices = <<>> /\ \A x \in Slots : claims[x].src = 0
    BY DEF ViewInit, Init, ClaimsInit, NoClaim
  <2>2. Len(devices) = 0
    BY <2>1, EmptySeq
  <2> QED BY <2>1, <2>2 DEF CloudKnowsBus, Live
<1>3. CloudKnowsBus /\ FeedInv /\ Tables /\ Tables' /\ [ViewNext]_all_vars => CloudKnowsBus'
  <2> SUFFICES ASSUME CloudKnowsBus, FeedInv, Tables, Tables', [ViewNext]_all_vars
               PROVE  CloudKnowsBus'
    OBVIOUS
  <2>1. CASE process_buffer
    BY <2>1, LineTellsBus DEF ClaimsTypeOK
  <2>2. CASE Deliver \/ Discard
    <3>1. claims' = claims /\ devices' = devices
      BY <2>2 DEF Deliver, Discard, vars, claim_vars
    <3>2. \A t : (t \in lost => t \in lost') /\ (t \in lost' \/ LatestOf(news', view', t) = LatestOf(news, view, t))
      BY <2>2, FeedMoves
    <3>3. KnowsBus(claims', devices', news', view', lost')
      BY <3>1, <3>2, KnowsBusIs DEF KnowsBus
    <3> QED BY <3>3, KnowsBusIs
  <2>3. CASE RestartAll
    BY <2>3, RestartTellsBus
  <2>4. CASE (set_nmea_sources /\ UNCHANGED view_vars) \/ UNCHANGED all_vars
    <3>1. UNCHANGED <<claims, devices, news, view, lost>>
      BY <2>4 DEF set_nmea_sources, all_vars, vars, claim_vars, view_vars
    <3> QED BY <3>1, KnowsBusIs
  <2> QED BY <2>1, <2>2, <2>3, <2>4 DEF ViewNext
<1> HIDE DEF Tables
<1> QED BY <1>1, <1>2, <1>3, FeedKept, PTL DEF ViewSpec

-----------------------------------------------------------------------------
(***************************************************************************)
(* What the cloud knows of the values.                                     *)
(***************************************************************************)
\* A source is told when a slot of it is reported; with one such slot, its
\* value is what is told.
LEMMA ToldIs ==
  ASSUME NEW old, NEW new, NEW s
  PROVE  LET X == diff_values(old, new) IN
         /\ s \in DOMAIN ToldOf(old, new) <=> \E x \in X : new[x].src = s
         /\ \A x \in X : new[x].src = s /\ (\A y \in X : new[y].src = s => y = x) =>
              ToldOf(old, new)[s] = new[x].value
<1> DEFINE X == diff_values(old, new)
<1>1. s \in DOMAIN ToldOf(old, new) <=> \E x \in X : new[x].src = s
  BY DEF ToldOf
<1>2. ASSUME NEW x \in X, new[x].src = s, \A y \in X : new[y].src = s => y = x
      PROVE  ToldOf(old, new)[s] = new[x].value
  <2>1. x \in Int
    BY DEF diff_values, SourceSlots
  <2>2. ToldOf(old, new)[s] =
          new[CHOOSE z \in X : new[z].src = s /\ \A y \in X : new[y].src = s => y <= z].value
    BY <1>2 DEF ToldOf
  <2> HIDE DEF X
  <2>3. new[x].src = s /\ \A y \in X : new[y].src = s => y <= x
    BY <1>2, <2>1
  <2>4. \A z \in X : new[z].src = s => z = x
    BY <1>2
  <2>5. (CHOOSE z \in X : new[z].src = s /\ \A y \in X : new[y].src = s => y <= z) = x
    BY <2>3, <2>4
  <2> QED BY <2>2, <2>5
<1> QED BY <1>1, <1>2

\* The value of a source of a quantity is told when that quantity changed.
LEMMA SlotTopics ==
  ASSUME NEW q \in Quantities, NEW s
  PROVE  LET t == <<q, s>> IN
         /\ t \in DOMAIN build_diff
              <=> state'[q] # state[q] /\ s \in DOMAIN ToldOf(state[q], state'[q])
         /\ t \in DOMAIN build_diff => build_diff[t] = ToldOf(state[q], state'[q])[s]
<1> DEFINE t == <<q, s>>
<1>1. t \notin DOMAIN ClaimNews /\ t \notin DOMAIN DeviceNews
  BY NoSuchQuantity DEF ClaimNews, DeviceNews
<1>2. /\ t \in DOMAIN build_diff <=> t \in DOMAIN ValueNews
      /\ t \in DOMAIN build_diff => build_diff[t] = ValueNews[t]
  BY <1>1, OverAt DEF build_diff
<1> DEFINE changed == {p \in Quantities : state'[p] # state[p]}
           told == [p \in changed |-> ToldOf(state[p], state'[p])]
           topics == UNION {{p} \X DOMAIN told[p] : p \in DOMAIN told}
<1>3. ValueNews = [u \in topics |-> told[u[1]][u[2]]]
  BY DEF ValueNews
<1>4. \A p \in changed : told[p] = ToldOf(state[p], state'[p])
  OBVIOUS
<1>5. DOMAIN told = changed /\ (q \in changed <=> state'[q] # state[q])
  OBVIOUS
<1> HIDE DEF told, changed
<1>6. t \in topics <=> q \in changed /\ s \in DOMAIN told[q]
  BY <1>5
<1>7. t[1] = q /\ t[2] = s
  OBVIOUS
<1> HIDE DEF topics, t
<1>8. /\ t \in DOMAIN ValueNews <=> t \in topics
      /\ t \in DOMAIN ValueNews => ValueNews[t] = told[q][s]
  BY <1>3, <1>7
<1>9. /\ t \in DOMAIN build_diff
           <=> state'[q] # state[q] /\ s \in DOMAIN ToldOf(state[q], state'[q])
      /\ t \in DOMAIN build_diff => build_diff[t] = ToldOf(state[q], state'[q])[s]
  BY <1>2, <1>4, <1>5, <1>6, <1>8
<1> QED BY <1>9 DEF t

\* Of a slot that is alone in reporting its source, if it is reported: the
\* cloud is told its value, or what it knew stands.
LEMMA SlotTold ==
  ASSUME FeedInv, process_buffer, NEW q \in Quantities, NEW x \in SourceSlots,
         NEW s, s = state'[q][x].src,
         \A y \in diff_values(state[q], state'[q]) : state'[q][y].src = s => y = x
  PROVE  LET t == <<q, s>> IN
         IF x \in diff_values(state[q], state'[q])
           THEN t \in lost' \/ LatestOf(news', view', t) = state'[q][x].value
           ELSE (t \in lost => t \in lost') /\ LatestOf(news', view', t) = LatestOf(news, view, t)
<1> DEFINE t == <<q, s>>
<1>1. CASE x \in diff_values(state[q], state'[q])
  <2>1. s \in DOMAIN ToldOf(state[q], state'[q]) /\ ToldOf(state[q], state'[q])[s] = state'[q][x].value
    BY <1>1, ToldIs
  <2>2. state'[q] # state[q]
    BY <1>1 DEF diff_values
  <2>3. t \in DOMAIN build_diff /\ build_diff[t] = state'[q][x].value
    BY <2>1, <2>2, SlotTopics
  <2>4. t \in lost' \/ LatestOf(news', view', t) = build_diff[t]
    BY <2>3, LineTells
  <2> QED BY <1>1, <2>3, <2>4
<1>2. CASE x \notin diff_values(state[q], state'[q])
  <2>1. s \notin DOMAIN ToldOf(state[q], state'[q])
    BY <1>2, ToldIs
  <2>2. t \notin DOMAIN build_diff
    BY <2>1, SlotTopics
  <2>3. (t \in lost => t \in lost') /\ LatestOf(news', view', t) = LatestOf(news, view, t)
    BY <2>2, LineTells
  <2> QED BY <1>2, <2>3
<1> QED BY <1>1, <1>2

\* What CloudKnowsSlots and CloudKnowsTrueWind say, before and after a step.
KnowsSlots(o, st, n, w, l) ==
  \A q \in Quantities \ o, x \in SourceSlots :
    st[q][x].src # 0 =>
      LET t == <<q, st[q][x].src>> IN
      /\ t \in l \/ LatestOf(n, w, t) = st[q][x].value
      /\ \A y \in SourceSlots : st[q][y].src = st[q][x].src => y = x

KnowsWind(o, st, n, w, l) ==
  \A q \in (TrueWinds \cap Quantities) \ o :
    LET v == st[q][1].value IN
      v # Zero => <<q, 0>> \in l \/ LatestOf(n, w, <<q, 0>>) = v

LEMMA KnowsValuesIs ==
  /\ CloudKnowsSlots <=> KnowsSlots(overrun, state, news, view, lost)
  /\ CloudKnowsSlots' <=> KnowsSlots(overrun', state', news', view', lost')
  /\ CloudKnowsTrueWind <=> KnowsWind(overrun, state, news, view, lost)
  /\ CloudKnowsTrueWind' <=> KnowsWind(overrun', state', news', view', lost')
  BY DEF CloudKnowsSlots, KnowsSlots, CloudKnowsTrueWind, KnowsWind, Latest, LatestOf

\* No line takes back that a value fell in an array.
LEMMA OverrunStays == process_buffer => overrun \subseteq overrun'
  BY DEF process_buffer, BusLine, ValueLine, value_vars

\* A line keeps the cloud informed of the slots.
LEMMA LineTellsSlots ==
  ASSUME FeedInv, CloudKnowsSlots, SlotsInv', process_buffer
  PROVE  CloudKnowsSlots'
<1>1. ASSUME NEW q \in Quantities \ overrun', NEW x \in SourceSlots, state'[q][x].src # 0
      PROVE  LET t == <<q, state'[q][x].src>> IN
             /\ t \in lost' \/ LatestOf(news', view', t) = state'[q][x].value
             /\ \A y \in SourceSlots : state'[q][y].src = state'[q][x].src => y = x
  <2> DEFINE s == state'[q][x].src
             t == <<q, s>>
  <2>1. \A y \in SourceSlots : state'[q][y].src = s => y = x
    BY <1>1 DEF SlotsInv, OneSlot
  <2>2. \A y \in diff_values(state[q], state'[q]) : state'[q][y].src = s => y = x
    BY <2>1 DEF diff_values
  <2>3. IF x \in diff_values(state[q], state'[q])
          THEN t \in lost' \/ LatestOf(news', view', t) = state'[q][x].value
          ELSE (t \in lost => t \in lost') /\ LatestOf(news', view', t) = LatestOf(news, view, t)
    BY <2>2, SlotTold
  <2>4. CASE x \notin diff_values(state[q], state'[q])
    <3>1. PICK o \in SourceSlots : state[q][o] = state'[q][x]
      BY <2>4 DEF diff_values
    <3>2. t \in lost \/ LatestOf(news, view, t) = state'[q][x].value
      BY <1>1, <3>1, OverrunStays, KnowsValuesIs DEF KnowsSlots
    <3> QED BY <2>1, <2>3, <2>4, <3>2
  <2> QED BY <2>1, <2>3, <2>4
<1>2. KnowsSlots(overrun', state', news', view', lost')
  BY <1>1 DEF KnowsSlots
<1> QED BY <1>2, KnowsValuesIs

\* A line keeps the cloud informed of the true wind.
LEMMA LineTellsWind ==
  ASSUME FeedInv, ParserTypeOK, ParserTypeOK', CloudKnowsTrueWind, SlotsInv, SlotsInv',
         process_buffer
  PROVE  CloudKnowsTrueWind'
<1>1. ASSUME NEW q \in (TrueWinds \cap Quantities) \ overrun', state'[q][1].value # Zero
      PROVE  <<q, 0>> \in lost' \/ LatestOf(news', view', <<q, 0>>) = state'[q][1].value
  <2> DEFINE t == <<q, 0>>
  <2>1. 1 \in SourceSlots
    BY ParserAssumption DEF SourceSlots
  <2>2. /\ OnlyComputed(state[q]) /\ OnlyComputed(state'[q])
        /\ state[q] \in [SourceSlots -> Slot] /\ state'[q] \in [SourceSlots -> Slot]
    BY <1>1, OverrunStays DEF SlotsInv, ParserTypeOK
  <2>3. \A y \in SourceSlots : y # 1 => state[q][y] = state'[q][y]
    <3> TAKE y \in SourceSlots
    <3>1. state[q][y] \in Slot /\ state'[q][y] \in Slot
      BY <2>2
    <3>2. y # 1 => /\ state[q][y].src = 0 /\ state[q][y].value = Zero
                   /\ state'[q][y].src = 0 /\ state'[q][y].value = Zero
      BY <2>2 DEF OnlyComputed
    <3> QED BY <3>1, <3>2 DEF Slot
  <2>4. state'[q][1].src = 0
    BY <2>1, <2>2 DEF OnlyComputed
  <2>5. \A y \in diff_values(state[q], state'[q]) : state'[q][y].src = 0 => y = 1
    BY <2>3 DEF diff_values
  <2>6. IF 1 \in diff_values(state[q], state'[q])
          THEN t \in lost' \/ LatestOf(news', view', t) = state'[q][1].value
          ELSE (t \in lost => t \in lost') /\ LatestOf(news', view', t) = LatestOf(news, view, t)
    BY <1>1, <2>1, <2>4, <2>5, SlotTold
  <2>7. CASE 1 \notin diff_values(state[q], state'[q])
    <3>1. PICK o \in SourceSlots : state[q][o] = state'[q][1]
      BY <2>1, <2>7 DEF diff_values
    <3>2. o = 1
      BY <1>1, <2>2, <3>1 DEF OnlyComputed
    <3>3. t \in lost \/ LatestOf(news, view, t) = state'[q][1].value
      BY <1>1, <3>1, <3>2, OverrunStays, KnowsValuesIs DEF KnowsWind
    <3> QED BY <2>6, <2>7, <3>3
  <2> QED BY <2>6, <2>7
<1>2. KnowsWind(overrun', state', news', view', lost')
  BY <1>1 DEF KnowsWind
<1> QED BY <1>2, KnowsValuesIs

\* With all slots empty there is nothing to know.
LEMMA EmptyKnown ==
  ASSUME NEW o, NEW n, NEW w, NEW l
  PROVE  KnowsSlots(o, EmptyState, n, w, l) /\ KnowsWind(o, EmptyState, n, w, l)
<1>1. 1 \in SourceSlots
  BY ParserAssumption DEF SourceSlots
<1>2. \A q \in Quantities, x \in SourceSlots :
        EmptyState[q][x].src = 0 /\ EmptyState[q][x].value = Zero
  BY DEF EmptyState
<1> QED BY <1>1, <1>2 DEF KnowsSlots, KnowsWind

\* A step keeps the cloud informed of the values.
LEMMA ValuesTold ==
  ASSUME FeedInv, ParserTypeOK, ParserTypeOK', SlotsInv, SlotsInv',
         CloudKnowsSlots, CloudKnowsTrueWind, [ViewNext]_all_vars
  PROVE  CloudKnowsSlots' /\ CloudKnowsTrueWind'
<1>1. CASE process_buffer
  BY <1>1, LineTellsSlots, LineTellsWind
<1>2. CASE Deliver \/ Discard
  <2>1. state' = state /\ overrun' = overrun
    BY <1>2 DEF Deliver, Discard, vars, value_vars
  <2>2. \A t : (t \in lost => t \in lost') /\ (t \in lost' \/ LatestOf(news', view', t) = LatestOf(news, view, t))
    BY <1>2, FeedMoves
  <2>3. KnowsSlots(overrun', state', news', view', lost')
    BY <2>1, <2>2, KnowsValuesIs DEF KnowsSlots
  <2>4. KnowsWind(overrun', state', news', view', lost')
    BY <2>1, <2>2, KnowsValuesIs DEF KnowsWind
  <2> QED BY <2>3, <2>4, KnowsValuesIs
<1>3. CASE RestartAll
  <2>1. state' = EmptyState
    BY <1>3 DEF RestartAll, Restart, StartValues
  <2> QED BY <2>1, EmptyKnown, KnowsValuesIs
<1>4. CASE (set_nmea_sources /\ UNCHANGED view_vars) \/ UNCHANGED all_vars
  <2>1. UNCHANGED <<state, overrun, news, view, lost>>
    BY <1>4 DEF set_nmea_sources, all_vars, vars, value_vars, view_vars
  <2> QED BY <2>1, KnowsValuesIs
<1> QED BY <1>1, <1>2, <1>3, <1>4 DEF ViewNext

LEMMA ValuesKnown == ViewSpec => [](CloudKnowsSlots /\ CloudKnowsTrueWind)
<1> DEFINE Good == ParserTypeOK /\ SlotsInv
<1>1. ViewSpec => []Good
  BY ViewKeepsParser, ParserTypes, SlotsInOrder, PTL
<1>2. ViewInit => CloudKnowsSlots /\ CloudKnowsTrueWind
  <2>1. ViewInit => state = EmptyState
    BY DEF ViewInit, Init
  <2> QED BY <2>1, EmptyKnown, KnowsValuesIs
<1>3. CloudKnowsSlots /\ CloudKnowsTrueWind /\ FeedInv /\ Good /\ Good' /\ [ViewNext]_all_vars
        => CloudKnowsSlots' /\ CloudKnowsTrueWind'
  BY ValuesTold
<1> HIDE DEF Good
<1> QED BY <1>1, <1>2, <1>3, FeedKept, PTL DEF ViewSpec

\* No source has two slots, and the cloud knows, or will, the value in each
\* unless the latest news of it was lost: for every number of sources, slots and
\* values, over losses and restarts, but for the quantities that values past
\* another's array fell in.
THEOREM CloudIsToldSlots == ViewSpec => []CloudKnowsSlots
  BY ValuesKnown, PTL

\* The same of the computed true wind that is not zero.
THEOREM CloudIsToldTrueWind == ViewSpec => []CloudKnowsTrueWind
  BY ValuesKnown, PTL

\* The parser and the feed have their types, and each message pending is one
\* difference.
THEOREM ViewTypes == ViewSpec => []ViewTypeOK
<1>1. ViewSpec => []ParserTypeOK
  BY ViewKeepsParser, ParserTypes
<1>2. FeedInv /\ ParserTypeOK => ViewTypeOK
  BY DEF FeedInv, ViewTypeOK
<1> QED BY <1>1, <1>2, FeedKept, PTL
=============================================================================
