-------------------------- MODULE NmeaClaims_proofs --------------------------
(***************************************************************************)
(* Proofs about NmeaClaims: types, a name at one address only, no claim    *)
(* lost, and no device found at an address it is known to have left.       *)
(***************************************************************************)
EXTENDS NmeaClaims, FiniteSetTheorems, WellFoundedInduction, TLAPS

\* A set of naturals has a first element.
LEMMA FirstIn ==
  ASSUME NEW S \in SUBSET Nat, S # {}
  PROVE  First(S) \in S /\ \A y \in S : First(S) <= y
<1> DEFINE R == {r \in Nat \X Nat : r[1] < r[2]}
<1>1. OpToRel(<, Nat) = R
  BY DEF OpToRel
<1>2. IsWellFoundedOn(R, Nat)
  BY <1>1, NatLessThanWellFounded
<1>3. \A x, y \in Nat : y < x => <<y, x>> \in R
  OBVIOUS
<1> HIDE DEF R
<1>4. \E x \in S : \A y \in S : ~(<<y, x>> \in R)
  BY <1>2, WFMin
<1>5. PICK x \in S : \A y \in S : ~(<<y, x>> \in R)
  BY <1>4
<1>6. \A y \in S : ~(y < x)
  BY <1>3, <1>5
<1>7. \A y \in S : x <= y
  BY <1>6
<1> QED BY <1>7 DEF First

\* A table of claims is in order: its entries with an address have names, and
\* come before every other entry of the name, with an address or stale.
LiveIn(t) == {x \in Slots : t[x].src # 0}
Named(t) == \A x \in LiveIn(t) : t[x].unique_number \in Names
LiveFirst(t) ==
  \A x \in LiveIn(t), y \in Slots :
    t[x].unique_number = t[y].unique_number => x <= y
InOrder(t) == t \in [Slots -> Claim] /\ Named(t) /\ LiveFirst(t)

\* Freeing the old entries of a name keeps a table in order, and leaves the
\* name no address but an exact one: a stale entry found exact comes after.
LEMMA FreeOldInOrder ==
  ASSUME InOrder(claims), NEW s \in Addresses, NEW n \in Names
  PROVE  /\ InOrder(FreeOld(s, n))
         /\ \A x \in LiveIn(FreeOld(s, n)) :
              /\ FreeOld(s, n)[x] = claims[x]
              /\ claims[x].unique_number = n => claims[x].src = s
<1> DEFINE old == FreeOld(s, n)
<1>0. Slots \subseteq Int /\ \A x \in Slots : claims[x] \in Claim
  BY ClaimsAssumption DEF Slots, InOrder
<1>1. \A x \in Slots :
        old[x] = IF claims[x].unique_number = n /\ \A e \in Exact(s, n) : x < e
                   THEN [claims[x] EXCEPT !.src = 0] ELSE claims[x]
  BY DEF FreeOld
<1>2. old \in [Slots -> Claim]
  BY <1>0 DEF FreeOld, Claim
<1>3. \A x \in Slots : old[x].unique_number = claims[x].unique_number
  BY <1>0, <1>1 DEF Claim
<1>4. \A x \in LiveIn(old) : old[x] = claims[x] /\ x \in LiveIn(claims)
  BY <1>0, <1>1 DEF LiveIn, Claim
<1>5. \A x \in LiveIn(old) : claims[x].unique_number = n => claims[x].src = s
  <2> SUFFICES ASSUME NEW x \in LiveIn(old), claims[x].unique_number = n
               PROVE  claims[x].src = s
    OBVIOUS
  <2>1. x \in Slots /\ old[x].src # 0 /\ x \in LiveIn(claims)
    BY <1>4 DEF LiveIn
  <2>2. PICK e \in Exact(s, n) : ~(x < e)
    BY <2>1, <1>0, <1>1 DEF Claim
  <2>3. e \in Slots /\ claims[e].unique_number = n /\ claims[e].src = s
    BY DEF Exact
  <2>4. x <= e
    BY <2>1, <2>3, <1>0 DEF InOrder, LiveFirst
  <2> QED BY <2>1, <2>2, <2>3, <2>4, <1>0
<1>6. Named(old)
  BY <1>4 DEF InOrder, Named
<1>7. LiveFirst(old)
  BY <1>3, <1>4 DEF InOrder, LiveFirst
<1> HIDE DEF old
<1>8. InOrder(old)
  BY <1>2, <1>6, <1>7 DEF InOrder
<1> QED BY <1>4, <1>5, <1>8 DEF old

\* A claim keeps a table in order, leaves the other names where they are, and
\* gives the name no address but the one it claims.
LEMMA ClaimInOrder ==
  ASSUME InOrder(claims), NEW s \in Addresses, NEW n \in Names
  PROVE  /\ InOrder(update_nmea_claim(s, n))
         /\ \A x \in LiveIn(update_nmea_claim(s, n)) :
              LET t == update_nmea_claim(s, n) IN
                IF t[x].unique_number = n THEN t[x].src = s
                ELSE t[x] = claims[x] /\ x \in LiveIn(claims)
<1> DEFINE old == FreeOld(s, n)
           free == FreeIn(old)
           t == update_nmea_claim(s, n)
           new == [src |-> s, unique_number |-> n]
<1>1. /\ InOrder(old)
      /\ \A x \in LiveIn(old) : old[x] = claims[x]
                                /\ (claims[x].unique_number = n => claims[x].src = s)
  BY FreeOldInOrder
<1>2. \A x \in LiveIn(old) : x \in LiveIn(claims)
  BY <1>1 DEF LiveIn
<1>3. CASE Exact(s, n) # {} \/ free = {}
  <2>1. t = old
    BY <1>3 DEF update_nmea_claim
  <2> QED BY <2>1, <1>1, <1>2
<1>4. CASE ~(Exact(s, n) # {} \/ free = {})
  <2> DEFINE f == First(free)
  <2>1. t = [old EXCEPT ![f] = new]
    BY <1>4 DEF update_nmea_claim
  <2>2. free \in SUBSET Nat /\ free # {}
    BY <1>4, ClaimsAssumption DEF FreeIn, Slots
  <2>3. f \in free /\ \A y \in free : f <= y
    BY <2>2, FirstIn
  <2>4. f \in Slots /\ old[f].src = 0 /\ old \in [Slots -> Claim] /\ Slots \subseteq Int
    BY <2>3, <1>1, ClaimsAssumption DEF FreeIn, InOrder, Slots
  <2>5. new \in Claim
    BY DEF Claim
  <2> HIDE DEF old, free, f, t, new
  <2>6. t \in [Slots -> Claim]
    BY <2>1, <2>4, <2>5
  <2>7. /\ t[f] = new
        /\ \A x \in Slots : x # f => t[x] = old[x]
    BY <2>1, <2>4
  <2>8. \A x \in LiveIn(t) : x # f => x \in LiveIn(old) /\ t[x] = old[x]
    BY <2>7 DEF LiveIn
  <2>9. new.src = s /\ new.unique_number = n
    BY DEF new
  <2>10. Named(t)
    BY <2>7, <2>8, <2>9, <1>1 DEF InOrder, Named
  <2>11. \A x \in LiveIn(old) : claims[x].unique_number # n
    <3> SUFFICES ASSUME NEW x \in LiveIn(old), claims[x].unique_number = n PROVE FALSE
      OBVIOUS
    <3>1. x \in Slots /\ claims[x].src = s /\ claims[x] \in Claim
      BY <1>1 DEF LiveIn, InOrder
    <3>2. claims[x] = [src |-> s, unique_number |-> n]
      BY <3>1 DEF Claim
    <3> QED BY <3>1, <3>2, <1>4 DEF Exact
  <2>12. LiveFirst(t)
    <3> SUFFICES ASSUME NEW x \in LiveIn(t), NEW y \in Slots,
                        t[x].unique_number = t[y].unique_number
                 PROVE  x <= y
      BY DEF LiveFirst
    <3>0. x \in Slots /\ x \in Int /\ y \in Int
      BY <2>4 DEF LiveIn
    <3>1. CASE x = f /\ y = f
      BY <3>0, <3>1
    <3>2. CASE x = f /\ y # f
      <4>1. t[y] = old[y] /\ old[y].unique_number = n
        BY <3>2, <2>7, <2>9
      <4>2. y \notin LiveIn(old)
        BY <4>1, <2>11, <1>1
      <4>3. y \in free
        BY <4>2 DEF LiveIn, FreeIn, free
      <4> QED BY <4>3, <3>2, <2>3
    <3>3. CASE x # f /\ y = f
      BY <3>3, <2>7, <2>8, <2>9, <2>11, <1>1
    <3>4. CASE x # f /\ y # f
      BY <3>4, <2>7, <2>8, <1>1 DEF InOrder, LiveFirst
    <3> QED BY <3>1, <3>2, <3>3, <3>4
  <2>13. InOrder(t)
    BY <2>6, <2>10, <2>12 DEF InOrder
  <2>14. \A x \in LiveIn(t) : IF t[x].unique_number = n THEN t[x].src = s
                              ELSE t[x] = claims[x] /\ x \in LiveIn(claims)
    BY <2>7, <2>8, <2>9, <2>11, <1>1, <1>2
  <2> QED BY <2>13, <2>14 DEF t
<1> QED BY <1>3, <1>4
-----------------------------------------------------------------------------
\* What a save cut short leaves is a state of the tables, no longer and in
\* order if the state saved was.
LEMMA TornIsState ==
  ASSUME NEW c \in ClaimState, NEW f \in Torn(c)
  PROVE  /\ f \in ClaimState
         /\ Len(f.devices) <= Len(c.devices)
         /\ InOrder(c.claims) => InOrder(f.claims)
<1> USE ClaimsAssumption
<1> DEFINE Prefix(n) == [x \in Slots |-> IF x <= n THEN c.claims[x] ELSE NoClaim]
           Empty == [x \in Slots |-> NoClaim]
<1>0. /\ c.claims \in [Slots -> Claim] /\ c.devices \in Seq(Device)
      /\ NoClaim \in Claim /\ NoClaim.src = 0 /\ Slots \subseteq Int
  BY DEF ClaimState, NoClaim, Claim, Slots
<1>1. \A n \in Slots : Prefix(n) \in [Slots -> Claim]
                       /\ (InOrder(c.claims) => InOrder(Prefix(n)))
  <2> SUFFICES ASSUME NEW n \in Slots
               PROVE  Prefix(n) \in [Slots -> Claim] /\ (InOrder(c.claims) => InOrder(Prefix(n)))
    OBVIOUS
  <2>1. Prefix(n) \in [Slots -> Claim]
    BY <1>0
  <2>2. \A x \in LiveIn(Prefix(n)) : x <= n /\ x \in LiveIn(c.claims) /\ Prefix(n)[x] = c.claims[x]
    BY <1>0 DEF LiveIn
  <2>3. \A y \in Slots : y <= n => Prefix(n)[y] = c.claims[y]
    OBVIOUS
  <2> HIDE DEF Prefix
  <2>4. ASSUME InOrder(c.claims) PROVE InOrder(Prefix(n))
    <3>1. Named(Prefix(n))
      BY <2>2, <2>4 DEF InOrder, Named
    <3>2. LiveFirst(Prefix(n))
      <4> SUFFICES ASSUME NEW x \in LiveIn(Prefix(n)), NEW y \in Slots,
                          Prefix(n)[x].unique_number = Prefix(n)[y].unique_number
                   PROVE  x <= y
        BY DEF LiveFirst
      <4>1. x \in Int /\ y \in Int /\ n \in Int /\ x <= n
        BY <1>0, <2>2 DEF LiveIn
      <4>2. CASE y <= n
        BY <4>2, <2>2, <2>3, <2>4 DEF InOrder, LiveFirst
      <4> QED BY <4>1, <4>2
    <3> QED BY <2>1, <3>1, <3>2 DEF InOrder
  <2> QED BY <2>1, <2>4
<1>2. Empty \in [Slots -> Claim] /\ InOrder(Empty)
  <2>1. LiveIn(Empty) = {}
    BY <1>0 DEF LiveIn
  <2> QED BY <1>0, <2>1 DEF InOrder, Named, LiveFirst
<1>3. ASSUME NEW n \in 1 .. Len(c.devices)
      PROVE  LET d == SubSeq(c.devices, 1, n)
                 e == [d EXCEPT ![n].model = Blank]
             IN d \in Seq(Device) /\ Len(d) <= Len(c.devices)
                /\ e \in Seq(Device) /\ Len(e) <= Len(c.devices)
  <2> DEFINE d == SubSeq(c.devices, 1, n)
             last == [d[n] EXCEPT !.model = Blank]
  <2>1. Len(c.devices) \in Nat /\ n \in 1 .. Len(c.devices)
    BY <1>0
  <2>2. d \in Seq(Device) /\ Len(d) = n
    BY <1>0, <2>1
  <2>3. d[n] \in Device
    BY <2>1, <2>2
  <2>4. last \in Device
    BY <2>3 DEF Device
  <2>5. [d EXCEPT ![n].model = Blank] = [d EXCEPT ![n] = last]
    OBVIOUS
  <2> HIDE DEF d, last
  <2>6. [d EXCEPT ![n] = last] \in Seq(Device) /\ Len([d EXCEPT ![n] = last]) = n
    BY <2>1, <2>2, <2>4
  <2>7. n <= Len(c.devices)
    BY <2>1
  <2>8. /\ d \in Seq(Device) /\ Len(d) <= Len(c.devices)
        /\ [d EXCEPT ![n].model = Blank] \in Seq(Device)
        /\ Len([d EXCEPT ![n].model = Blank]) <= Len(c.devices)
    BY <2>2, <2>5, <2>6, <2>7
  <2> QED BY <2>8 DEF d
<1>4. CASE \E n \in Slots : f = [claims |-> Prefix(n), devices |-> c.devices]
  <2>1. PICK n \in Slots : f = [claims |-> Prefix(n), devices |-> c.devices]
    BY <1>4
  <2> HIDE DEF Prefix
  <2>2. f.claims = Prefix(n) /\ f.devices = c.devices
    BY <2>1
  <2>3. f \in ClaimState
    BY <2>1, <1>0, <1>1 DEF ClaimState
  <2>4. Len(f.devices) <= Len(c.devices)
    BY <1>0, <2>2
  <2> QED BY <2>2, <2>3, <2>4, <1>1
<1>5. CASE \E d \in Seq(Device) : Len(d) <= Len(c.devices) /\ f = [claims |-> Empty, devices |-> d]
  <2>1. PICK d \in Seq(Device) :
          Len(d) <= Len(c.devices) /\ f = [claims |-> Empty, devices |-> d]
    BY <1>5
  <2> HIDE DEF Empty
  <2>2. f \in ClaimState
    BY <2>1, <1>2 DEF ClaimState
  <2> QED BY <2>1, <2>2, <1>2
<1> DEFINE none == << >>
<1>6. none \in Seq(Device) /\ Len(none) <= Len(c.devices)
  BY <1>0
<1> DEFINE Cut(n) == {SubSeq(c.devices, 1, n), [SubSeq(c.devices, 1, n) EXCEPT ![n].model = Blank]}
<1>7. \/ \E n \in Slots : f = [claims |-> Prefix(n), devices |-> c.devices]
      \/ \E d \in {none} \cup UNION {Cut(n) : n \in 1 .. Len(c.devices)} :
           f = [claims |-> Empty, devices |-> d]
  BY DEF Torn
<1>8. ASSUME NEW n \in 1 .. Len(c.devices), NEW d \in Cut(n)
      PROVE  d \in Seq(Device) /\ Len(d) <= Len(c.devices)
  <2>1. CASE d = SubSeq(c.devices, 1, n)
    BY <2>1, <1>3
  <2>2. CASE d = [SubSeq(c.devices, 1, n) EXCEPT ![n].model = Blank]
    BY <2>2, <1>3
  <2> QED BY <2>1, <2>2
<1> HIDE DEF Prefix, Empty, Cut, none
<1>9. \A d \in {none} \cup UNION {Cut(n) : n \in 1 .. Len(c.devices)} :
        d \in Seq(Device) /\ Len(d) <= Len(c.devices)
  <2> SUFFICES ASSUME NEW d \in {none} \cup UNION {Cut(n) : n \in 1 .. Len(c.devices)}
               PROVE  d \in Seq(Device) /\ Len(d) <= Len(c.devices)
    OBVIOUS
  <2>1. CASE \E n \in 1 .. Len(c.devices) : d \in Cut(n)
    BY <2>1, <1>8
  <2>2. CASE d = none
    BY <2>2, <1>6
  <2> QED BY <2>1, <2>2
<1> QED BY <1>4, <1>5, <1>7, <1>9
-----------------------------------------------------------------------------
\* The inductive invariant: types, and both tables of claims in order.
TableInv ==
  /\ ClaimsTypeOK
  /\ InOrder(claims) /\ InOrder(claim_file.claims)
  /\ Len(claim_file.devices) <= MaxDevices

\* The search for an address ends at an entry that has it.
LEMMA FoundHolds ==
  ASSUME claims \in [Slots -> Claim], NEW s \in Addresses, Holding(s) # {}
  PROVE  /\ First(Holding(s)) \in Slots
         /\ claims[First(Holding(s))].src = s
         /\ get_unique_number(s) = claims[First(Holding(s))].unique_number
<1>1. Holding(s) \in SUBSET Nat
  BY ClaimsAssumption DEF Holding, Slots
<1>2. First(Holding(s)) \in Holding(s)
  BY <1>1, FirstIn
<1> QED BY <1>2 DEF Holding, get_unique_number

\* The table of devices stays a table of its size.
LEMMA DevicesAfterType ==
  ASSUME ClaimsTypeOK, NEW s \in Addresses, NEW m \in Models
  PROVE  DevicesAfter(s, m) \in Seq(Device) /\ Len(DevicesAfter(s, m)) <= MaxDevices
<1>0. devices \in Seq(Device) /\ Len(devices) \in Nat /\ Len(devices) <= MaxDevices
      /\ MaxDevices \in Nat
  BY ClaimsAssumption DEF ClaimsTypeOK
<1>1. CASE Holding(s) = {}
  BY <1>0, <1>1 DEF DevicesAfter
<1>2. CASE Holding(s) # {}
  <2> DEFINE n == get_unique_number(s)
             d == [unique_number |-> n, model |-> m]
  <2>1. n \in Names \cup {Blank}
    BY <1>2, FoundHolds DEF ClaimsTypeOK, Claim
  <2>2. d \in Device
    BY <2>1 DEF Device
  <2>3. DevicesAfter(s, m) = update_nmea_device(n, m)
    BY <1>2 DEF DevicesAfter
  <2> HIDE DEF d
  <2>4. Append(devices, d) \in Seq(Device) /\ Len(Append(devices, d)) = Len(devices) + 1
    BY <1>0, <2>2
  <2>5. update_nmea_device(n, m) \in {devices, Append(devices, d)}
        /\ (Len(devices) = MaxDevices => update_nmea_device(n, m) = devices)
    BY DEF update_nmea_device, d
  <2> QED BY <1>0, <2>3, <2>4, <2>5
<1> QED BY <1>1, <1>2

\* A start from a file that is a state of the tables, in order.
LEMMA StartInOrder ==
  ASSUME NEW f \in ClaimState, Len(f.devices) <= MaxDevices, InOrder(f.claims), StartClaims(f)
  PROVE  TableInv'
<1>1. claim_file' = f /\ claims' = f.claims /\ devices' = f.devices
      /\ unsaved' = FALSE /\ heard' = Silence
  BY DEF StartClaims
<1>2. f.claims \in [Slots -> Claim] /\ f.devices \in Seq(Device)
  BY DEF ClaimState
<1>3. Silence \in [Names -> Addresses \cup {Unheard}]
  BY DEF Silence
<1>4. ClaimsTypeOK'
  BY <1>1, <1>2, <1>3 DEF ClaimsTypeOK
<1>5. InOrder(claims)' /\ InOrder(claim_file.claims)'
  BY <1>1 DEF InOrder, Named, LiveFirst, LiveIn
<1> QED BY <1>1, <1>4, <1>5 DEF TableInv

\* The first state has empty tables.
LEMMA InitInOrder == ClaimsInit => TableInv
<1> SUFFICES ASSUME ClaimsInit PROVE TableInv
  OBVIOUS
<1>0. NoClaim \in Claim /\ NoClaim.src = 0
  BY DEF NoClaim, Claim
<1>1. claims \in [Slots -> Claim] /\ \A x \in Slots : claims[x].src = 0
  BY <1>0 DEF ClaimsInit
<1>2. devices = << >> /\ devices \in Seq(Device) /\ Len(devices) = 0
  BY DEF ClaimsInit
<1>3. claim_file.claims = claims /\ claim_file.devices = devices /\ claim_file \in ClaimState
  BY <1>1, <1>2 DEF ClaimsInit, ClaimState
<1>4. unsaved \in BOOLEAN /\ heard \in [Names -> Addresses \cup {Unheard}]
  BY DEF ClaimsInit, Silence
<1>5. InOrder(claims)
  BY <1>1 DEF InOrder, Named, LiveFirst, LiveIn
<1> QED BY <1>1, <1>2, <1>3, <1>4, <1>5, ClaimsAssumption DEF TableInv, ClaimsTypeOK

\* A save of tables in order leaves a file in order, whole or torn.
LEMMA SaveInOrder ==
  ASSUME TableInv, NEW c \in ClaimState, InOrder(c.claims), Len(c.devices) <= MaxDevices,
         save_state(c)
  PROVE  /\ claim_file' \in ClaimState /\ InOrder(claim_file'.claims)
         /\ Len(claim_file'.devices) <= MaxDevices /\ unsaved' \in BOOLEAN
<1>0. /\ claim_file \in ClaimState /\ InOrder(claim_file.claims)
      /\ Len(claim_file.devices) <= MaxDevices
  BY DEF TableInv, ClaimsTypeOK
<1>1. unsaved' \in BOOLEAN
  BY DEF save_state
<1>2. CASE claim_file' = c
  BY <1>1, <1>2
<1>3. CASE claim_file' = claim_file
  BY <1>0, <1>1, <1>3
<1>4. ASSUME claim_file' \in Torn(c)
      PROVE  /\ claim_file' \in ClaimState /\ InOrder(claim_file'.claims)
             /\ Len(claim_file'.devices) <= MaxDevices
  <2>1. /\ claim_file' \in ClaimState /\ InOrder(claim_file'.claims)
        /\ Len(claim_file'.devices) <= Len(c.devices)
    BY <1>4, TornIsState
  <2>2. /\ Len(c.devices) \in Nat /\ Len(claim_file'.devices) \in Nat /\ MaxDevices \in Nat
    BY <2>1, ClaimsAssumption DEF ClaimState
  <2> QED BY <2>1, <2>2
<1> QED BY <1>1, <1>2, <1>3, <1>4 DEF save_state

\* Every step keeps the tables in order.
LEMMA StepInOrder == TableInv /\ [ClaimsNext]_claim_vars => TableInv'
<1> SUFFICES ASSUME TableInv, [ClaimsNext]_claim_vars PROVE TableInv'
  OBVIOUS
<1>0. /\ ClaimsTypeOK /\ InOrder(claims) /\ InOrder(claim_file.claims)
      /\ Len(claim_file.devices) <= MaxDevices /\ Len(devices) <= MaxDevices
      /\ claims \in [Slots -> Claim] /\ devices \in Seq(Device)
      /\ claim_file \in ClaimState
      /\ Len(devices) \in Nat /\ MaxDevices \in Nat
  BY ClaimsAssumption DEF TableInv, ClaimsTypeOK
<1>1. ASSUME NEW s \in Addresses, NEW n \in Names, ClaimLine(s, n) PROVE TableInv'
  <2> DEFINE c == [claims |-> claims', devices |-> devices]
  <2>1. claims' = update_nmea_claim(s, n) /\ devices' = devices
    BY <1>1 DEF ClaimLine
  <2>2. InOrder(claims') /\ claims' \in [Slots -> Claim]
    BY <2>1, <1>0, ClaimInOrder DEF InOrder
  <2>3. heard' \in [Names -> Addresses \cup {Unheard}]
    BY <1>1, <1>0 DEF ClaimLine, Hear, ClaimsTypeOK
  <2>4. c \in ClaimState /\ InOrder(c.claims) /\ Len(c.devices) <= MaxDevices
    BY <2>2, <1>0 DEF ClaimState
  <2>5. save_state(c)
    BY <1>1 DEF ClaimLine
  <2> HIDE DEF c
  <2>6. /\ claim_file' \in ClaimState /\ InOrder(claim_file'.claims)
        /\ Len(claim_file'.devices) <= MaxDevices /\ unsaved' \in BOOLEAN
    BY <2>4, <2>5, SaveInOrder
  <2>7. ClaimsTypeOK'
    BY <2>1, <2>2, <2>3, <2>6, <1>0 DEF ClaimsTypeOK
  <2> QED BY <2>2, <2>6, <2>7 DEF TableInv, InOrder, Named, LiveFirst, LiveIn
<1>2. ASSUME NEW s \in Addresses, NEW m \in Models, DeviceLine(s, m) PROVE TableInv'
  <2> DEFINE c == [claims |-> claims, devices |-> devices']
  <2>1. devices' = DevicesAfter(s, m) /\ claims' = claims /\ heard' = heard
    BY <1>2 DEF DeviceLine
  <2>2. devices' \in Seq(Device) /\ Len(devices') <= MaxDevices
    BY <2>1, <1>0, DevicesAfterType
  <2>3. c \in ClaimState /\ InOrder(c.claims) /\ Len(c.devices) <= MaxDevices
    BY <2>2, <1>0 DEF ClaimState
  <2>4. save_state(c)
    BY <1>2 DEF DeviceLine
  <2> HIDE DEF c
  <2>5. /\ claim_file' \in ClaimState /\ InOrder(claim_file'.claims)
        /\ Len(claim_file'.devices) <= MaxDevices /\ unsaved' \in BOOLEAN
    BY <2>3, <2>4, SaveInOrder
  <2>6. ClaimsTypeOK'
    BY <2>1, <2>2, <2>5, <1>0 DEF ClaimsTypeOK
  <2> QED BY <2>1, <2>5, <2>6, <1>0 DEF TableInv, InOrder, Named, LiveFirst, LiveIn
<1>3. CASE CrashClaims
  BY <1>3, <1>0, StartInOrder DEF CrashClaims
<1>4. CASE UNCHANGED claim_vars
  BY <1>4, <1>0 DEF claim_vars, TableInv, ClaimsTypeOK, InOrder, Named, LiveFirst, LiveIn
<1> QED BY <1>1, <1>2, <1>3, <1>4 DEF ClaimsNext

\* The tables are always in order: a stale entry of a name never comes before
\* the one with its address, through moves, restarts and torn files.
THEOREM TablesInOrder == ClaimsSpec => []TableInv
  BY InitInOrder, StepInOrder, PTL DEF ClaimsSpec

\* The types of the tables, the file and the histories.
THEOREM ClaimsTypes == ClaimsSpec => []ClaimsTypeOK
<1>1. TableInv => ClaimsTypeOK
  BY DEF TableInv
<1> QED BY <1>1, TablesInOrder, PTL

\* No name is ever at two addresses.
THEOREM NamesAtOneAddress == ClaimsSpec => []OneAddressPerName
<1>1. TableInv => OneAddressPerName
  <2> SUFFICES ASSUME TableInv, NEW x \in Live, NEW y \in Live,
                      claims[x].unique_number = claims[y].unique_number
               PROVE  x = y
    BY DEF OneAddressPerName
  <2>1. x \in LiveIn(claims) /\ y \in LiveIn(claims) /\ x \in Int /\ y \in Int
    BY ClaimsAssumption DEF Live, LiveIn, Slots
  <2>2. x <= y /\ y <= x
    BY <2>1 DEF TableInv, InOrder, LiveFirst, LiveIn
  <2> QED BY <2>1, <2>2
<1> QED BY <1>1, TablesInOrder, PTL
-----------------------------------------------------------------------------
\* There is room for a claim: with no free entry after a name's entries are
\* freed, all the entries would belong to the other names, which are fewer.
LEMMA RoomForClaim ==
  ASSUME InOrder(claims), NEW s \in Addresses \ {0}, NEW n \in Names, Exact(s, n) = {}
  PROVE  FreeIn(FreeOld(s, n)) # {}
<1> DEFINE old == FreeOld(s, n)
           holder == [x \in Slots |-> old[x].unique_number]
           Others == Names \ {n}
<1> SUFFICES ASSUME FreeIn(old) = {} PROVE FALSE
  OBVIOUS
<1>0. /\ IsFiniteSet(Names) /\ MaxClaims \in Nat \ {0} /\ Cardinality(Names) <= MaxClaims
      /\ Slots = 1 .. MaxClaims
  BY ClaimsAssumption DEF Slots
<1>1. /\ InOrder(old)
      /\ \A x \in LiveIn(old) : old[x] = claims[x]
                                /\ (claims[x].unique_number = n => claims[x].src = s)
  BY FreeOldInOrder
<1>2. \A x \in Slots : x \in LiveIn(old)
  BY DEF FreeIn, LiveIn
<1> HIDE DEF old
<1>3. \A x \in Slots : old[x].unique_number # n
  <2> SUFFICES ASSUME NEW x \in Slots, old[x].unique_number = n PROVE FALSE
    OBVIOUS
  <2>1. claims[x].unique_number = n /\ claims[x].src = s /\ claims[x] \in Claim
    BY <1>1, <1>2 DEF InOrder
  <2>2. claims[x] = [src |-> s, unique_number |-> n]
    BY <2>1 DEF Claim
  <2> QED BY <2>2 DEF Exact
<1>4. holder \in [Slots -> Others]
  BY <1>1, <1>2, <1>3 DEF InOrder, Named
<1>5. IsFiniteSet(Slots) /\ Cardinality(Slots) = MaxClaims
  BY <1>0, FS_Interval
<1>6. IsFiniteSet(Others) /\ Cardinality(Others) = Cardinality(Names) - 1
  BY <1>0, FS_RemoveElement
<1>7. Cardinality(Names) \in Nat
  BY <1>0, FS_CardinalityType
<1>8. Cardinality(Others) < Cardinality(Slots)
  BY <1>0, <1>5, <1>6, <1>7
<1> HIDE DEF holder, Others
<1>9. \E x, y \in Slots : x # y /\ holder[x] = holder[y]
  BY <1>4, <1>5, <1>6, <1>8, FS_PigeonHole
<1>10. PICK x \in Slots, y \in Slots : x # y /\ old[x].unique_number = old[y].unique_number
  BY <1>9 DEF holder
<1>11. x <= y /\ y <= x /\ x \in Int /\ y \in Int
  BY <1>0, <1>1, <1>2, <1>10 DEF InOrder, LiveFirst
<1> QED BY <1>10, <1>11

\* After a claim the name is listed where it claims to be, and the other names
\* are listed where they were.
LEMMA ClaimListed ==
  ASSUME InOrder(claims), NEW s \in Addresses, NEW n \in Names
  PROVE  LET t == update_nmea_claim(s, n) IN
           /\ s # 0 => \E x \in Slots : t[x] = [src |-> s, unique_number |-> n]
           /\ \A x \in LiveIn(claims) : claims[x].unique_number # n => t[x] = claims[x]
<1> DEFINE old == FreeOld(s, n)
           free == FreeIn(old)
           t == update_nmea_claim(s, n)
           new == [src |-> s, unique_number |-> n]
<1>0. Slots \subseteq Int /\ \A x \in Slots : claims[x] \in Claim
  BY ClaimsAssumption DEF Slots, InOrder
<1>1. \A x \in Slots :
        old[x] = IF claims[x].unique_number = n /\ \A e \in Exact(s, n) : x < e
                   THEN [claims[x] EXCEPT !.src = 0] ELSE claims[x]
  BY DEF FreeOld
<1>2. \A x \in LiveIn(claims) : claims[x].unique_number # n => old[x] = claims[x]
  BY <1>1 DEF LiveIn
<1>3. \A e \in Exact(s, n) : e \in Slots /\ old[e] = new
  <2> SUFFICES ASSUME NEW e \in Exact(s, n) PROVE e \in Slots /\ old[e] = new
    OBVIOUS
  <2>1. e \in Slots /\ e \in Int /\ claims[e] = new
    BY <1>0 DEF Exact
  <2>2. ~(e < e)
    BY <2>1
  <2> QED BY <2>1, <2>2, <1>1
<1>4. CASE Exact(s, n) # {} \/ free = {}
  <2>1. t = old
    BY <1>4 DEF update_nmea_claim
  <2>2. s # 0 => Exact(s, n) # {}
    BY <1>4, RoomForClaim
  <2> QED BY <2>1, <2>2, <1>2, <1>3
<1>5. CASE ~(Exact(s, n) # {} \/ free = {})
  <2> DEFINE f == First(free)
  <2>1. t = [old EXCEPT ![f] = new]
    BY <1>5 DEF update_nmea_claim
  <2>2. free \in SUBSET Nat /\ free # {}
    BY <1>5, ClaimsAssumption DEF FreeIn, Slots
  <2>3. f \in free
    BY <2>2, FirstIn
  <2>4. f \in Slots /\ old[f].src = 0 /\ DOMAIN old = Slots
    BY <2>3 DEF FreeIn, FreeOld
  <2> HIDE DEF old, free, f, t, new
  <2>5. t[f] = new /\ \A x \in Slots : x # f => t[x] = old[x]
    BY <2>1, <2>4
  <2>6. \A x \in LiveIn(claims) : claims[x].unique_number # n => x # f /\ t[x] = claims[x]
    BY <1>2, <2>4, <2>5 DEF LiveIn
  <2> QED BY <2>4, <2>5, <2>6 DEF t, new
<1> QED BY <1>4, <1>5

\* The table and the claims heard agree: an entry is where its name was last
\* heard or of a name not heard, and a name heard is listed.
HeardInv ==
  /\ \A x \in LiveIn(claims) : heard[claims[x].unique_number] \in {claims[x].src, Unheard}
  /\ HeardIsListed

\* Every step keeps the agreement.
LEMMA StepHeard == TableInv /\ HeardInv /\ [ClaimsNext]_claim_vars => HeardInv'
<1> SUFFICES ASSUME TableInv, HeardInv, [ClaimsNext]_claim_vars PROVE HeardInv'
  OBVIOUS
<1>0. InOrder(claims) /\ claims \in [Slots -> Claim] /\ heard \in [Names -> Addresses \cup {Unheard}]
  BY DEF TableInv, ClaimsTypeOK
<1>1. ASSUME NEW s \in Addresses, NEW n \in Names, ClaimLine(s, n) PROVE HeardInv'
  <2> DEFINE t == update_nmea_claim(s, n)
  <2>1. claims' = t
    BY <1>1 DEF ClaimLine
  <2>2. \A k \in Names : heard'[k] = IF k = n THEN s ELSE IF heard[k] = s THEN Unheard ELSE heard[k]
    BY <1>1 DEF ClaimLine, Hear
  <2>3. /\ InOrder(t)
        /\ \A x \in LiveIn(t) : IF t[x].unique_number = n THEN t[x].src = s
                                ELSE t[x] = claims[x] /\ x \in LiveIn(claims)
    BY <1>0, ClaimInOrder
  <2>4. /\ s # 0 => \E x \in Slots : t[x] = [src |-> s, unique_number |-> n]
        /\ \A x \in LiveIn(claims) : claims[x].unique_number # n => t[x] = claims[x]
    BY <1>0, ClaimListed
  <2> HIDE DEF t
  <2>5. \A x \in LiveIn(t) : heard'[t[x].unique_number] \in {t[x].src, Unheard}
    <3> SUFFICES ASSUME NEW x \in LiveIn(t)
                 PROVE  heard'[t[x].unique_number] \in {t[x].src, Unheard}
      OBVIOUS
    <3>1. t[x].unique_number \in Names
      BY <2>3 DEF InOrder, Named
    <3>2. CASE t[x].unique_number = n
      BY <3>2, <2>2, <2>3
    <3>3. CASE t[x].unique_number # n
      BY <3>1, <3>3, <2>2, <2>3 DEF HeardInv
    <3> QED BY <3>2, <3>3
  <2>6. ASSUME NEW k \in Names, heard'[k] \notin {0, Unheard}
        PROVE  \E x \in Slots : t[x] = [src |-> heard'[k], unique_number |-> k]
    <3>1. CASE k = n
      BY <3>1, <2>2, <2>4, <2>6
    <3>2. CASE k # n
      <4>1. heard'[k] = heard[k]
        BY <3>2, <2>2, <2>6
      <4>2. PICK x \in Slots : claims[x] = [src |-> heard[k], unique_number |-> k]
        BY <4>1, <2>6 DEF HeardInv, HeardIsListed
      <4>3. x \in LiveIn(claims) /\ claims[x].unique_number # n
        BY <4>1, <4>2, <3>2, <2>6 DEF LiveIn
      <4> QED BY <4>1, <4>2, <4>3, <2>4
    <3> QED BY <3>1, <3>2
  <2> QED BY <2>1, <2>5, <2>6 DEF HeardInv, HeardIsListed, LiveIn
<1>2. ASSUME UNCHANGED <<claims, heard>> PROVE HeardInv'
  BY <1>2 DEF HeardInv, HeardIsListed, LiveIn
<1>3. ASSUME NEW f, StartClaims(f), InOrder(claims)' PROVE HeardInv'
  <2>1. \A k \in Names : heard'[k] = Unheard
    BY <1>3 DEF StartClaims, Silence
  <2>2. \A x \in LiveIn(claims') : claims'[x].unique_number \in Names
    BY <1>3 DEF InOrder, Named, LiveIn
  <2> QED BY <2>1, <2>2 DEF HeardInv, HeardIsListed, LiveIn
<1>4. InOrder(claims)'
  BY StepInOrder DEF TableInv
<1>5. CASE ClaimsNext
  <2>1. CASE \E s \in Addresses, n \in Names : ClaimLine(s, n)
    BY <2>1, <1>1
  <2>2. CASE \E s \in Addresses, m \in Models : DeviceLine(s, m)
    BY <2>2, <1>2 DEF DeviceLine
  <2>3. CASE CrashClaims
    BY <2>3, <1>3, <1>4 DEF CrashClaims
  <2> QED BY <1>5, <2>1, <2>2, <2>3 DEF ClaimsNext
<1>6. CASE UNCHANGED claim_vars
  BY <1>6, <1>2 DEF claim_vars
<1> QED BY <1>5, <1>6

\* The agreement always holds.
THEOREM TableFollowsClaims == ClaimsSpec => []HeardInv
<1>1. ClaimsInit => HeardInv
  BY DEF ClaimsInit, HeardInv, HeardIsListed, LiveIn, NoClaim, Silence
<1> QED BY <1>1, StepHeard, TablesInOrder, PTL DEF ClaimsSpec

\* No claim is lost for lack of an entry.
THEOREM ClaimsAreListed == ClaimsSpec => []HeardIsListed
<1>1. HeardInv => HeardIsListed
  BY DEF HeardInv
<1> QED BY <1>1, TableFollowsClaims, PTL

\* What is found at an address is never a device known to be elsewhere.
THEOREM FoundWhereHeard == ClaimsSpec => []NeverFoundElsewhere
<1>1. TableInv /\ HeardInv => NeverFoundElsewhere
  <2> SUFFICES ASSUME TableInv, HeardInv, NEW s \in Addresses \ {0}, NEW n \in Names,
                      get_unique_number(s) = n
               PROVE  heard[n] \in {s, Unheard}
    BY DEF NeverFoundElsewhere
  <2>1. Holding(s) # {}
    BY ClaimsAssumption DEF get_unique_number
  <2> DEFINE x == First(Holding(s))
  <2>2. claims \in [Slots -> Claim]
    BY DEF TableInv, ClaimsTypeOK
  <2>3. x \in Slots /\ claims[x].src = s /\ claims[x].unique_number = n
    BY <2>1, <2>2, FoundHolds
  <2>4. x \in LiveIn(claims)
    BY <2>3 DEF LiveIn
  <2> QED BY <2>3, <2>4 DEF HeardInv
<1> QED BY <1>1, TablesInOrder, TableFollowsClaims, PTL
-----------------------------------------------------------------------------
\* No two entries of a sequence of devices have one name.
Distinct(d) ==
  \A i, j \in 1 .. Len(d) : d[i].unique_number = d[j].unique_number => i = j

\* What a save cut short leaves of devices with distinct names has distinct
\* names: it is a part of them, and a model taken is not a name.
LEMMA TornDistinct ==
  ASSUME NEW c \in ClaimState, Distinct(c.devices), NEW f \in Torn(c)
  PROVE  Distinct(f.devices)
<1> DEFINE part(n) == SubSeq(c.devices, 1, n)
           cut(n) == [part(n) EXCEPT ![n].model = Blank]
           none == << >>
<1>0. c.devices \in Seq(Device)
  BY DEF ClaimState
<1>1. \/ f.devices = c.devices \/ f.devices = none
      \/ \E n \in 1 .. Len(c.devices) : f.devices \in {part(n), cut(n)}
  BY DEF Torn
<1>2. ASSUME NEW n \in 1 .. Len(c.devices) PROVE Distinct(part(n)) /\ Distinct(cut(n))
  <2>1. /\ part(n) \in Seq(Device) /\ Len(part(n)) = n
        /\ \A i \in 1 .. n : part(n)[i] = c.devices[i] /\ i \in 1 .. Len(c.devices)
    BY <1>0
  <2>2. Distinct(part(n))
    BY <2>1 DEF Distinct
  <2> DEFINE last == [part(n)[n] EXCEPT !.model = Blank]
  <2>3. n \in 1 .. n /\ part(n)[n] \in Device
    BY <2>1
  <2>4. last \in Device /\ last.unique_number = part(n)[n].unique_number
    BY <2>3 DEF Device
  <2>5. cut(n) = [part(n) EXCEPT ![n] = last]
    OBVIOUS
  <2> HIDE DEF part, last, cut
  <2>6. Len(cut(n)) = n /\ \A i \in 1 .. n : cut(n)[i] = IF i = n THEN last ELSE part(n)[i]
    BY <2>1, <2>3, <2>4, <2>5
  <2>7. \A i \in 1 .. n : cut(n)[i].unique_number = part(n)[i].unique_number
    BY <2>4, <2>6
  <2>8. Distinct(cut(n))
    BY <2>1, <2>2, <2>6, <2>7 DEF Distinct
  <2> QED BY <2>2, <2>8
<1>3. Distinct(none)
  BY DEF Distinct
<1> HIDE DEF part, cut, none
<1> QED BY <1>1, <1>2, <1>3

\* A device that says its model is entered once.
LEMMA DevicesAfterDistinct ==
  ASSUME devices \in Seq(Device), Distinct(devices), NEW s \in Addresses, NEW m \in Models
  PROVE  Distinct(DevicesAfter(s, m))
<1> DEFINE n == get_unique_number(s)
           d == [unique_number |-> n, model |-> m]
<1>1. CASE DevicesAfter(s, m) = devices
  BY <1>1
<1>2. CASE DevicesAfter(s, m) # devices
  <2>1. n \notin KnownDevices /\ DevicesAfter(s, m) = Append(devices, d)
    BY <1>2 DEF DevicesAfter, update_nmea_device
  <2>2. d.unique_number = n
    OBVIOUS
  <2> HIDE DEF n, d
  <2>3. /\ Len(devices) \in Nat /\ Len(Append(devices, d)) = Len(devices) + 1
        /\ Append(devices, d)[Len(devices) + 1] = d
        /\ \A i \in 1 .. Len(devices) : Append(devices, d)[i] = devices[i]
    OBVIOUS
  <2>4. \A i \in 1 .. Len(devices) : devices[i].unique_number # n
    BY <2>1 DEF KnownDevices
  <2>5. \A i \in 1 .. Len(devices) + 1 : i \in 1 .. Len(devices) \/ i = Len(devices) + 1
    BY <2>3
  <2> QED BY <2>1, <2>2, <2>3, <2>4, <2>5 DEF Distinct
<1> QED BY <1>1, <1>2

\* In memory and on file no device is entered twice.
DeviceInv == Distinct(devices) /\ Distinct(claim_file.devices)

\* A save keeps the names on file distinct.
LEMMA SaveDistinct ==
  ASSUME NEW c \in ClaimState, Distinct(c.devices), Distinct(claim_file.devices), save_state(c)
  PROVE  Distinct(claim_file'.devices)
  BY TornDistinct DEF save_state

\* Every step keeps the names distinct.
LEMMA StepDistinct == TableInv /\ DeviceInv /\ [ClaimsNext]_claim_vars => DeviceInv'
<1> SUFFICES ASSUME TableInv, DeviceInv, [ClaimsNext]_claim_vars PROVE DeviceInv'
  OBVIOUS
<1>0. /\ ClaimsTypeOK /\ devices \in Seq(Device) /\ TableInv'
      /\ claims \in [Slots -> Claim] /\ claims' \in [Slots -> Claim] /\ devices' \in Seq(Device)
  BY StepInOrder DEF TableInv, ClaimsTypeOK
<1>1. ASSUME NEW s \in Addresses, NEW n \in Names, ClaimLine(s, n) PROVE DeviceInv'
  <2> DEFINE c == [claims |-> claims', devices |-> devices]
  <2>1. c \in ClaimState /\ c.devices = devices
    BY <1>0 DEF ClaimState
  <2>2. save_state(c) /\ devices' = devices
    BY <1>1 DEF ClaimLine
  <2> HIDE DEF c
  <2>3. Distinct(claim_file'.devices)
    BY <2>1, <2>2, SaveDistinct DEF DeviceInv
  <2> QED BY <2>2, <2>3 DEF DeviceInv, Distinct
<1>2. ASSUME NEW s \in Addresses, NEW m \in Models, DeviceLine(s, m) PROVE DeviceInv'
  <2> DEFINE c == [claims |-> claims, devices |-> devices']
  <2>1. c \in ClaimState /\ c.devices = devices'
    BY <1>0 DEF ClaimState
  <2>2. save_state(c) /\ devices' = DevicesAfter(s, m)
    BY <1>2 DEF DeviceLine
  <2>3. Distinct(devices')
    BY <2>2, <1>0, DevicesAfterDistinct DEF DeviceInv
  <2> HIDE DEF c
  <2>4. Distinct(claim_file'.devices)
    BY <2>1, <2>2, <2>3, SaveDistinct DEF DeviceInv
  <2> QED BY <2>3, <2>4 DEF DeviceInv, Distinct
<1>3. CASE CrashClaims
  BY <1>3 DEF CrashClaims, StartClaims, DeviceInv, Distinct
<1>4. CASE UNCHANGED claim_vars
  BY <1>4 DEF claim_vars, DeviceInv, Distinct
<1> QED BY <1>1, <1>2, <1>3, <1>4 DEF ClaimsNext

\* No device is entered twice, whatever the lines, the restarts and the files
\* cut in the middle: the search by name before an entry is enough.
THEOREM DevicesEnteredOnce == ClaimsSpec => []DevicesDistinct
<1>1. ClaimsInit => DeviceInv
  BY DEF ClaimsInit, DeviceInv, Distinct
<1>2. DeviceInv => DevicesDistinct
  BY DEF DeviceInv, Distinct, DevicesDistinct
<1> QED BY <1>1, <1>2, StepDistinct, TablesInOrder, PTL DEF ClaimsSpec

\* What a restart finds is what the parser knows, unless the last save failed:
\* every line that changes a table saves both tables after the change.
THEOREM FileFollowsTables == ClaimsSpec => []SavedIsCurrent
<1>1. ClaimsInit => SavedIsCurrent
  BY DEF ClaimsInit, SavedIsCurrent
<1>2. TableInv /\ SavedIsCurrent /\ [ClaimsNext]_claim_vars => SavedIsCurrent'
  <2> SUFFICES ASSUME TableInv, SavedIsCurrent, [ClaimsNext]_claim_vars PROVE SavedIsCurrent'
    OBVIOUS
  <2>1. CASE \E s \in Addresses, n \in Names : ClaimLine(s, n)
    BY <2>1 DEF ClaimLine, save_state, SavedIsCurrent
  <2>2. CASE \E s \in Addresses, m \in Models : DeviceLine(s, m)
    BY <2>2 DEF DeviceLine, save_state, SavedIsCurrent
  <2>3. CASE CrashClaims
    BY <2>3 DEF CrashClaims, StartClaims, TableInv, ClaimsTypeOK, ClaimState, SavedIsCurrent
  <2>4. CASE UNCHANGED claim_vars
    BY <2>4 DEF claim_vars, SavedIsCurrent
  <2> QED BY <2>1, <2>2, <2>3, <2>4 DEF ClaimsNext
<1> QED BY <1>1, <1>2, TablesInOrder, PTL DEF ClaimsSpec
=============================================================================
