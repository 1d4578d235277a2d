------------------------------ MODULE NmeaClaims ------------------------------
(***************************************************************************)
(* Who is who on the bus: struct claim_state of nmea_parser.c, the table   *)
(* of address claims and the table of devices, and its file claim.state.   *)
(*                                                                         *)
(* A device is known by its name (the unique number) and claims an         *)
(* address, 0 among the possible ones; the table marks a free entry with   *)
(* address 0 too.  Devices enter their table at the first inactive entry   *)
(* and never leave it: it is the sequence of the active entries.  The      *)
(* strings of a device are one model here.                                 *)
(***************************************************************************)
EXTENDS Integers, Sequences, FiniteSets

CONSTANTS
  Addresses,  \* the addresses (src) of the bus
  Names,      \* the unique numbers of the devices on it
  Blank,      \* the empty string
  Models,     \* what devices say of themselves; Blank: nothing, or no string
  MaxClaims,  \* MAXCLAIMS
  MaxDevices, \* MAXDEVICES
  Unheard     \* for heard: not claimed since the start, or taken by another

ASSUME ClaimsAssumption ==
  /\ Addresses \subseteq Nat /\ Unheard \notin Addresses
  /\ IsFiniteSet(Names) /\ Blank \notin Names
  /\ MaxClaims \in Nat \ {0} /\ MaxDevices \in Nat
  \* A boat's bus has far fewer devices than MAXCLAIMS, 200.
  /\ Cardinality(Names) <= MaxClaims

VARIABLES
  claims,     \* c_state.claims
  devices,    \* c_state.devices, the active ones
  claim_file, \* claim.state
  unsaved,    \* history: the last save failed
  heard       \* history: the address each name holds, by the claims heard

claim_vars == <<claims, devices, claim_file, unsaved, heard>>

Slots == 1 .. MaxClaims
Claim == [src : Addresses \cup {0}, unique_number : Names \cup {Blank}]
NoClaim == [src |-> 0, unique_number |-> Blank]
Device == [unique_number : Names \cup {Blank}, model : Models \cup {Blank}]
ClaimState == [claims : [Slots -> Claim], devices : Seq(Device)]
Silence == [n \in Names |-> Unheard]

ClaimsInit ==
  /\ claims = [x \in Slots |-> NoClaim] /\ devices = <<>>
  /\ claim_file = [claims |-> claims, devices |-> devices]
  /\ unsaved = FALSE /\ heard = Silence
-----------------------------------------------------------------------------
First(S) == CHOOSE x \in S : \A y \in S : x <= y

Holding(s) == {x \in Slots : claims[x].src = s}

\* The name at an address, the first in the table; Blank: not found.
\* Address 0 finds the first free entry and the name it had.
get_unique_number(s) ==
  IF Holding(s) = {} THEN Blank ELSE claims[First(Holding(s))].unique_number

\* The entry that says already what the claim says.
Exact(s, n) == {x \in Slots : claims[x] = [src |-> s, unique_number |-> n]}

\* Mutant: the old entry of the name keeps its address.
KeepOld(s, n) == claims

\* The entries of the name lose their address, up to one that is exact.
FreeOld(s, n) ==
  [x \in Slots |->
     IF claims[x].unique_number = n /\ \A e \in Exact(s, n) : x < e
       THEN [claims[x] EXCEPT !.src = 0] ELSE claims[x]]

\* Mutant: an entry once used is not used again.
UnusedIn(table) == {x \in Slots : table[x] = NoClaim}

FreeIn(table) == {x \in Slots : table[x].src = 0}

\* The table after a claim: with no exact entry, the first free one takes it;
\* a full table drops it.
update_nmea_claim(s, n) ==
  LET old == FreeOld(s, n)
  IN IF Exact(s, n) # {} \/ FreeIn(old) = {} THEN old
     ELSE [old EXCEPT ![First(FreeIn(old))] = [src |-> s, unique_number |-> n]]

KnownDevices == {devices[i].unique_number : i \in 1 .. Len(devices)}

\* Mutants: the table is not searched; its end is not checked.
update_nmea_device_unsearched(n, m) ==
  IF Len(devices) = MaxDevices THEN devices
  ELSE Append(devices, [unique_number |-> n, model |-> m])

update_nmea_device_unbounded(n, m) ==
  IF n \in KnownDevices THEN devices
  ELSE Append(devices, [unique_number |-> n, model |-> m])

\* The devices after n has said its model: only the first word counts.
update_nmea_device(n, m) ==
  IF n \in KnownDevices \/ Len(devices) = MaxDevices THEN devices
  ELSE Append(devices, [unique_number |-> n, model |-> m])

DevicesAfter(s, m) ==
  IF Holding(s) = {} THEN devices ELSE update_nmea_device(get_unique_number(s), m)

\* What a save cut short leaves of c.  The devices come first.  The file is
\* written in blocks of 4096 bytes: a cut may take a device's model and never
\* falls in a name or an address.
Torn(c) ==
  LET Cut(n) == {SubSeq(c.devices, 1, n), [SubSeq(c.devices, 1, n) EXCEPT ![n].model = Blank]}
      Empty  == [x \in Slots |-> NoClaim]
  IN {[claims |-> [x \in Slots |-> IF x <= n THEN c.claims[x] ELSE NoClaim],
       devices |-> c.devices] : n \in Slots}
     \cup {[claims |-> Empty, devices |-> d] :
             d \in {<<>>} \cup UNION {Cut(n) : n \in 1 .. Len(c.devices)}}

\* save_state: the file is written; or it cannot be opened, or the disk is
\* full, or the process dies in it, and starts again from what is there.
save_state(c) ==
  \/ claim_file' = c /\ unsaved' = FALSE
  \/ claim_file' \in {claim_file} \cup Torn(c) /\ unsaved' = TRUE

\* A claim heard: the name is at s, and no other name is.
Hear(s, n) ==
  heard' = [k \in Names |-> IF k = n THEN s
                            ELSE IF heard[k] = s THEN Unheard ELSE heard[k]]

\* Mutant: what is saved is the state before the claim.
ClaimLineSavedFirst(s, n) ==
  /\ claims' = update_nmea_claim(s, n)
  /\ save_state([claims |-> claims, devices |-> devices])
  /\ Hear(s, n)
  /\ UNCHANGED devices

\* PGN 60928, ISO address claim.
ClaimLine(s, n) ==
  /\ claims' = update_nmea_claim(s, n)
  /\ save_state([claims |-> claims', devices |-> devices])
  /\ Hear(s, n)
  /\ UNCHANGED devices

\* PGN 126996, product information.
DeviceLine(s, m) ==
  /\ devices' = DevicesAfter(s, m)
  /\ save_state([claims |-> claims, devices |-> devices'])
  /\ UNCHANGED <<claims, heard>>

\* init_nmea_parser of the next process, with the file f.
StartClaims(f) ==
  /\ claim_file' = f /\ claims' = f.claims /\ devices' = f.devices
  /\ unsaved' = FALSE /\ heard' = Silence

\* The process ends, between two lines or, after a save that it did not
\* survive, in one.
CrashClaims == StartClaims(claim_file)

ClaimsNext ==
  \/ \E s \in Addresses, n \in Names : ClaimLine(s, n)
  \/ \E s \in Addresses, m \in Models : DeviceLine(s, m)
  \/ CrashClaims

ClaimsSpec == ClaimsInit /\ [][ClaimsNext]_claim_vars
-----------------------------------------------------------------------------
\* Types.  An entry with an address has a name, whatever is torn.
ClaimsTypeOK ==
  /\ claims \in [Slots -> Claim] /\ devices \in Seq(Device)
  /\ Len(devices) <= MaxDevices
  /\ claim_file \in ClaimState
  /\ unsaved \in BOOLEAN
  /\ heard \in [Names -> Addresses \cup {Unheard}]

Live == {x \in Slots : claims[x].src # 0}

\* No name is at two addresses, whatever the claims, the restarts and the torn
\* files: update_nmea_claim looks for one old entry, in a table the file may
\* have given it, and frees by marking, so stale names remain around.
OneAddressPerName ==
  \A x, y \in Live : claims[x].unique_number = claims[y].unique_number => x = y

\* A device heard at an address is in the table there: no claim is lost for
\* lack of an entry, as devices move between addresses for ever.  Address 0
\* means a free entry: a device there is not in the table.
HeardIsListed ==
  \A n \in Names : heard[n] \notin {0, Unheard} =>
    \E x \in Slots : claims[x] = [src |-> heard[n], unique_number |-> n]

\* What is found at an address is no device known to be elsewhere, though the
\* search takes the first entry and entries moved, were used again and came
\* from an earlier run.  It may be a device that was there and has not been
\* heard since.  The parser's source filters depend on it.
NeverFoundElsewhere ==
  \A s \in Addresses \ {0}, n \in Names :
    get_unique_number(s) = n => heard[n] \in {s, Unheard}

\* No name has two device entries, even after files cut in the middle.
DevicesDistinct ==
  \A i, j \in 1 .. Len(devices) :
    devices[i].unique_number = devices[j].unique_number => i = j

\* Unless the last save failed, a restart finds what the parser knows.
SavedIsCurrent ==
  unsaved \/ claim_file = [claims |-> claims, devices |-> devices]
=============================================================================
