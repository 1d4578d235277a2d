----------------------------- MODULE Calibration -----------------------------
(***************************************************************************)
(* The calibrations that the cloud announces: struct calib of              *)
(* calibration.c.  It is filled by process_calib_state only: init_calib,   *)
(* save_calib and get_calib are called by nothing, so it starts empty in   *)
(* every process, from the zeros of a static variable.                     *)
(*                                                                         *)
(* As in ConfigStore, the table is the sequence of its entries.  A number  *)
(* stays in an entry when its null flag is set; with the flag set nothing  *)
(* reads it, and the member is Nulled here.                                *)
(***************************************************************************)
EXTENDS Integers, Sequences, FiniteSets, SequencesExt

CONSTANTS
  CalibKeys,     \* the quantities that calibrations are for
  Members,       \* fixed, linear_x and linear_k; all are treated alike
  Numbers,       \* the numbers announced, Zero among them
  Zero,          \* 0, which an entry is filled with
  Nulled,        \* a JSON null: the null flag of a member is set
  MaxCalibItems  \* MAXITEMS: the entries of the table

\* As for the configuration: the code does not check for a full table.
ASSUME CalibAssumption ==
  /\ MaxCalibItems \in Nat \ {0}
  /\ IsFiniteSet(CalibKeys) /\ Cardinality(CalibKeys) <= MaxCalibItems
  /\ Zero \in Numbers /\ Nulled \notin Numbers

VARIABLES
  calib,     \* c.items up to the first empty key
  announced  \* history: the last announced of each member, in this run

calib_vars == <<calib, announced>>

Given == UNION {[M -> Numbers \cup {Nulled}] : M \in SUBSET Members}
CalibItem == [key : CalibKeys, member : [Members -> Numbers \cup {Nulled}]]
Calibrations == UNION {[K -> Given] : K \in SUBSET CalibKeys}

Unannounced == [k \in {} |-> Zero]

CalibInit == calib = <<>> /\ announced = Unannounced
-----------------------------------------------------------------------------
Over(new, old) ==
  [x \in DOMAIN new \cup DOMAIN old |-> IF x \in DOMAIN new THEN new[x] ELSE old[x]]

\* Mutant: a member that is not given is cleared.
copy_calib_values_all(given, member) ==
  [m \in Members |-> IF m \in DOMAIN given THEN given[m] ELSE Zero]

\* The members that are given are copied, a null among them.
copy_calib_values(given, member) == Over(given, member)

\* The entry of a key that was not there.
NewItem(k, given) ==
  [key |-> k, member |-> copy_calib_values(given, [m \in Members |-> Zero])]

\* process_calib_state: found entries are changed and new keys appended, in
\* the order of the members of obj.
process_calib_state(obj) ==
  LET keys  == {calib[i].key : i \in 1 .. Len(calib)}
      found == [i \in 1 .. Len(calib) |->
                  IF calib[i].key \notin DOMAIN obj THEN calib[i]
                  ELSE [calib[i] EXCEPT !.member = copy_calib_values(obj[calib[i].key], @)]]
  IN /\ \E new \in SetToSeqs({NewItem(k, obj[k]) : k \in DOMAIN obj \ keys}) :
          calib' = found \o new
     /\ announced' = [k \in DOMAIN announced \cup DOMAIN obj |->
          IF k \notin DOMAIN obj THEN announced[k]
          ELSE IF k \notin DOMAIN announced THEN obj[k]
          ELSE Over(obj[k], announced[k])]

\* The next process: an empty table.
ForgetCalibrations == calib' = <<>> /\ announced' = Unannounced
-----------------------------------------------------------------------------
\* Types; the table stays within c.items.
CalibTypeOK == calib \in Seq(CalibItem) /\ Len(calib) <= MaxCalibItems

\* The table holds what this run was told and nothing else: one entry for
\* each key announced, in it the last said of each member, and 0 for a member
\* nothing was said of.  (Such a 0 is not null: a correction that was never
\* announced is there, and takes precedence over another.)
CalibrationsAnnounced ==
  /\ \A i, j \in 1 .. Len(calib) : calib[i].key = calib[j].key => i = j
  /\ {calib[i].key : i \in 1 .. Len(calib)} = DOMAIN announced
  /\ \A i \in 1 .. Len(calib), m \in Members :
       LET said == announced[calib[i].key] IN
         calib[i].member[m] = IF m \in DOMAIN said THEN said[m] ELSE Zero
=============================================================================
