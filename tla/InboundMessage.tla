---------------------------- MODULE InboundMessage ----------------------------
(***************************************************************************)
(* process_inbound_message of nmea_parser.c: a message from the cloud or   *)
(* from a display, and what each of its members changes, in the order they *)
(* are looked for: "sources", "cmd", "config", "calibrations".  The reply  *)
(* that "cmd" makes is in LocalServer, and "light" prints sentences for    *)
(* the bus and changes nothing here.  A message that is no JSON has no     *)
(* members.                                                                *)
(*                                                                         *)
(* sources and its file are those of NmeaParser, for one quantity.         *)
(***************************************************************************)
EXTENDS ConfigStore, Calibration

CONSTANTS
  Devices,  \* the devices that can be chosen
  Anyone,   \* no device chosen
  MaxParts  \* bound: the members of a message that are looked at

ASSUME MessageAssumption == Anyone \notin Devices /\ MaxParts \in Nat

VARIABLES
  sources,      \* the device chosen
  sources_file  \* nmea.sources

source_vars == <<sources, sources_file>>
vars == <<config_vars, calib_vars, source_vars>>

Init ==
  /\ ConfigInit
  /\ CalibInit
  /\ sources = Anyone /\ sources_file = Anyone

\* The parts of a message: what it says under each member, as a set of at
\* most one.  A command without a key or a value is only in the guid's log.
AtMostOne(S) == {{}} \cup {{x} : x \in S}

Messages ==
  {m \in [sources : AtMostOne(Devices \cup {Anyone}), cmd : AtMostOne(Commands),
          config : AtMostOne(Announcements), calibrations : AtMostOne(Calibrations)] :
     Cardinality({p \in DOMAIN m : m[p] # {}}) <= MaxParts}
-----------------------------------------------------------------------------
\* set_nmea_sources: the file is truncated, and empty if the disk is full.
set_nmea_sources(d) == sources' = d /\ sources_file' \in {d, Anyone}

\* The configuration after the command, and after the announced state.
AfterCmd(m) == IF m.cmd = {} THEN items ELSE process_cmd(CHOOSE c \in m.cmd : TRUE)

AfterConfig(m) ==
  IF m.config = {} THEN {AfterCmd(m)}
  ELSE UNION {process_state(AfterCmd(m), obj) : obj \in m.config}

\* Mutant: the file is written when the announced state is adopted too.
ConfigPartSavedLast(m) ==
  /\ items' \in AfterConfig(m)
  /\ IF m.cmd = {} THEN UNCHANGED file ELSE save_config(items')

\* "cmd", which is saved, and then "config", which is not.
ConfigPart(m) ==
  /\ items' \in AfterConfig(m)
  /\ IF m.cmd = {} THEN UNCHANGED file ELSE save_config(AfterCmd(m))

process_inbound_message(m) ==
  /\ IF m.sources = {} THEN UNCHANGED source_vars
     ELSE \E d \in m.sources : set_nmea_sources(d)
  /\ ConfigPart(m)
  /\ IF m.calibrations = {} THEN UNCHANGED calib_vars
     ELSE \E obj \in m.calibrations : process_calib_state(obj)

\* The next process: main reads both files.
Start ==
  /\ init_config
  /\ ForgetCalibrations
  /\ sources' = sources_file'

\* The process ends between two messages, or in one: a file that cannot be
\* opened kills it, in fwrite for nmea.sources, in fprintf for the log of a
\* command, and then the sources of the message are saved already.
Restart == sources_file' \in {sources_file, Anyone} \cup Devices /\ Start

Next ==
  \/ \E m \in Messages : process_inbound_message(m)
  \/ Restart

Spec == Init /\ [][Next]_vars
-----------------------------------------------------------------------------
\* Types.
MessageTypeOK ==
  /\ ConfigTypeOK
  /\ CalibTypeOK
  /\ {sources, sources_file} \subseteq Devices \cup {Anyone}
=============================================================================
