----------------------------- MODULE ConfigStore -----------------------------
(***************************************************************************)
(* The configuration of the boat: struct config, its table of keys and     *)
(* values, and its file config.state (config.c).  InboundMessage says when *)
(* a message comes to it.                                                  *)
(*                                                                         *)
(* The table is filled from the front, and an entry with an empty key ends *)
(* it: here it is the sequence of its entries.  Keys are not empty.  The   *)
(* time stamp of the last command is left out.                             *)
(***************************************************************************)
EXTENDS Integers, Sequences, FiniteSets, SequencesExt

CONSTANTS
  Keys,      \* the keys ever used
  Values,    \* the values, Blank among them
  Blank,     \* the empty string; clearing a key leaves it
  Null,      \* what is not a string in an announced state
  Absent,    \* for the abstract map: no entry with this key
  MaxItems   \* MAXITEMS: the entries of the table

\* Nothing in the code keeps a new key out of a full table: it is sound as
\* long as no more than MaxItems different keys are ever used.
ASSUME ConfigAssumption ==
  /\ MaxItems \in Nat \ {0}
  /\ IsFiniteSet(Keys) /\ Cardinality(Keys) <= MaxItems
  /\ Blank \in Values
  /\ Null \notin Values /\ Absent \notin Values

VARIABLES
  items, \* c.items up to the first empty key
  file   \* the same of config.state

config_vars == <<items, file>>

Entry == [key : Keys, value : Values]

\* The commands with a "key" and a "value"; any verb but "set" clears, and
\* has no use for the value.
Commands ==
  [verb : {"set"}, key : Keys, value : Values] \cup [verb : {"clear"}, key : Keys]

\* The announced states: their members, each a string or not.
Announcements == UNION {[K -> Values \cup {Null}] : K \in SUBSET Keys}

KeysOf(table) == {table[i].key : i \in 1 .. Len(table)}

ConfigInit == items = <<>> /\ file = <<>>
-----------------------------------------------------------------------------
\* What a save cut short leaves of a table: its first entries, the last of
\* them perhaps without its value.
Torn(table) ==
  {<<>>} \cup UNION {{SubSeq(table, 1, n), [SubSeq(table, 1, n) EXCEPT ![n].value = Blank]}
                       : n \in 1 .. Len(table)}

\* save_config: fopen fails, or it truncates the file and the table is
\* written, whole or, when the disk is full or the process dies, in part.
save_config(table) == file' \in {file, table} \cup Torn(table)

\* The loop of process_cmd and process_state: every entry with the key.
Assign(table, k, v) ==
  [i \in 1 .. Len(table) |->
     IF table[i].key = k THEN [table[i] EXCEPT !.value = v] ELSE table[i]]

\* Mutant: the table is not searched.
process_cmd_unsearched(c) ==
  IF c.verb = "clear" THEN Assign(items, c.key, Blank)
  ELSE Append(items, [key |-> c.key, value |-> c.value])

\* process_cmd, the table after it: "set" assigns, or appends at the first
\* empty key; any other verb clears the value and leaves the key.
process_cmd(c) ==
  IF c.verb = "clear" THEN Assign(items, c.key, Blank)
  ELSE IF c.key \in KeysOf(items) THEN Assign(items, c.key, c.value)
  ELSE Append(items, [key |-> c.key, value |-> c.value])

\* Mutant: an entry found is not marked as found.
AddedAnyway(table, obj) ==
  {[key |-> k, value |-> obj[k]] : k \in {l \in DOMAIN obj : obj[l] # Null}}

\* The entries that the announced state obj adds: its strings with new keys.
Added(table, obj) ==
  {[key |-> k, value |-> obj[k]] :
     k \in {l \in DOMAIN obj : l \notin KeysOf(table) /\ obj[l] # Null}}

\* The entries there are, after obj; what is not a string clears.
Merged(table, obj) ==
  [i \in 1 .. Len(table) |->
     LET k == table[i].key IN
       IF k \notin DOMAIN obj THEN table[i]
       ELSE [key |-> k, value |-> IF obj[k] = Null THEN Blank ELSE obj[k]]]

\* process_state, the tables it may leave: nothing is saved.  The members of
\* obj come in any order, each key once.
process_state(table, obj) ==
  {Merged(table, obj) \o new : new \in SetToSeqs(Added(table, obj))}

\* init_config of the next process.
init_config == items' = file /\ UNCHANGED file
-----------------------------------------------------------------------------
\* Types; the table stays within c.items, though no line of the code checks.
ConfigTypeOK ==
  /\ items \in Seq(Entry) /\ Len(items) <= MaxItems
  /\ file \in Seq(Entry) /\ Len(file) <= MaxItems

Unique(table) ==
  \A i, j \in 1 .. Len(table) : table[i].key = table[j].key => i = j

\* No key has two entries, in memory or in the file, after any commands,
\* states and restarts from torn files: get_config_state would put both in
\* one object, and a reader could pick the stale one.
UniqueKeys == Unique(items) /\ Unique(file)

\* The map a table stands for.
MapOf(table) ==
  [k \in Keys |->
     IF k \in KeysOf(table)
       THEN table[CHOOSE i \in 1 .. Len(table) : table[i].key = k].value
       ELSE Absent]

\* The table and its file are a map and its saved copy: what is saved is the
\* table of a command, before an announced state of the same message.
AbstractMap == INSTANCE ConfigMap WITH current <- MapOf(items), saved <- MapOf(file)

MapSpec == AbstractMap!Spec
=============================================================================
