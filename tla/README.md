# A formal model of charlotte-client

charlotte-client runs on a Raspberry Pi on board. It reads the boat's NMEA 2000
traffic as JSON lines from stdin, keeps the latest value of each quantity, and
sends what changes to the cloud over one websocket and to the displays on board
over a websocket server of its own; both send it commands back. This directory
holds TLA+ modules of it, TLC configurations that check them on small instances,
and TLAPS proofs.

One libuv loop runs everything. A callback runs to its end before the next one
starts, so **each callback is one action** in these modules, with everything it
calls. What is hard is the order in which callbacks come: sockets become writable,
connections come and go, timers fire, lines arrive, allocations and writes fail,
and the process may be ended anywhere and started again by the service.

## Inventory

| Part | Source | State | Operations | Talks to |
|---|---|---|---|---|
| Cloud link | `ws.c` | `mco`: connection, ring, retry timer and count, `write_consume_pending` | connect, established, error, closed, writable, `ws_write_cloud` | called by the parser's reader and by the server |
| Inbound frames | `ws.c` | `receive_message` | `CLIENT_RECEIVE` | `process_inbound_message` |
| Local server | `ws.c` | `vhd->pss_list`, a ring per session | established, closed, writable, receive, `ws_write_client` | reads the parser's state and the configuration |
| Parser | `nmea_parser.c` | `state`, `c_state`, `sources`, files `claim.state`, `nmea.sources` | `parse_nmea`, `get_nmea_state`, `set_nmea_sources`, saves | messages to both websockets |
| Inbound messages | `nmea_parser.c` | none of its own | `process_inbound_message`: sources, commands, announced configuration and calibrations | parser, configuration, calibration, replies |
| Configuration | `config.c` | `c`, file `config.state` | `process_cmd`, `process_state`, `get_config_state` | replies, full states |
| Calibration | `calibration.c` | `c` | `process_calib_state` (the rest is never called) | nobody reads it |
| AIS list | `ais.c` | the list of vessels | `add_or_update_ais`, `get_ais_state` | full states |
| Line buffer | `charlotte-client.c` | `buffer` | `addbuf`, `buf_getline`, `process_buffer` | feeds the parser |
| Sentences | `nmea_creator.c` | none | formatting | stdout |
| MQTT | `mqtt.c` | | not built | |
| cJSON | `cJSON.c` | vendored | | |

What makes each part correct, and what is hard about it, is the list of
`hazards` in PROJECT.json, each at its line, with the properties that would catch it. Some
hazards are what the code does, and no document promises better: these are modelled, the
properties take them out by name (`lost`, `missed`, `overrun`, `blank`) and say that nothing
else goes wrong, and their entry has a note instead of a property. In short: the link must always be
retried, never sleep on a queued message, and never repeat or reorder; a display
must end with the current state whatever it saw in between; the tables must keep
one entry per key and survive torn files.

## Modules

### OrderedFeed and CloudLink

`OrderedFeed` says what an outbound queue promises: messages, numbered as they are
offered, may be lost, but are delivered once and in order. `CloudLink` models the
connection to the cloud and implements it.

| CloudLink | ws.c |
|---|---|
| `wsi` | the state of the connection in libwebsockets (none, connecting, open, closing) |
| `sul`, `delay`, `retry_count` | `mco.sul`, the entry of `backoff_ms` it was set with, `mco.retry_count` |
| `has_ring`, `ring` | `mco.ring`, its elements from `mco.tail` |
| `write_consume_pending`, `writable` | the flag; a requested writable callback |
| `offered`, `accepted`, `sent`, `last` | histories, for the properties |
| `connect_client` | the timer fires: the attempt starts, or is refused at once |
| `ClientEstablished`, `ClientConnectionError`, `ClientClosed` | the callbacks of those names; the last two end in `DoRetry` (label `do_retry`) |
| `PeerGone` | the connection ends, for any reason (external) |
| `ws_write_cloud` | the function: inserts, or drops when there is no ring, a full one or no memory |
| `ClientWriteable` | the deferred consume, then nothing to write, a write or a short write |

The consume deferred to the next writable callback is the delicate part: it may be
left over when the connection ends. `ConnectionStream` states exactly how far that
reaches: at most the first message of the next connection.

From libwebsockets the model takes: a ring of depth n holds n - 1 elements;
consuming from an empty ring does nothing; `lws_retry_sul_schedule` counts the
attempt and schedules it while the count is at most `conceal_count`; a request for a
writable callback dies with its connection.

### CloudInbound

Extends CloudLink with `CLIENT_RECEIVE`: frames arrive in pieces, are collected in
`receive_message`, and are processed when complete. The buffer is the array of the code:
`Collect` and `Appended` put a piece at `strlen`, and its Nul where the code stores it, as
far behind the end of the new string as the piece is long. A Nul that falls beyond the array
is lost; what it hits there is not modelled. What ends the string is the `memset` after the
message before. Nothing clears the buffer when a connection ends in the middle of a frame.
`OnlyFirstFrameTorn` says what remains true: from the second frame of a connection on, each
frame that fits is processed whole.

### LocalServer

The displays' sessions, in the order of `vhd->pss_list`, with their rings, and the
broadcasts: differences from the bus (`process_buffer`), the full state and the
configuration when *any* display connects, and the reply to a command. A message is
a function from topics to what it says of them; `view` and `missed` are histories of
what a display was told and of the news it lost to a full ring, a failed allocation,
or a configuration nobody announced. `Converges` is the point of the module: whatever
the order of full states, differences and replies, a display that missed nothing of a
topic ends with what one of its sources says now.

A line whose difference speaks of claims, devices or vessels only, and a full state that does,
is a message without a topic: it takes a place in the ring and is lost or written like any
other. `table` keeps the values of a quantity by slot, because a full state carries the
first slot in use and a difference the slot that changed. A change that the parser
does not report (a computed value of exactly zero) is left to `CloudView`.
A session whose ring cannot be created is closed within the same callback and leaves
no trace. The ring of a closed session is leaked by the code; memory is not modelled.

### ConfigMap, ConfigStore, Calibration and InboundMessage

`ConfigStore` is the table of `config.c` and its file: commands set and clear and then
save, announced states merge without saving, a save may fail, be cut short or
succeed, and a restart reads the file. `ConfigMap` is the map with a saved copy that it
implements (`MapSpec`). The assumption that no more than `MAXITEMS` different keys are
ever used is the one the code relies on silently; with it, `UniqueKeys` is what keeps
the table from being overrun.

The value of an entry cut in the middle is modelled as empty, and a key is never cut:
the file is written in two pieces, at most, whose boundary falls inside a value.

`Calibration` is the table that `process_calib_state` fills. Members that are not given
keep what they had, and start as zeros; keys are appended in the order of the message.
`CalibrationsAnnounced` relates the table to what was announced since the start.

`InboundMessage` composes the three with the chosen sources, as `process_inbound_message`
does: a message has any of the members "sources", "cmd", "config" and "calibrations",
looked for in this order. `sources` are saved, a command is applied and saved, an
announced configuration is merged on top of it and not saved, calibrations are never
saved. The process may die between the first two, where a log file cannot be opened, or
between messages (`Restart`). `MaxParts` bounds the members of one message. The modules
have no `Next` of their own; `InboundMessage` runs them.

### NmeaClaims

Who is who on the bus. A device has a name (its unique number) and claims an address;
`claims` is the array of `c_state` with `MaxClaims` entries, `devices` the active
entries of the other array, `claim_file` the file `claim.state`. A claim frees the old
entry of its name by setting its address to 0 and takes the first free entry; a search
for an address ends at the first entry that has it. So stale names stay around, an entry
is used again by another name, and a file cut by a crash brings back an earlier mixture.

| NmeaClaims | nmea_parser.c |
|---|---|
| `ClaimLine` | `parse_nmea` with PGN 60928: `update_nmea_claim`, then `save_state` |
| `DeviceLine` | PGN 126996: `get_unique_number` of the sender, `update_nmea_device`, `save_state` |
| `save_state` | the file is written; or it cannot be opened, or only part of it arrives |
| `CrashClaims` | the process ends, between two lines or in a save that left its part; `init_nmea_parser` of the next |
| `unsaved` | history: the last save failed |
| `heard` | history: the address each name holds by the claims heard since the start |

What a torn save leaves (`Torn`): the devices stand in front of the claims in the
structure, and stdio writes blocks of 4096 bytes. The
sizes are such that a boundary of blocks falls at least 12 bytes into the name of an
entry or behind it, and a unique number has 21 bits, 7 digits: no name and no address is
cut, a device's model may be. The reading process finds zeros in what is missing, because
its own structure was cleared before.

Address 0 is a valid address and the mark of a free entry. The model keeps this, and the
properties say what is promised of it: nothing. `heard` does not follow devices that were
switched off without a word: `NeverFoundElsewhere` allows the first entry to be a device
not heard since the start.

### NmeaParser

Extends NmeaClaims with the values: `state` has, for each quantity, `MaxSources` slots of
a source and a value. `Lines` are the lines with values that the bus carries, a constant;
the quantities and filters follow from it. `ValueLine` is the whole of `parse_nmea` for
such a line: the filter by chosen device, each field stored in order, a null as zero and an
absent one not at all, and the true wind, from the state *before* the line (and with values
that are any, as its source is not here). `Restart` clears the values and reads
`nmea.sources`. Slots are those of the C arrays: with all of them in use
`insert_or_replace` runs past the end and stores in the first slot of the next array of the
structure (`Layout`, `Behind`). `overrun` is the set of quantities that a value of another
fell in, since the start; of these the properties say nothing more, but they go on for every
other, the one that is too full included. What the value past the last array hits is not
modelled. A free slot has source 0, and so have a device at address 0 and a computed value.

### CloudView

What the cloud makes of the differences: the parser composed with the link. The link is
the abstract `OrderedFeed`, which `CloudLink` implements (`LinkImplementsFeed`): it may
refuse or lose any message, and delivers the others in order.

| CloudView | code |
|---|---|
| `build_diff` | `build_diff` of nmea_parser.c with the three comparisons of arrays it makes: `diff_values` (slots that equal no old slot), `diff_claim_values` (claims in use that equal no old one), `diff_device_values` (names no old device has) |
| `ValueNews`, `ClaimNews`, `DeviceNews` | what each of the comparisons adds to the message |
| `process_buffer` | one line: parsed, and its difference, if it has one, handed to `ws_write_cloud` |
| `Deliver`, `Discard` | the feed's; `view` is what arrived last on each topic, `lost` the topics whose latest news did not arrive |
| `RestartAll` | the process is started again: the ring is gone, and what it reads from the file is not told |

A topic is a source of a quantity, the address of a name, or the model of a name. The
three properties say that, but for `lost`, what arrived or is under way adds up to the
parser's tables, although each comparison ignores something: values the place of a slot,
claims their freed entries, devices everything but the name. Excepted are a slot that
stays free, which a value from address 0 and a computed zero leave, and the quantities in
`overrun`. `lost` is not small: nothing is ever sent again, and a new connection starts
with nothing. That is what the code does, and no document promises more.

### LineBuffer

The text from the pipe, cut anywhere, through `addbuf` and `buf_getline` to the parser.
The buffer is the array of the code with its Nuls, one longer than `BUFFER_SIZE`, because
whether a string ends depends on what earlier shifts left behind it: `addbuf` stores its
own Nul in the wrong place. `addbuf` has three branches, one action each: append
(`ReadFitting`), replace by the end of a large piece (`ReadReplacing`), and, in between,
a shift by the length of the piece (`ReadShifting`), in which the length of the move may
be negative and the process dies (`ReadDying`). After the last two, `lost` is set.
`getlines` is the loop of `process_buffer` with `buf_getline`: an empty line ends the
loop early, and what is behind it waits for the next read (`blank`). `Split`, what the
lines of a text are, is the reference the properties compare it with. Both are recursive
functions, of the buffer and of the text.

### AisList

The list of other vessels, with partial reports merged into entries. `heard` is what a
display present from the start was told; `LateDisplayAgrees` compares it with the full
state that a late one is shown. Names, beams and lengths that are unknown are left out
of a full state, numbers like the heading are shown as zero.

## Runs

| Run | Bounds | Shows |
|---|---|---|
| `cloud_link` | ring of 3, the real table of 5 delays and 6 concealed attempts, 5 messages | types, `NailedUp`, `RingHasConnection`, `NoLostWakeup`, `ConnectionStream`, refinement of OrderedFeed, `QueuedMessagesLeave`, `Redials` |
| `cloud_inbound` | buffer of 5, frames up to 5 bytes, pieces up to 2, 3 frames | `InboundTypeOK`: the string ends inside the buffer; `OnlyFirstFrameTorn` |
| `local_server` | 2 displays, ring of 2, one quantity of two values, one configuration | `ListIsLive`, `WokenIffQueued`, `Converges` |
| `local_server_live` | 1 display, 2 sources, 2 configurations | `Converges` with several sources and stale replies, `CatchesUp` |
| `inbound_message` | 2 keys, of configuration and of calibration, in tables of 2, one device, up to 2 members in a message | `UniqueKeys`, no overrun, `CalibrationsAnnounced`, refinement of ConfigMap |
| `nmea_claims` | 2 devices, addresses 0 to 2, 3 entries, one model or none | `OneAddressPerName`, `HeardIsListed`, `NeverFoundElsewhere`, `DevicesDistinct`, `SavedIsCurrent` |
| `cloud_view` | addresses 0 to 3, 2 slots; speeds and what the true wind needs, 2 values; 4 differences, 2 of them pending | `CloudKnowsSlots`, `CloudKnowsTrueWind` |
| `cloud_view_bus` | 2 devices, 2 addresses, 2 entries for claims and one for devices; 4 differences, 2 pending | `CloudKnowsBus` |
| `parser_chosen` | 2 devices, addresses 0 to 2, 2 entries, one filter | `OnlyChosenDevice` |
| `line_buffer` | texts of 6 characters in pieces of up to 5, buffer of 4 | `LinesIntact`, `NoneHeldBack` |
| `ais_list` | 2 vessels, 2 values | `ListTypeOK`, `LateDisplayAgrees` |
| `consume_comment` | as `cloud_link`, 2 messages | a comment of ws.c that the code does not keep |

A ring of 2 or 3 is enough to have it empty, partly filled and full, with a pending
consume in each; five messages fill it twice over two connections. Two displays give
every relative order in the list, and a broadcast that stops between them. Message
numbers only grow, so `MaxMessages` bounds them; everything else is finite by itself.
In `local_server` displays, values and configurations are symmetric, in the runs of claims
and filters the names are, in `inbound_message` the keys; the liveness runs use no symmetry.

Two devices and three entries give an entry that is live, stale or never used before and
behind each other one; three addresses besides 0 fill two slots and overflow them into the
next quantity, and address 0 writes into the slots it leaves free. A buffer of five bytes
takes a frame of up to four in one piece or several, has the misplaced Nul of a piece of one
inside and of a later piece of two beyond it, and drops a piece of a frame of five. Four differences with two pending are
lost before, between and after others, and on both sides of a restart. In
`inbound_message` both tables fill up, and any two members of a message meet. A
buffer of four characters holds a line of up to two with its break, is appended to,
replaced and shifted, and a text of six fills it more than once.

### Findings

* The consume left over from one connection takes the first message of the next, which
  was never written (`consume_comment`).

Two other comments of ws.c do not describe the code either, and no run is spent on them:
`retry_count` is called the count of consecutive retries (ws.c:41), but an established
connection does not reset it; and with more concealed attempts than delays the comment at
ws.c:551 promises the last delay for ever, but when they run out `DoRetry` starts over.

### Fairness

The loop runs a timer that is due, answers an attempt it started, reports a
connection that is closing and a socket that is writable: weak fairness of
`ConnectStarts` (the timer fires and the attempt starts), of the outcome of an attempt, of
`ClientClosed`, and of the writable callbacks. libwebsockets may refuse an attempt at once,
any number of times, but not for ever: fairness of `ConnectStarts` rather than of
`connect_client` says so, and `Redials` needs it. Nothing is assumed of the peer, of
lines, or of success.

## Proofs

For every value of the constants (under the named assumptions of each module), each
invariant, refinement and safety property that a passing run checks is a theorem:

* `OrderedFeed_proofs`: the abstract queue stays in order (`FeedInOrder`), by induction
  with its types; no delivery repeats or steps back (`FeedOnlyNewer`).
* `CloudLink_proofs`: types; `NailedUp`, inductive by itself; `RingHasConnection`, which
  needs it, because a timer that fires while a ring exists would leak it;
  `NoLostWakeup`; `ConnectionStream`; and the refinement `LinkImplementsFeed`.
  `ConnectionStream` is not inductive: `StreamInv` adds that a pending consume belongs to
  the head of the ring once something was written on this connection, and that the ring
  is all that was accepted before. The theorems about the feed are taken over through the
  refinement (`INSTANCE OrderedFeed_proofs WITH ...`): over all connections, what is queued
  and not written is in the order offered (`LinkInOrder`) and nothing is written after
  something newer (`LinkOnlyNewer`).
* `CloudLink_proofs` also has the theorems of `CloudInbound`: receiving is invisible to the
  link (`InboundKeepsLink`: the composition implements CloudLink, whose theorems hold of
  it), the string stays inside the buffer (`InboundTypes`), and `InboundOnlyFirstTorn`
  (`OnlyFirstFrameTorn`). The first invariant, `InboundInvariant`, says that behind the string
  in `receive_message` are Nuls only (`Padded`): with it a piece is appended as it should be
  although its own Nul is stored elsewhere (`AppendedIs`). The second, `Gathered`, says that
  once a frame ended on this connection, the buffer is empty between frames, and inside one
  that fits holds exactly what came of it.
* `NmeaClaims_proofs`: the tables of claims and devices, for any number of devices,
  addresses and entries, through failed and torn saves. The inductive invariant,
  `TablesInOrder`, says of the table in memory and of the one on file that an entry with an
  address has a name, and that no entry of a name *precedes* the one with its address:
  uniqueness alone (`NamesAtOneAddress`) is not inductive, since the loop that frees old
  entries ends at an exact one and would leave a second address behind it. `TableFollowsClaims`
  adds that what was heard is in the table, which needs a free entry for each new name: by
  the pigeonhole principle there is one, as no more names are live than there are
  (`ClaimsAssumption`: at most `MaxClaims` names). `ClaimsAreListed` (`HeardIsListed`) and
  `FoundWhereHeard` (`NeverFoundElsewhere`) follow from it. `DevicesEnteredOnce`
  (`DevicesDistinct`) needs the same of the file: a torn save cuts the devices to a prefix
  and may blank a model, never a name. `FileFollowsTables` (`SavedIsCurrent`) is inductive
  with the types.

* `LineBuffer_proofs`: `LinesStayIntact` (`LinesIntact`), for every input, every cut of it
  into reads and every `BUFFER_SIZE`; `NothingHeldBack` (`NoneHeldBack`); and the types.
  The inductive invariant, `LinesInv`, adds `CleanBuffer`: while every read has fitted, the
  string is inside the buffer *and only Nuls are behind it*. Without the second part an
  append could run into what an earlier line left there, since `addbuf` stores its own Nul
  too far (`AppendedString` is the lemma that this is harmless). `getlines` and `Split` are
  defined by recursion; that functions with these definitions exist (`GetlinesDef`,
  `SplitDef`) and what they compute is proved by an induction stated with sets in place of
  predicates: `Inductive` and `SeqInductive`, from the well-foundedness of the naturals.
  `Follows(x, L, y)` says that the lines of the text x are L and then those of y.
  It is kept by more text at the end of both (`SplitConcat`), composes (`FollowsOn`), and
  relates a buffer to what one line leaves of it (`LeftString`), and so to what the whole
  loop does (`GetlinesIs`).
* `LocalServer_proofs`: for any number of displays, quantities, sources and configurations.
  `ServerListIsLive` and the types are one induction: closing takes the *first* entry of a
  session off the list, so that it is gone only because the list never holds a session
  twice, and the sequences of the list need their types to say so. `ServerWokenIffQueued`
  and `ServerConverges` follow by induction next to it. For `Converges` a broadcast is
  taken display by display down the list (`BroadcastTells`): it reaches every open session
  up to where a `malloc` fails, and those behind count the message as missed. The assumption
  on the constant, `RingDepth` at least 2, is that a ring has room for one message.
* `AisList_proofs`: `ListInv` relates the list to what was heard: an entry for each vessel
  heard, one at most, with what was heard of it. The list is no longer than there are
  vessels by the pigeonhole principle (vessels are finite: a User ID is a 32-bit number).
  `AisLateDisplayAgrees` follows.
* `InboundMessage_proofs`: the configuration, calibrations and sources under whole messages.
  Tables are sequences in which no key comes twice; one that has no more keys than
  `MAXITEMS` has no more entries (pigeonhole), which is why no table outgrows its array
  (`MessageTypes`) although no line checks. `ConfigUnique` is inductive once the file is
  included: a torn save leaves a prefix, and a restart reads it back. `ConfigIsMap` is the
  refinement of `ConfigMap`, with a table mapped to the function from its keys to their
  values. `CalibAsAnnounced` needs `CalibInv`: the table has exactly the announced keys.
* `CloudView_proofs`: the parser and the feed. `ParserKeepsClaims` and `ViewKeepsParser` are
  refinements (the variables a layer adds do not change what the layer below does), so what
  `NmeaClaims_proofs` proves holds of the whole. `SlotsInOrder` is the invariant of the
  slots: in a quantity that no value of another fell in, a source has one slot, the slots in
  use come first, and computed values stay in the first slot of their array. A value that has
  no room changes the quantity behind and no other (`Past`), so the invariant goes on where it
  holds. It is what makes the comparison of arrays by content work: with it
  `CloudIsToldSlots` and `CloudIsToldTrueWind` (`CloudKnowsSlots`, `CloudKnowsTrueWind`)
  are inductive, since a slot that is not reported equals an old slot of the same source,
  of which the cloud knew, and a source that is reported has one slot to report.
  `CloudIsToldBus` (`CloudKnowsBus`) rests in the same way on `NamesAtOneAddress` and
  `DevicesEnteredOnce`. Losses are dealt with once for all topics: `LineTells`, `FeedMoves`
  and `RestartLoses` say what a step does to the latest news of a topic. `ChosenOnly`
  (`OnlyChosenDevice`, an action property) combines the slots with `FoundWhereHeard`.

Only model-checked:

* liveness (`Redials`, `QueuedMessagesLeave`, `CatchesUp`): fairness and ENABLED are out of
  the prover's reach;
* `ConsumesOnlyWhatWasWritten`, which the code violates.

The bounds of the runs (`MaxMessages` and the like) are constants of the modules too: the
theorems hold for every value of them.

## Plan

1. The displays' side of `CloudView`: the same parser behind `LocalServer`, with the full
   state that a new display is sent.
2. The whole chain as one theorem: `CloudView` over `CloudLink` in place of `OrderedFeed`.

## Not modelled

* MQTT (not built: `mqtt.o`, its define and its library are commented out of the Makefile);
  cJSON (vendored); the scripts; the clock helpers, which read and format the time.
* The sentences for the bus: formatting without state, most of it commented out. "light"
  in a message prints one and changes nothing.
* The true wind computation: `truewind.c` is not in the repository; its results are any.
* PGN 126992 may set the machine's clock, which is no state of this program.
* The signal handler and `ws_destroy`: they end the process, as a crash does, and save
  nothing.
* `RECEIVE` hands a display's message over piece by piece and keeps nothing in between.
* Memory: the rings of closed sessions and the list of vessels grow for ever.
