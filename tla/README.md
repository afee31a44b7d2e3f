# Euroscope-Plugin-Bridge: specification and verification

EuroScopeBridge is a EuroScope plugin DLL that lets other plugins publish and
read named, typed values, globally or per aircraft, in one process and, through
an MQTT relay, between controllers. This directory holds TLA+ modules that model
it, TLC configurations that check them on small instances, and proofs that TLAPS
checks for every instance.

## 1. Inventory of the system

| Component | Source | State | Operations | Interacts with |
| --- | --- | --- | --- | --- |
| Aircraft table | `AircraftTable.cpp` | slots with generation, free list, callsign index | Observe, Retire, Sweep, Resolve, Validate, CallsignOf | called by the registry; the handles go to plugins |
| Claims and catalogue | `Registry.cpp` 229-461 | `m_providers` (append only), `m_providerIndex`, `m_fields`, `m_fieldIndex`, `m_clock` | RegisterProvider, UnregisterProvider, OwnField, Resolve, ReapDeadModules | Windows' module list decides whether a claim is still held |
| Values | `Registry.cpp` 465-637, 821-926 | `m_globals`, `m_aircraft`, `m_slotFields`, revisions | Set, Clear and Get for both scopes, RevisionOf, ProviderRevision, drops | writes notify, queue outbound values and mark state dirty |
| Notification | `Registry.cpp` 639-817 | `m_subs`, `m_subsByField`, `m_pending`, `m_dispatchDepth` | Subscribe, Unsubscribe, Notify, Dispatch, DrainPending | calls plugins, which may call back into any operation |
| Persistence | `Registry.cpp` 1504-1792 | `m_staged`, `m_stateDirty`, the state file | LoadState, RestoreStagedFor, SaveState, FlushStateIfDue | JSON reader and writer, file system |
| Relay side of the registry | `Registry.cpp` 999-1494 | `m_outbox`, `m_publishedKeys`, `m_remote`, `m_pendingRemote`, `m_peers` | QueueOutbound, FlushOutbox, ApplyRemote, DrainRelay, GetRemote, ListPeers | two queues shared with the relay thread |
| Relay thread | `Relay.cpp` | connection, backoff, the two queues, stop flag | Start, Stop, ConnectAndSubscribe, PumpOutbound, PumpInbound | broker through Transport and MqttCodec |
| Transport | `Transport.cpp` | socket, TLS context, read buffer | Connect, Send, Receive, Close | Winsock, SChannel |
| MQTT codec | `MqttCodec.cpp` | none | encode and decode packets | relay thread |
| Bridge instance | `BridgeInstance.cpp` | named mutex, module path | constructor, ModuleIsLoaded | a second copy of the DLL |
| EuroScope plugin | `BridgePlugin.cpp` | watches, last errors | load, OnTimer, disconnect, dot commands, unload | drives the registry and the relay |
| API exports | `ApiExports.cpp` | accepted flag | one C function per operation | gate between clients and registry |
| Configuration | `Config.cpp` | `bridge.json` | Load, WriteDefault, AllowsProvider | read once at start, by the relay and the outbox |
| JSON | `Json.cpp` | none | Parse, Write | configuration and state file |
| Log | `Log.cpp` | the log, one previous generation | Write, Rotate | written by both threads |
| Client shim | `esbridge.h` | the API pointer of a plugin | ESB_Attach, value constructors | every client |

There are two threads. The main thread is EuroScope's; every call of a plugin
and every timer runs on it, so calls do not interleave, except that a subscriber
is called back in the middle of a write. The relay thread shares only two queues
with it. What makes the system hard is not parallelism but *time*: plugins keep
handles, field ids, provider pointers and revisions over disconnects, reloads and
slot reuse; DLLs vanish without a word; the state file meets other schemas; and
messages from other controllers arrive before the aircraft they are about.

What makes each component correct:

* **Aircraft table**: a handle names one aircraft for ever; slots are conserved;
  what is not seen ages out; a quick reconnect keeps its slot.
* **Claims**: one live claimant per id, which owns its fields; a claim ends with
  its module; values end with the claim.
* **Values**: typed as declared; gone with the aircraft; revisions never repeat;
  the coarse revision of a provider hides nothing from a poller.
* **Notification**: no subscriber is called after it unsubscribed or was
  reaped; every change is delivered or counted as dropped; dispatch ends.
* **Persistence**: a restart gives back what was saved, or the last save before
  it; a crash leaves one complete file.
* **Relay side**: remote values are attributed to the aircraft they were sent
  for and never give way to an older number of one publisher; what changed is
  eventually sent.
* **Relay thread**: stops when told; reconnects; its queues are bounded.
* **Transport and codec**: each direction is a stream of whole packets, however the
  octets are cut; what has arrived does not wait for octets that need not come.
* **Bridge instance, plugin object, API exports**: one registry in a process; no
  call through a cached table or a subscription reaches what is gone; what is
  accepted is saved.
* **Configuration**: nothing leaves the machine that a whole, well-formed file does
  not consent to.
* **JSON**: what is written is read back, or refused as a whole.
* **Log**: no gap in the last lines over rotations.

## 2. Modules

| Module | Kind | Models |
| --- | --- | --- |
| `AircraftHandles` | abstract | what the table promises: fresh handles, never given to a second aircraft |
| `AircraftTable` | component | `AircraftTable.cpp` |
| `AircraftTable_proofs` | proofs | theorems about `AircraftTable` |
| `MCAircraftTable` | TLC | instances |
| `FieldBoard` | abstract | what the registry promises a polling consumer: a board of values with revisions never used before |
| `Registry` | composition | claims, catalogue, values and revisions of `Registry.cpp`, on top of `AircraftTable`, with the loading and unloading of plugins as its environment |
| `Registry_proofs` | proofs | theorems about `Registry` |
| `MCRegistry` | TLC | instances |
| `Dispatch` | component | subscriptions and notification of `Registry.cpp`, one callback at a time |
| `Dispatch_proofs` | proofs | theorems about `Dispatch` |
| `MCDispatch` | TLC | instances |
| `Persistence` | composition | the state file, on top of `Registry`, with the processes that read and write it |
| `MCPersistence` | TLC | instances |
| `Persistence_proofs` | proofs | theorems about `Persistence` |
| `RelaySide` | composition | the relay's side of `Registry.cpp`, on top of `AircraftTable` |
| `RelaySide_proofs` | proofs | theorems about `RelaySide` |
| `MCRelaySide` | TLC | instances |
| `Relay` | component | `Relay.cpp`, with the network, the broker and the other controllers as its environment |
| `Relay_proofs` | proofs | theorems about `Relay` |
| `MqttCodec` | algorithms | `MqttCodec.cpp`, octet by octet |
| `PacketPipe` | abstract | what one direction of a connection promises |
| `Wire` | composition | `Transport.cpp` and the loops of `Relay.cpp` that feed `MqttCodec`, against a broker and a network of octets |
| `Wire_proofs` | proofs | theorems about `MqttCodec` and `Wire` |
| `MCWire` | TLC | instances |
| `LogFile` | algorithms | `Log.cpp` |
| `Bridge` | composition | `BridgeInstance.cpp`, the life of `BridgePlugin`, `ESB_GetApi` and its gate, the shim, on top of `LogFile` |
| `Bridge_proofs` | proofs | theorems about `Bridge` |
| `MCBridge` | TLC | instances |
| `JsonText` | algorithms | `Json.cpp`, recursive, for TLC only |
| `Documents` | composition | `Config.cpp` and the text of the state file, between processes, on top of `JsonText` |
| `MCDocuments` | TLC | instances |

`Persistence` extends `Registry`, which extends `AircraftTable`; `RelaySide` extends
`AircraftTable` directly. `RelaySide` and `Relay` meet in the two queues: what
`FlushOutbox` appends is what `Push` does in `Relay`, and `Arrive` and `TakeOutbound`
are the relay thread as the registry sees it. `Relay` and `Wire` are the same thread
at two grains: `Relay` has whole packets and all that a broker and a network may do
over sessions; `Wire` has octets and shows that the step from one to the other is
justified, for it implements `PacketPipe` in both directions. `Persistence` and
`Documents` are the state file at two grains in the same way, and `Bridge` has the
registry as the number of its last write. `Dispatch` stands
by itself: what a notification does depends on which key changed and not on the
values, and with values and callbacks in one module no instance would be small.
What links the two is that a write which changes nothing returns before `Notify`:
the steps `SetGlobal`, `SetAircraft` and their clears are the writes of `Dispatch`.

### AircraftTable

`slots`, `free` and `index` are `m_slots`, `m_free` and `m_index`; slots count
from 1. One action per function: `Observe` (its three branches are three
operators), `Retire`, `Sweep` (one pass over all slots, in one step). `now` is
the tick count callers pass in; `issued` is history, every handle ever returned
with its callsign. `Validate`, `Resolve` and `CallsignOf` are the queries.

### Registry

The module extends `AircraftTable` and shares its variables: `RetireAircraft` is
`Retire` and the drop of the slot's values, in one step, as in the code. A field
is named by its qualified name; ids and names are in bijection since neither
`m_fields` nor `m_fieldIndex` ever shrinks. `loaded` is the process's module
list: for each base address the file mapped there, and what that plugin knows,
the provider handles it was given. Windows maps one module per file, and may map
a reloaded file at its old address. Everything a plugin calls with (provider
handles, aircraft handles, field names) ranges over everything it was ever
given, so stale and foreign ones are tried all the time. Refused calls change
nothing and are not steps, but for the one refusal that does: `RegisterRejected`
releases the dead predecessor's claim before it looks at the schema.

`ReapDeadModules` and `SweepAircraft` are separate actions: `Housekeeping` runs
each on its own interval (5 s and 30 s), so one may run without the other, and
a call in which both are due is the two steps in a row.

The queries are operators that answer as the functions do, checks in the same
order: `OwnField`, `ResolveField`, `ProviderVersion`, `ListProviders`, `GetGlobal`,
`GetAircraft`, and what the dot-commands find, `DumpSchema`, `DumpValue`, `DumpAll`.
The properties are stated in them: `ClaimsExclusive` about what discovery answers,
`ValuesIndexed` (in `ShownAsRead`) that the three ways to a value, by handle, by slot
and by the slots' lists, find the same ones.

Data left out: sizes and caps of strings (`max_bytes`), names and documentation
texts, NUL and pointer checks, the thread check. A declaration names each field
once, and every plugin passes its own module handle, whose path is found: a claim or
a subscription made without one is taken for alive for ever (`BridgeInstance.cpp:37`)
and is not modelled, here or in `Dispatch`.

### Dispatch

Here the calls of subscribers are not atomic. `Write` is `Notify` outside any
callback: it takes the snapshot of the field's subscriptions. `Deliver` takes the
next of the snapshot and, when it is live, enters its callback; `Return` and
`Fault` leave it. While a callback runs, its module may write (`WriteInside`: the
notification is only queued), subscribe and unsubscribe, its own entries alone,
for it holds no other handles. `NextInRound`, `NextRound`, `Shed` and `Unwind` are
the loop of `DrainPending`. A plugin may be unloaded with subscriptions left
behind; `ReapSubscriptions` drops them later. Until then their callback is still
entered, as in the code, and can only fault.

`owed` is history: the pairs of subscription and key with a change the subscriber
was not called for yet. `calls` counts the calls since the outermost write, up to
`CallCap`, which is more than any property allows.

### Persistence

`SaveState` is five steps (open, write, remove, rename, and its end), between
which nothing but the end of the process can happen. `Restart` is the end of the
process, in whatever step it is, and the next start of EuroScope: all memory is
gone, the files stay. `RemoveBridge` is `~BridgePlugin`, with its last save and the
shutdown flag; plugins stay loaded and go on calling, and only teardown is let
through (`Around`, after `AcceptingState` in `ApiExports.cpp`). `AddBridge` is the
constructor of a second `BridgePlugin` in the same process, possible since the DLL
is pinned. With `DiskFails` every file operation may fail, and `fwrite`, which the
code does not look at, may leave a short file.

What JSON does to values is the constant `RoundTrip`: what is read back of a value
that was written, or `Unreadable` when the parser refuses the text. The passing
run has a value of either kind; the second stands for a NaN.

### RelaySide

The fields are those of one provider, whose plugin is loaded, unloaded and
replaced by a version with other flags (`Register`, `Release`). `Write` and `Clear`
are the calls that queue a key in the outbox; writing the present value again
returns before that and is no step. `DrainRelay` is several steps, one per message
and per pending message, since the relay thread may append a message between any
two of them (`Arrive`) and take the outbound queue (`TakeOutbound`); the rest of the
main thread waits. Whether the flush at its end is due is left open, as its interval
is shorter than the timer's. A remote entry keeps the publisher's revision and, as
history, the callsign it was sent for. A peer may number a message as it likes, and 0
is taken whatever is there (`Outdated`). What of a payload matters is whether it
parses and fits. `RemotePublishers`, `GetRemote`, `ListPeers` and `DumpNet` (the audit
of `.esb net`) are the queries; `RemoteInSight` is stated for every handle a plugin
was ever given, as `GetRemote` answers it.

### Relay

`pc` is where `ThreadMain` is; each step is what happens up to the next point where
another thread or the network can make a difference. `link` is the connection: a
link that was *cut* takes what is sent into the void until TCP finds it *dead*; on a
*stalled* one the broker does not read. `Send` loops on a timeout, so `SendOne` and
`Bye` are not enabled then. The broker holds a session with our will, a
subscription once it granted one, the retained values and the retained presence.
What it delivers is not queued but chosen from all it may deliver (`Traffic`), our
own messages among it. Pushed values are numbered by one clock.

### MqttCodec, PacketPipe and Wire

`MqttCodec` has an operator for each function of the source; a string is the
sequence of its octets, and what may be refused is a set of at most one result.
`Wire` puts it between a relay and a broker. `pc` is where the relay thread is,
`phase` what it waits for (CONNACK, SUBACK) or does. The network carries octets, or
TLS records: a header that says how many octets follow. SChannel is modelled by
what the code expects of it: a token is consumed, more input is needed, extra input
is left over, a record is opened. `::recv` returns any prefix of what came, `::send`
takes some sizes (`SendSizes`) or all. `m_tlsIncoming`, `m_tlsPlain` and `m_rx` are `incoming`, `plain` and `rx`;
`Connect` does not clear `rx`, `SendEnds` does, as in the code. The broker reads what
reaches it as a server would (`ReadPacket`), independently of the codec, and says
what a script has, written out octet by octet in `MCWire` with what it means.

`PacketPipe` is the abstract specification: packets are taken in the order they
were offered, each as it was. `Wire` implements it twice, from the
broker's script to what `Decode` hands on (`ReadsInStep`) and from what is passed to
`Send` to what the broker reads (`WritesInStep`). `InStep` is the two of them. What is
offered is what a packet means, written by hand in `MCWire`, and what is taken is what
the codec made of its octets, so the run `wire` holds the codec to what MQTT says as
well as the transport to the order of its octets.

`SendFails` takes a `::send` that fails for a dead connection: which other errors
Winsock and SChannel report is not in the source.

### LogFile and Bridge

A log is a value: the lines of the current file and of its previous generation,
whether it is open, and, as history, whether a file operation failed. `Write` is a
set of outcomes, one per way its file operations may go.

`Bridge` has the copies of the DLL in a process. `Load` and `Unload` are what EuroScope
does with a copy and with its plugin object; a copy that a client attached to is
pinned (`Attach`, with `PinSelf`). A copy serves if it has the name and finds the mutex
free (`MayServe`); it stands down otherwise, and also (`StandsDown`) when its own path
cannot be found or `CreateMutexA` fails, each a fault of the system. A named copy that
stood down has no table to give; when it is the first with the name, because a fault
kept it from serving or the copy that served is gone, clients find it and no other,
and one that is loaded later serves without being reached until the first is
unloaded. With a pinned copy `Leave` and `Reenter` destroy and create the plugin object
only, while all that is static in the copy stays: registry, watches, `m_shuttingDown`. The mutex has the process id in its name, so a process is
all there is. `Set` is every write that a forwarder lets through; it calls the
watches of the registry and queues to its relay, which is what `NothingDangles` is
about. Which callbacks a write reaches in a client is `Dispatch`'s matter.

### JsonText and Documents

`JsonText` is the parser and the writer, function by function, over sequences of
characters; octets above 127 and the escapes are characters of their own. Numbers
are integers. `Documents` has `bridge.json` and `bridge-state.json` and EuroScope
processes that start, read, save and end, with an editor that saves one of the
sheets of `MCDocuments`. Every write may fall short, since nobody looks at what
`fwrite` returns. `Creates` is the second half of `WriteDefault`: another process or
the editor may have made the file since it was looked for.

What a sheet consents to (`Consent`) is told from what was typed, its members and
comments, and not from the text, so that a parser that took a comment for a member
or a part of a file for all of it would be found out.

## 3. Runs

| Run | Instance | Shows |
| --- | --- | --- |
| `table` | 2 callsigns, 2 slots, 4 generations, clock to 4, TTL 1, grace 1, fair timer | slots conserved; a reconnect keeps its slot; unseen aircraft are retired and reclaimed; refinement of `AircraftHandles`, which has that no handle retargets |
| `registry_lifecycle` | 2 ids, one with 2 schemas, 2 bases, 2 files, 3 loads, 3 claims, 1 aircraft, with and without a saved value | exclusive claims and what discovery says of them, nobody publishes in another's field, values that die with the claim, typed values, all ways to a value agree, gate, refinement of `FieldBoard` |
| `registry_aircraft` | 1 provider, 2 fields, 2 aircraft, 2 slots, 3 generations | values never outlive their aircraft |
| `dispatch` | 2 aircraft of one field, 2 plugins, 2 subscriptions, 2 rounds, fair callbacks | every change is delivered or shed; calls bounded per round; no dead subscription is called; writes return |
| `persist` | 2 ids with a persistent field, with and without a saved value, 2 loads, 2 starts, failing file operations or none, a value the parser refuses, the bridge removed and added | staged values stay on file; clean means saved; a complete state on disk at every point of a save; adding again changes no value |
| `persist_lost` | 1 plugin, 2 starts | **violated**: a crash between remove and rename loses the state |
| `relay_side` | a global field and one per aircraft, synced and in a later version not, 2 aircraft on 1 slot, 1 peer that sends values of aircraft, numbered or not, queues of 1, a cap of 1 key, 2 local revisions | remote values are read for the right aircraft and in order, come in and leave by consent at that time; a drain settles what it can; changed globals are sent |
| `relay_scope` | the same | **violated**: values of aircraft are never sent |
| `relay` | 2 keys, 3 values, 1 peer, an outbound queue of 2, an inbound one of 1, 2 faults, 2 starts, fair thread | the thread stops, recovers, is never deaf; the queue keeps the newest; retained values never go back; our own values never come back |
| `wire` | 5 scripts of up to 5 packets, TLS and plain, records of up to 7 octets, a `Recv` of 6, an encrypted record of 16, 2 connections, 1 fault, fair thread and broker | packets in step in both directions; all that arrived is read |
| `bridge` | 3 copies, one of them renamed, 2 clients, 3 plugin objects, 1 write, a log of 1 line, 1 fault | one registry; a restart serves unless a call of the system fails it; nothing accepted after the last save; nothing dangles; the log keeps its tail |
| `documents` | 19 sheets, 2 states of the file, 2 processes, 2 changes, 1 short write | shares by consent only; the state file reads back as saved or not at all |

Each violated property quotes a document or a comment; the code contradicts it, and
the run's counterexample is listed with the lines in `PROJECT.json` under
"findings". Reading the code for the models showed more of the same kind, without a
run: a plugin unloaded and loaded again at the same address between two
liveness checks inherits its values (`Registry.cpp:256`, against ARCHITECTURE 9.1);
the values of a provider that unregisters are dropped, so that a later save loses
those that were persistent (`Registry.cpp:375`, against the comment at 1710);
a value that was in a batch when the connection went is never published again, and the
broker keeps the old one (`Relay.cpp:395`, against the comment at 385); `resolve` finds a field that the
provider no longer declares, which `get_global` then answers NO_PROVIDER for
(`Registry.cpp:416`, against `esbridge.h:52`); a bridge removed and added again in one
EuroScope says that it is ready and refuses every registration and write, for nothing
resets `m_shuttingDown` (`Registry.h:161`); `WriteDefault` overwrites a file that was
made after it looked (`Config.cpp:131`, against the comment at 127); a cap of 2^32 keys
is a cap of 0 (`Config.cpp:107`), and a port is taken modulo 2^16;
two subscribers that answer each other are called in up to 8 rounds, more than the
"at most one extra call per pair" of ARCHITECTURE 7.1 (`Registry.cpp:719`); the
presence of a bridge that is removed in order stays with the broker
(`Relay.cpp:174`), and that of a peer that left while we were not connected stays
in `m_peers`; `Stop` does not return while a broker keeps a connection and reads
nothing (`Transport.cpp:341`); a reconnect in the grace period resets `first_seen`
(`AircraftTable.cpp:24`); a live provider that registers as many other fields under
its version is answered OK (`Registry.cpp:259`); a field redeclared global and
persistent keeps its per-aircraft scope (`Registry.cpp:327`); integers beyond 2^53
come back as others (`Json.h:26`); a NaN makes the state file unreadable
(`Json.cpp:303`); a short write replaces a good state file and counts as saved
(`Registry.cpp:1769`). The modules have all of these as the code does them.

Some weaknesses of the code are certain and need no model: generations wrap after
2^32 reuses of a slot; a string of more than 65535 octets breaks the framing of its
packet (`MqttCodec.cpp:14`); two EuroScope processes share one state file, and the last
save wins; both threads write the log without a lock; dead subscriptions are never erased; `m_pendingRemote` has no
limit but its 60 s; what a flush finds over the provider's cap is not queued again;
the revisions of a peer that restarted are refused until they pass the old ones,
while a message numbered 0, which no bridge sends but the relay lets in
(`Relay.cpp:509`), replaces any newer value of its peer and takes the number away, so
that older messages come in after it (`Registry.cpp:1278`, against the order within a
publisher's stream of ARCHITECTURE 11.3);
between an unload and the next liveness check a subscription calls into memory that
may be another DLL's.

Bounds. `MaxSlots`, `MaxGeneration`, `MaxNow`, `MaxProviders`, `MaxClock` and
`MaxLives` stop the counters that the code lets grow (32 or 64 bits); a step
beyond a bound is not taken. Three generations let a slot go through two
occupants or a reconnect and a new occupant; a clock of 2 reaches TTL plus grace,
the point of reclaim; three claims of an id are a first, a takeover and a
takeover of the takeover; five revisions are three claims and two changes of values. Two rounds are a round and
one that was caused by it, and reach the shedding; two subscriptions on one
field let the first drop the second while that is still to be called; two
keys let two aircraft of one field be queued together. One slot for two aircraft
is enough for a value to wait while its aircraft's slot is another's, and two
local revisions for two keys in the outbox or a write and a clear of one. The peer
sends no global values in this instance, for they are never held back and hang on no
slot that is reused; the proofs have them. Two
faults are, for instance, a connection lost and a subscription refused after it;
three values overflow a queue of two. `MaxRuns` is 2: a state
that is saved, and the start that reads it. In `wire` a `Recv` of 6 octets and records
of 7 cut every packet of the scripts in all places, a record of 16 cuts CONNECT into
three and SUBSCRIBE not at all, and two connections let the first leave half a packet behind;
the limit of the handshake is 4 iterations instead of 32 for 2 tokens, so that it can be
reached. In `bridge` three plugin objects are a copy, its reload and another copy, or
a pinned copy entered again and a duplicate. The log holds one line and is written to
over three generations. In `documents` each sheet differs from the good one in one
thing; `CapModulus` stands for 2^32, which TLC cannot count to. Deadlock is checked in `bridge` and
`documents`, where something can always be done; the other instances stop at their
bounds.

Fairness. `TableFairSpec` assumes that time passes and that the sweep runs when
it has something to do. `OnTimer` fires every second as long as EuroScope runs
and the sweep follows every 30 s. `AgesOut` excuses an aircraft seen again so
late that the bounded clock cannot reach its deadline, and a slot at the bound on
generations. `DispatchFairSpec` assumes weak fairness of `Proceed` alone: the
callback that runs comes to an end, by returning or by a fault, and the loops of
`Dispatch` and `DrainPending` go on. It does not assume that subscribers ever stop
writing: `WritesReturn` holds because rounds are limited, and its mutant without
the limit fails. A callback may write any number of times before it returns; since
entries are coalesced this comes down to finitely many different states.
`RelayFairSpec` assumes that the operating system runs the thread, that connect and
name resolution return, that TCP gives up on a link that was cut, and that `join`
returns. It assumes nothing of the broker: `StopReturns` and `Recovers` are stated
for links that do not stay stalled for good, and the bound on faults stands for
faults that cease. `WireFairSpec` assumes that the thread runs and that the broker says
what it is ready to say; connecting, deadlines and cuts are not assumed to happen.

## 4. Proofs

`AircraftTable_proofs` proves, for every set of callsigns and every value of TTL,
grace and bounds allowed by `TableAssumption`:

* `TableInvariant`: `TableInv` is inductive. Neither the conservation of slots nor
  `NeverRetargets` is inductive alone: that no handle comes back needs that every
  handle in the history has a generation at most that of its slot, and strictly
  less unless its callsign still occupies the slot in that generation; that the
  index is right after `Sweep` needs that reclaimed slots are used and distinct.
* `TypeCorrect`, `SlotsAreConserved`, `HandlesNeverRetarget`: types, `SlotsConserved`
  of the run `table`, and that a handle that validates names its aircraft.
* `SlotIsKept`: `ReconnectKeepsSlot` of the run `table`; `GrowthIsBounded`: the vector
  of slots grows only when none is free.
* `Implementation`: every step of the table is a step of `AircraftHandles` or
  changes nothing there.

`Dispatch_proofs` proves, for every set of keys and plugins and any limit on rounds
and subscriptions:

* `DispatchInvariant`: `DispatchInv` is inductive. `OwedIsScheduled` is not by itself:
  that passing over a dead subscription forgets nothing needs that only live ones
  are owed a call, and that starting the next key reaches everyone it is owed to
  needs that they subscribe to its field. `CallsAreBounded` needs that no key is
  twice in a round, which is what coalescing is for, and that what a round has
  still to call was not called in it.
* `DispatchTypeCorrect`, `ChangesAreDelivered`, `CyclesAreBounded`: types and rounds,
  and the two invariants of `dispatch`.
* `DeadStaySilent`: its action property.

`Registry_proofs` proves, for every set of declarations, values, addresses and files,
any state file at the start and any bounds allowed by `RegistryAssumption` (which asks
that a declaration has finitely many fields and that values have types):

* `RegistryInvariant`: `RegInv` is inductive. It adds to `TableInv` that every entry of
  `m_providers` was made from a declaration the catalogue still has the types of, that
  the owner of a field is an entry that declared it, and that a live entry is the one
  its id leads to and owns all it declared; that a value fits its field and was
  published by its owner, which is live; and that the lists of the slots mirror the
  values. No part holds alone: `DropProviderValues` finds aircraft values through the
  lists and fields through their owner, so that it leaves nothing of a dead claim
  needs both, and that the owner of a value is live needs that a redeclared field
  lost its value with its earlier owner.
* `RegistryTypeCorrect`, `OneClaimant`, `DeadPublishNothing`, `SlotsStartClean`,
  `ListsAreExact`: the invariants of the two registry runs, from `RegInv`.
* `RevisionIsSoundGate`: `GateSound`. Every step is first shown to be a *move*
  (`Moved`): some fields get new cells, with revisions above the clock, some lose
  them, aircraft that leave lose theirs, and the provider's revision stands still only
  if none of its fields is among the first two. What a consumer sees follows from the
  cells by `ViewIs`, before the step and after it.
* `RegistryImplementsBoard`: `ImplementsBoard`, the refinement of `FieldBoard`, from the
  same two lemmas.

`Persistence_proofs` proves, for every set of declarations, values, disks and files and
any number of starts of the process:

* `SaveInvariant`: `SaveInv` is inductive. It joins `RegInv`, which a restart and the
  constructor of a second bridge establish and keep, with `Saving`: once `SaveState`
  has written, the temporary file is the text of `ToSave` or garbled, and `ToSave`
  is still what it was when the save began, because nothing else runs meanwhile.
* `AlwaysOneFile`: `CompleteOnDisk`, from `Saving`.
* `FileInvariant`: `FileInv` is inductive. `StagedIsKept` is not by itself: a save writes
  the value of the provider where there is one, so that it writes what is staged needs
  that nothing staged belongs to a live provider (`Apart`). `CleanMeansSaved` is not
  either: a registration restores staged values without raising the dirty flag, which
  is right only because what is staged is on file (`Backed`). `ReaddKeepsValues` needs
  that while the bridge is away what is on file for live providers is what they have
  (`Away`).
* `StagedSurvives`, `CleanLosesNothing`, `ReaddIsHarmless`: `StagedIsKept`,
  `CleanMeansSaved` and `ReaddKeepsValues`.

`FileInvariant` and the last three have the hypothesis `Faithful`: a value that can be
read back is read back as it was. It holds of the instance of the run `persist`
(`NotANumber`) and, for integers, texts and booleans, of the model of the reader and the
writer (`StateReadsBack`). Values outside those, such as
doubles, are covered as far as the hypothesis holds of them; `SaveInvariant` and
`AlwaysOneFile` do without it.

`RelaySide_proofs` proves, for any callsigns, slots, peers, values, limits and versions
of the one provider:

* `SideInvariant`: `SideInv` is inductive. It joins `TableInv`, `InSight` (a remote
  entry is kept under a slot that is live, by the callsign it was sent for) and
  `Passed` (a pending message the retry has passed over in this drain is for an
  aircraft still unknown, and not yet stale). `RemoteInSight` speaks of every handle ever
  given out and is not inductive: it follows from `InSight` with the table's own
  `NeverRetargets`.
* `RemoteStaysInSight`, `StreamsAreOrdered`, `ConsentComesFirst`, `DrainsSettle`:
  `RemoteInSight`, `RemoteOrdered`, `ComesInByConsent` and `DrainSettles`.
  `RemoteOrdered` is about values with a number: what replaces a newer one has none.
* `OutboundInvariant`: `OutInv` is inductive next to `SideInv`. The outbox is a finite set
  of keys, the queue holds messages, and only what is declared is flagged.
* `ConsentBeforeSending`: `LeavesByConsent`, from it. What a flush queues is among the
  last messages of old queue and batch (`NewestIs`), the old ones were there
  before, and the batch was chosen among what may leave in that step.
* `GlobalValuesAreSent`: `GlobalsAreSent`. That a flush takes all that may leave when the
  cap has room for it needs that the outbox is finite, for a subset of full size of a
  finite set is the set.

`Relay_proofs` proves, for any keys, peers, queue limits and number of faults:

* `RelayInvariant`: `RelayInv` is inductive. Besides types it says which flags go with
  which place of the thread, what a connected relay implies of the broker's session,
  and that revisions retained are below those of the batch, those below those of
  the queue, and none is given out twice: without the last two parts neither
  coalescing nor a batch sent twice could be shown not to go backwards.
* `RelayTypeCorrect`, `NewestIsKept`, `NeverDeaf`, `NeverBackwards`: `RelayTypeOK` (with
  `OwnNeverComesBack` in it), `QueueKeepsNewest`, `ConnectedMeansSubscribed` and
  `RetainedForward`.

`Bridge_proofs` proves, for any set of copies of the DLL and of clients:

* `BridgeInvariant`: `BridgeInv` is inductive: who holds the mutex serves and is in
  memory, a table is that of a copy that was pinned or could not be, and plugin
  object, subscriptions and relay go together until shutdown.
* `NeverTwoRegistries`, `NothingAfterTheSave`, `NoDanglingObject`, `RestartsServe`:
  `OneRegistry`, `FlushedIsFinal`, `NothingDangles` and `RestartServes`. The last is about
  copies whose constructor no call of the system failed, which is told from the count
  of faults; `FaultsAreCounted` is what that rests on.
* `LogInvariant`: `LogInv` is inductive, and `TailIsKept`: `LogKeepsTail`. The
  lines of a log and of its previous generation are two adjacent runs up to the last
  line written, and the older one, if there is one, is at least as long as a full log.
  The property needs both: what a rotation drops is then older than the last
  lines it speaks of.

`Wire_proofs` proves, for any packets, scripts of the broker, sizes of records and
buffers, bounds and number of connections:

* `DecodeIsFinal`: what `Decode` has answered, other than that it needs more, it
  answers for every longer buffer as well. It is why the loops of `Relay.cpp` may try
  again after each `Recv`, and why a malformed length is refused for good.
* `WireInvariant`: while every packet is understood, the conjunction of `Control`,
  `Uplink` and `Downlink` is inductive. `Downlink` says where each octet of the
  broker's stream is: what has been handed on, `rx`, `plain`, the records in `incoming`
  and on the wire are adjacent pieces of it, in this order (`Place`, `Coming`), also
  when the connection was cut in the middle of a record, and during the handshake only
  its messages come first (`Opening`). `Uplink` says the same of the octets of the
  packet in `Send`, as long as the connection is not cut: `up`, the unfinished `record`,
  `out` and `data`.
* `PipesInStep`: `InStep`, both refinements of `PacketPipe`, if each packet that may be
  said is, alone and in one piece, read as what it is (`Readable`). A step of the
  broker, the network or the transport is a stutter, `Packet` is a `Take` of the next packet and `StartSend` a
  `Say`; that `Decode` finds the next packet and nothing else needs `Downlink`,
  `DecodeIsFinal` and that the stream is the concatenation of the script (`Layout`).
  `Readable` is a statement about constants. The next theorems settle it for all that
  the relay says, and for publications encoded as the relay encodes them.
* `NumbersReadBack`, `PropertiesReadBack`, `FramesReadBack`, `PublicationsReadBack`:
  what `MqttCodec` encodes it decodes to the same. A number below 128^4 is read back
  wherever it stands; a block of any user properties gives them all in their order; a
  frame at the head of a buffer is taken whole, with nothing of what follows; and so a
  publication, of any topic, payload and properties that fit into a packet, is read
  back as it was published. `ParseProperties` recurs over the block: the proof first
  shows that the recursion has a solution (`ParsesExist`) and then follows the
  properties from the last to the first, each step as a least counterexample
  (`Smallest`), for the library's induction theorems cannot be used.
* `PacketsAreLegible`: a server that reads packets by its own rules (`ReadPacket`) finds
  in each CONNECT, SUBSCRIBE, PUBLISH, PINGREQ and DISCONNECT the strings, numbers and
  flags it was built from, as long as one octet says the length of the packet: the
  broker of `Wire` reads no longer ones. The packets of the run `wire` are of this kind.
* `PacketsInStep`: with it `InStep` for any such packets of the relay's. Of the broker's
  scripts it still assumes that `Decode` reads each packet alone (`Intelligible`).

Only model-checked are: `WritesReturn`, `AgesOut`, `StopReturns`, `Recovers` and
`EverythingIsRead`, for TLAPS proves no liveness under fairness here; the properties of
`Documents`, for `JsonText` is recursive and what it computes cannot be proved with the
installed provers; and that `Decode` reads CONNACK, SUBACK, publications with properties
the relay does not send, and packets it refuses as the scripts of the run `wire` say.

## 5. Order of the work and what is left

1. `AircraftHandles`, `AircraftTable` with proofs. Done.
2. `FieldBoard`, `Registry` with its queries and proofs. Done.
3. `Dispatch` with proofs. Done.
4. `Persistence` with proofs, for a `RoundTrip` that gives back what it reads. Done.
5. `RelaySide` with proofs, for one provider. Done.
6. `Relay` with proofs of its safety. Done.
7. `MqttCodec`, `PacketPipe`, `Wire` with proofs of the transport and of the codec. Left
   to prove: that `Decode` reads the broker's CONNACK and SUBACK for what they say.
8. `LogFile`, `Bridge` with proofs. Done.
9. `JsonText`, `Documents`. Modelled and checked.

Not modelled: the wording of the dot-commands, the log level and `api->log` (texts and
their layout); `Config::Describe`; name resolution, socket options and the messages
the handshake itself sends (system calls whose outcome is one bit here); fractions,
exponents, infinities and NaN as text (TLA+ has no such numbers); the value
constructors of the shim; the thread check of every call, which only says that a
caller kept to the main thread; sizes of buffers; the vendored SDK header, the sample
plugins and the test driver.
