--------------------------------- MODULE Bridge ---------------------------------
(***************************************************************************)
(* The life of the bridge in a EuroScope process: which copy of the DLL     *)
(* serves (src/BridgeInstance.cpp), the plugin object EuroScope creates and *)
(* destroys (src/BridgePlugin.cpp), the table its clients cache             *)
(* (src/ApiExports.cpp and the shim of include/esbridge.h) and the log      *)
(* (LogFile).  Everything but the relay runs on EuroScope's thread, one     *)
(* call at a time.                                                          *)
(*                                                                         *)
(* The registry of a copy is the number of the last write it accepted.      *)
(***************************************************************************)
EXTENDS LogFile, SequencesExt

CONSTANTS Copies,      \* the DLLs EuroScope may load, each in its own folder
          Named,       \* those whose file is called EuroScopeBridge.dll
          Clients,     \* plugins that use the bridge
          None,
          MaxLoads,    \* bound: plugin objects created
          MaxWrites,   \* bound: writes
          MaxFaults    \* bound: calls of the operating system that fail

ASSUME BridgeAssumption ==
    /\ Named \subseteq Copies
    /\ None \notin Copies
    /\ {MaxLoads, MaxWrites, MaxFaults} \subseteq Nat

VARIABLES
    mapped,      \* the copies in memory, in the order they were loaded
    owns,        \* copies with a handle on the mutex of this process
    serving,     \* copies with m_serving
    pinned,      \* copies that stay in memory
    loads,       \* plugin objects created so far: a number names one
    plugin,      \* g_plugin of each copy, 0 when there is none
    shut,        \* copies with m_shuttingDown
    watches,     \* the plugin objects the subscriptions of a registry call
    relay,       \* the plugin object whose relay a registry queues to, or 0
    claims,      \* the clients registered with a copy
    latest,      \* the last write a registry accepted
    disk,        \* the write its state file holds
    up,          \* clients in memory
    table,       \* esb_api of each client: the copy it points into
    faults,
    unpinned,    \* history: copies that could not be pinned at first
    unsaved,     \* history: copies whose state could not be saved when last tried
    log          \* the log of each copy

imageVars == <<mapped, owns, serving, pinned>>
pluginVars == <<loads, plugin, watches, relay>>
stateVars == <<shut, claims, latest, disk>>
clientVars == <<up, table>>
faultVars == <<faults, unpinned, unsaved>>
bridgeVars == <<imageVars, pluginVars, stateVars, clientVars, faultVars, log>>

Fault == faults < MaxFaults /\ faults' = faults + 1

\* What GetModuleHandle finds under the name: the copy that came first, if any.
Found == {mapped[i] : i \in {j \in DOMAIN mapped :
                                 /\ mapped[j] \in Named
                                 /\ \A k \in 1..(j - 1) : mapped[k] \notin Named}}
-----------------------------------------------------------------------------
(* The log.                                                                 *)

\* The copy that serves has something to say, or its relay or a client has.
LogLine(c) ==
    /\ c \in ToSet(mapped) /\ c \in serving
    /\ log[c].last < 2 * LogLines + 1
    /\ \E l \in Write(log[c]) :
          /\ log' = [log EXCEPT ![c] = l]
          /\ IF l.failed /\ ~log[c].failed THEN Fault ELSE UNCHANGED faults
    /\ UNCHANGED <<imageVars, pluginVars, stateVars, clientVars, unpinned, unsaved>>
-----------------------------------------------------------------------------
(* Loading and unloading.                                                   *)

\* BridgeInstance: what a copy needs to serve, the name clients reach it by and a
\* mutex nobody holds.
MayServe(c) == c \in Named /\ owns = {}

\* It stands down without them, and also when the system does not tell it its path
\* or refuses it the mutex.
StandsDown(c) == (~MayServe(c) /\ UNCHANGED faults) \/ Fault

Create(c) ==
    /\ loads < MaxLoads
    /\ loads' = loads + 1
    /\ plugin' = [plugin EXCEPT ![c] = loads + 1]

\* BridgePlugin of a copy that serves: the relay is started if bridge.json asks
\* for it.
PluginBegins(c) ==
    /\ Create(c)
    /\ \E enabled \in BOOLEAN :
          relay' = IF enabled THEN [relay EXCEPT ![c] = loads + 1] ELSE relay

\* A copy is mapped, what is static in it is new, and it makes its plugin object.
\* The state comes from disk.
Load(c) ==
    /\ c \notin ToSet(mapped)
    /\ mapped' = Append(mapped, c)
    /\ \/ /\ MayServe(c)
          /\ owns' = owns \cup {c} /\ serving' = serving \cup {c}
          /\ PluginBegins(c)
          /\ latest' = [latest EXCEPT ![c] = disk[c]]
          /\ UNCHANGED faults
       \/ /\ StandsDown(c)
          /\ Create(c)
          /\ UNCHANGED <<owns, serving, relay, latest>>
    /\ UNCHANGED <<pinned, watches, shut, claims, disk, clientVars, unpinned, unsaved, log>>

\* Mutant: a new plugin object opens the registry again.
Reenter_Reopens(c) ==
    /\ c \in pinned /\ plugin[c] = 0
    /\ PluginBegins(c)
    /\ shut' = shut \ {c}
    /\ UNCHANGED <<imageVars, watches, claims, latest, disk, clientVars, faultVars, log>>

\* A copy that stayed in memory is asked for another plugin object: what is
\* static in it is as it was, m_shuttingDown too.
Reenter(c) ==
    /\ c \in pinned /\ plugin[c] = 0
    /\ PluginBegins(c)
    /\ UNCHANGED <<imageVars, watches, stateVars, clientVars, faultVars, log>>

Save(c) ==
    \/ /\ disk' = [disk EXCEPT ![c] = latest[c]]
       /\ unsaved' = unsaved \ {c}
       /\ UNCHANGED faults
    \/ Fault /\ unsaved' = unsaved \cup {c} /\ UNCHANGED disk

\* EuroScopePlugInExit of a copy that is pinned.  The relay goes first, the state
\* is saved, and no more of it is taken.  The watches stay subscribed.
Leave(c) ==
    /\ c \in pinned /\ plugin[c] # 0
    /\ plugin' = [plugin EXCEPT ![c] = 0]
    /\ relay' = [relay EXCEPT ![c] = 0]
    /\ Save(c)
    /\ shut' = shut \cup {c}
    /\ UNCHANGED <<imageVars, loads, watches, claims, latest, clientVars, unpinned, log>>

\* Mutant: the mutex is left to the process.
Released_Never(c) == owns

\* ~BridgeInstance closes its handle on the mutex.
Released(c) == owns \ {c}

\* EuroScopePlugInExit and FreeLibrary of a copy that is not pinned: its registry
\* and its log go with it.
Unload(c) ==
    /\ c \in ToSet(mapped) \ pinned
    /\ plugin' = [plugin EXCEPT ![c] = 0]
    /\ relay' = [relay EXCEPT ![c] = 0]
    /\ IF c \in serving THEN Save(c) ELSE UNCHANGED <<disk, faults, unsaved>>
    /\ \E i \in DOMAIN mapped : mapped[i] = c /\ mapped' = RemoveAt(mapped, i)
    /\ owns' = Released(c) /\ serving' = serving \ {c}
    /\ watches' = [watches EXCEPT ![c] = {}]
    /\ claims' = [claims EXCEPT ![c] = {}]
    /\ log' = [log EXCEPT ![c] = DropLog(@)]
    /\ UNCHANGED <<pinned, loads, shut, latest, clientVars, unpinned>>
-----------------------------------------------------------------------------
(* What EuroScope asks of a plugin object.  One that stands down does nothing. *)

\* OnTimer, as far as it changes this state: the claims of plugins that are gone
\* are dropped, and what changed is saved when it is due.
OnTimer(c) ==
    /\ c \in serving /\ plugin[c] # 0
    /\ claims' = [claims EXCEPT ![c] = @ \cap up]
    /\ Save(c) \/ UNCHANGED <<disk, faults, unsaved>>
    /\ UNCHANGED <<imageVars, pluginVars, shut, latest, clientVars, unpinned, log>>

\* .esb watch: the plugin object subscribes itself, or no longer.  It goes to the
\* registry itself and not through the table.
ToggleWatch(c) ==
    /\ c \in serving /\ plugin[c] # 0
    /\ watches' = [watches EXCEPT ![c] =
                      IF plugin[c] \in @ THEN @ \ {plugin[c]} ELSE @ \cup {plugin[c]}]
    /\ UNCHANGED <<imageVars, loads, plugin, relay, stateVars, clientVars, faultVars, log>>
-----------------------------------------------------------------------------
(* Clients.                                                                 *)

ClientLoads(cl) ==
    /\ cl \notin up
    /\ up' = up \cup {cl}
    /\ table' = [table EXCEPT ![cl] = None]
    /\ UNCHANGED <<imageVars, pluginVars, stateVars, faultVars, log>>

\* Mutant: a copy that stood down hands out its table too.
GetApi_Always(c) == TRUE

\* ESB_GetApi: a copy that stands down has none to give.
GetApi(c) == c \in serving

\* ESB_Attach, each time the client ticks without a table.  The copy is pinned
\* before the table is handed out; if that fails, it is handed out all the same.
Attach(cl) ==
    /\ cl \in up /\ table[cl] = None
    /\ \E c \in Found :
          /\ GetApi(c)
          /\ table' = [table EXCEPT ![cl] = c]
          /\ \/ pinned' = pinned \cup {c} /\ UNCHANGED <<faults, unpinned>>
             \/ c \notin pinned /\ Fault
                /\ unpinned' = unpinned \cup {c} /\ UNCHANGED pinned
    /\ UNCHANGED <<mapped, owns, serving, pluginVars, stateVars, up, unsaved, log>>

\* A client that can call through its table.
Attached(cl) == cl \in up /\ table[cl] \in ToSet(mapped)

\* Mutant: the forwarders do not ask.
AcceptingState_Always(c) == TRUE

\* What the forwarders of register, own, set, clear and subscribe ask first.
AcceptingState(c) == c \notin shut

Register(cl) ==
    /\ Attached(cl) /\ AcceptingState(table[cl])
    /\ claims' = [claims EXCEPT ![table[cl]] = @ \cup {cl}]
    /\ UNCHANGED <<imageVars, pluginVars, shut, latest, disk, clientVars, faultVars, log>>

\* A write the registry accepts: it calls the subscribers and queues to the relay.
Set(cl) ==
    /\ Attached(cl) /\ AcceptingState(table[cl])
    /\ cl \in claims[table[cl]]
    /\ latest[table[cl]] < MaxWrites
    /\ latest' = [latest EXCEPT ![table[cl]] = @ + 1]
    /\ UNCHANGED <<imageVars, pluginVars, shut, claims, disk, clientVars, faultVars, log>>

\* unregister_provider and unsubscribe are not refused: clients go after the bridge.
Unregister(cl) ==
    /\ Attached(cl)
    /\ claims' = [claims EXCEPT ![table[cl]] = @ \ {cl}]
    /\ UNCHANGED <<imageVars, pluginVars, shut, latest, disk, clientVars, faultVars, log>>

\* The client's DLL goes, whether it unregistered or not.
ClientUnloads(cl) ==
    /\ cl \in up
    /\ up' = up \ {cl}
    /\ table' = [table EXCEPT ![cl] = None]
    /\ UNCHANGED <<imageVars, pluginVars, stateVars, faultVars, log>>
-----------------------------------------------------------------------------
BridgeInit ==
    /\ mapped = <<>> /\ owns = {} /\ serving = {} /\ pinned = {}
    /\ loads = 0 /\ plugin = [c \in Copies |-> 0]
    /\ shut = {} /\ watches = [c \in Copies |-> {}] /\ relay = [c \in Copies |-> 0]
    /\ claims = [c \in Copies |-> {}]
    /\ latest = [c \in Copies |-> 0] /\ disk = [c \in Copies |-> 0]
    /\ up = {} /\ table = [cl \in Clients |-> None]
    /\ faults = 0 /\ unpinned = {} /\ unsaved = {}
    /\ log = [c \in Copies |-> NoLog]

BridgeNext ==
    \/ \E c \in Copies : \/ Load(c) \/ Reenter(c) \/ Leave(c) \/ Unload(c)
                         \/ OnTimer(c) \/ ToggleWatch(c) \/ LogLine(c)
    \/ \E cl \in Clients : \/ ClientLoads(cl) \/ Attach(cl) \/ Register(cl)
                           \/ Set(cl) \/ Unregister(cl) \/ ClientUnloads(cl)

BridgeSpec == BridgeInit /\ [][BridgeNext]_bridgeVars
-----------------------------------------------------------------------------
(* Properties.                                                              *)

\* Whoever holds a table holds that of the one copy that serves, and it stays in
\* memory, whatever copies come and go (unless the copy could not be pinned):
\* there is never a second registry.
OneRegistry ==
    /\ Cardinality(serving) <= 1
    /\ \A cl \in up : table[cl] # None /\ table[cl] \notin unpinned =>
           table[cl] \in ToSet(mapped) /\ serving = {table[cl]}

\* When a write makes the registry call its subscribers and queue to the relay,
\* no plugin object it would reach is gone, though watches outlive theirs.
NothingDangles ==
    [][\A c \in ToSet(mapped) :
          latest'[c] > latest[c] => /\ watches[c] \subseteq {plugin[c]}
                                    /\ relay[c] \in {0, plugin[c]}]_bridgeVars

\* Nothing is accepted that the last save of the plugin object has missed.
FlushedIsFinal ==
    \A c \in shut : disk[c] = latest[c] \/ c \in unsaved

\* A copy that comes when no other has the name serves, each time anew, and is
\* the one clients find, unless a call of the system fails it.
RestartServes ==
    [][\A c \in Named : Found = {} /\ c \in ToSet(mapped') /\ faults' = faults =>
          c \in serving' /\ Found' = {c}]_bridgeVars

\* As long as no file operation failed, the log and its previous generation hold
\* the last lines without a gap, over rotations and sessions: as many as fill a
\* log, and one.
LogKeepsTail ==
    \A c \in Copies :
        LET l == log[c]
        IN  l.failed \/ {n \in 1..l.last : n >= l.last - LogLines} \subseteq l.current \cup l.previous
=============================================================================
