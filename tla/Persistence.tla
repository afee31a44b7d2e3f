------------------------------ MODULE Persistence ------------------------------
(***************************************************************************)
(* The state file: LoadState, SaveState and FlushStateIfDue of             *)
(* src/Registry.cpp, composed with the registry, and the process they run  *)
(* in.  SaveState is several steps, for the process may die between any    *)
(* two file operations; nothing else runs on the main thread meanwhile.    *)
(*                                                                         *)
(* A file is absent, garbled (json::Parse refuses it) or a state.          *)
(***************************************************************************)
EXTENDS Registry, FiniteSetsExt

CONSTANTS RoundTrip,    \* what is read back of a value json::Write wrote
          Unreadable,   \* for a value whose text json::Parse refuses
          Disks,        \* the disks there are: TRUE is one that may fail
          MaxRuns       \* bound: how often EuroScope is started

ASSUME PersistenceAssumption ==
    /\ Unreadable \notin Values
    /\ RoundTrip \in [Values -> Values \cup {Unreadable}]
    /\ Disks \subseteq BOOLEAN
    /\ MaxRuns \in Nat

VARIABLES
    file,        \* bridge-state.json
    temp,        \* bridge-state.json.tmp
    stage,       \* how far SaveState has come
    bridge,      \* whether EuroScope has the bridge in its plugin list
    shutdown,    \* m_shuttingDown
    runs,        \* how often the process was started
    diskFails,   \* whether this disk may fail
    saved        \* history: what the last SaveState that returned true was to save

fileVars == <<file, temp, saved>>
processVars == <<stage, bridge, shutdown, runs, diskFails>>
persistVars == <<registryVars, fileVars, processVars>>

NoFile == [kind |-> "absent", state |-> <<>>]
Garbled == [kind |-> "garbled", state |-> <<>>]
Complete(state) == [kind |-> "state", state |-> state]

\* json::Write, for all that matters of it: what json::Parse will make of it.
Text(state) ==
    IF \E q \in DOMAIN state : RoundTrip[state[q]] = Unreadable THEN Garbled
    ELSE Complete([q \in DOMAIN state |-> RoundTrip[state[q]]])

PersistInit ==
    /\ RegistryInit
    /\ file = IF staged = <<>> THEN NoFile ELSE Complete(staged)
    /\ temp = NoFile /\ saved = staged
    /\ stage = "none" /\ bridge = TRUE /\ shutdown = FALSE
    /\ runs = 1
    /\ diskFails \in Disks
-----------------------------------------------------------------------------
(* SaveState.                                                              *)

Persistent ==
    {q \in DOMAIN globals : fields[q].persist /\ fields[q].scope = "GLOBAL"}

\* Mutant: what no provider has claimed is not written again.
ToSave_ClaimedOnly == [q \in Persistent |-> globals[q].value]

\* The values of providers, and what is staged for those that did not load.
ToSave ==
    [q \in Persistent \cup DOMAIN staged |->
        IF q \in Persistent THEN globals[q].value ELSE staged[q]]

\* Mutant: the old file is removed before the new one is written.
OpenTemp_InPlace == stage' = "opened" /\ temp' = Garbled /\ file' = NoFile

\* fopen truncates what is left of an earlier attempt.
OpenTemp == stage' = "opened" /\ temp' = Garbled /\ UNCHANGED file

\* FlushStateIfDue.  The debounce only delays it, and a temporary file that
\* cannot be opened leaves everything for the next attempt.
Flush ==
    /\ stage = "none" /\ bridge
    /\ dirty
    /\ OpenTemp
    /\ UNCHANGED <<registryVars, saved, bridge, shutdown, runs, diskFails>>

\* ~BridgePlugin saves unconditionally, and no new state is taken from then on,
\* whether or not it was saved.
RemoveBridge ==
    /\ stage = "none" /\ bridge
    /\ bridge' = FALSE
    /\ \/ OpenTemp /\ UNCHANGED shutdown
       \/ diskFails /\ shutdown' = TRUE /\ UNCHANGED <<file, temp, stage>>
    /\ UNCHANGED <<registryVars, saved, runs, diskFails>>

\* The result of fwrite is not looked at: it may come out short.
Write ==
    /\ stage = "opened"
    /\ stage' = "written"
    /\ temp' \in {Text(ToSave)} \cup (IF diskFails THEN {Garbled} ELSE {})
    /\ UNCHANGED <<registryVars, file, saved, runs, bridge, shutdown, diskFails>>

RemoveOld ==
    /\ stage = "written"
    /\ stage' = "removed"
    /\ file' \in {NoFile} \cup (IF diskFails THEN {file} ELSE {})
    /\ UNCHANGED <<registryVars, temp, saved, runs, bridge, shutdown, diskFails>>

SaveEnds == stage' = "none" /\ shutdown' = (shutdown \/ ~bridge)

\* std::rename, which on Windows fails when its target exists, is the last
\* step.  Only a SaveState that succeeds cleans the dirty flag.
Rename ==
    /\ stage = "removed"
    /\ file = NoFile
    /\ SaveEnds
    /\ file' = temp /\ temp' = NoFile
    /\ saved' = ToSave
    /\ dirty' = FALSE
    /\ UNCHANGED <<providers, claim, fields, valueVars, clock, staged,
                   pluginVars, tableVars, bridge, runs, diskFails>>

RenameFails ==
    /\ stage = "removed"
    /\ diskFails
    /\ SaveEnds
    /\ UNCHANGED <<registryVars, fileVars, bridge, runs, diskFails>>
-----------------------------------------------------------------------------
(* LoadState: when the bridge is loaded into a new process, and when it is  *)
(* added again to one that still has its DLL pinned.                        *)

\* A file that is absent or refused leaves the staging area alone.
StagedFrom(f, otherwise) == IF f.kind = "state" THEN f.state ELSE otherwise

\* The process ends, in whatever step it is, and EuroScope is started again
\* with no plugin but the bridge yet.
Restart ==
    /\ runs < MaxRuns
    /\ runs' = runs + 1
    /\ providers' = <<>>
    /\ claim' = [id \in Ids |-> NoProvider]
    /\ fields' = <<>>
    /\ globals' = <<>> /\ aircraft' = <<>> /\ slotFields' = <<>>
    /\ clock' = 0
    /\ staged' = StagedFrom(file, <<>>)
    /\ dirty' = FALSE
    /\ loaded' = <<>> /\ UNCHANGED lives
    /\ slots' = <<>> /\ free' = <<>> /\ index' = [c \in Callsigns |-> NoSlot]
    /\ now' = 0 /\ issued' = {}
    /\ stage' = "none" /\ bridge' = TRUE /\ shutdown' = FALSE
    /\ UNCHANGED <<fileVars, diskFails>>

\* The fields of live providers that RestoreStagedFor takes from the file.
Reclaimed(state) ==
    {q \in DOMAIN state \cap DOMAIN fields :
                          /\ providers[fields[q].provider].live
                          /\ fields[q].persist /\ fields[q].scope = "GLOBAL"}

\* Revisions for a set of fields, one provider after the other.
Revisions(S) ==
    {r \in [S -> (clock + 1)..(clock + Cardinality(S))] :
        \A p, q \in S :
            /\ r[p] = r[q] => p = q
            /\ fields[p].provider < fields[q].provider => r[p] < r[q]}

\* The constructor of a second BridgePlugin in the same process: what is on
\* file is applied to the providers that are still live.
AddBridge ==
    LET state == StagedFrom(file, staged)
        taken == IF file.kind = "state" THEN Reclaimed(state) ELSE {}
        fit   == {q \in taken : state[q].type = fields[q].type}
        Of(i) == {q \in fit : fields[q].provider = i}
    IN  /\ stage = "none" /\ ~bridge
        /\ bridge' = TRUE
        /\ staged' = Drop(state, taken)
        /\ clock' = clock + Cardinality(fit)
        /\ clock' <= MaxClock
        /\ \E r \in Revisions(fit) :
              /\ globals' = [q \in DOMAIN globals \cup fit |->
                     IF q \in fit
                     THEN [value |-> state[q], revision |-> r[q],
                           claimant |-> fields[q].provider]
                     ELSE globals[q]]
              /\ providers' = [i \in DOMAIN providers |->
                     [providers[i] EXCEPT !.revision =
                         Max({@} \cup {r[q] : q \in Of(i)})]]
        /\ UNCHANGED <<claim, fields, aircraft, slotFields, dirty, pluginVars,
                       tableVars, fileVars, stage, shutdown, runs, diskFails>>
-----------------------------------------------------------------------------
\* Mutant: the calls that add state do not look at the shutdown flag.
Around_NotGated ==
    /\ stage = "none"
    /\ Lifecycle \/ Publish
    /\ UNCHANGED <<fileVars, processVars>>

\* What goes on around the file.  From the removal of the bridge on only
\* teardown is let through, and its timer does not fire while it is away.
Around ==
    /\ stage = "none"
    /\ \/ \E b \in Bases, path \in Paths : LoadModule(b, path)
       \/ \E b \in Bases : UnloadModule(b)
       \/ \E b \in DOMAIN loaded, i \in DOMAIN providers : Unregister(b, i)
       \/ bridge /\ ReapDeadModules
       \/ ~shutdown /\ Publish
       \/ /\ ~shutdown
          /\ \E b \in DOMAIN loaded, d \in Decls :
                RegisterAgain(b, d) \/ RegisterRejected(b, d) \/ RegisterNew(b, d)
    /\ UNCHANGED <<fileVars, processVars>>

PersistNext ==
    \/ Around
    \/ Flush \/ RemoveBridge \/ Write \/ RemoveOld \/ Rename \/ RenameFails
    \/ Restart \/ AddBridge

PersistSpec == PersistInit /\ [][PersistNext]_persistVars
-----------------------------------------------------------------------------
(* Properties.                                                             *)

\* Registry.cpp, SaveState: "Values whose provider has not loaded this session
\* are kept, not silently dropped".  However many saves other providers cause,
\* what is staged is still on file.
StagedIsKept ==
    stage = "none" /\ file.kind = "state" =>
        \A q \in DOMAIN staged :
            q \in DOMAIN file.state /\ file.state[q] = staged[q]

\* As long as the dirty flag is down no persistent value differs from the file,
\* if the disk works and all that was saved can be read back: a crash then
\* loses nothing of them.
CleanMeansSaved ==
    stage = "none" /\ ~dirty /\ ~diskFails /\ Text(saved).kind = "state" =>
        \A q \in Persistent :
            q \in DOMAIN file.state /\ file.state[q] = globals[q].value

\* A save never passes a point without a complete state in one of the two
\* files: the old one is given up only when the new one is written.
CompleteOnDisk ==
    [][~diskFails /\ Text(ToSave).kind = "state"
       /\ (file.kind = "state" \/ (stage # "none" /\ temp.kind = "state")) =>
          "state" \in {file'.kind, temp'.kind}]_persistVars

\* Removing the bridge and adding it again while the plugins stay changes no
\* value they published, if the disk works: what was refused since the last
\* save cannot be overwritten by it.
ReaddKeepsValues ==
    [][bridge' /\ ~bridge /\ runs' = runs /\ ~diskFails =>
          /\ DOMAIN globals' = DOMAIN globals
          /\ \A q \in DOMAIN globals : globals'[q].value = globals[q].value]_persistVars

\* Registry.cpp, SaveState: "Write to a temporary and rename, so a crash
\* mid-write cannot leave a truncated state file behind"; esbridge.h: a
\* persistent field "survives a restart".  What was saved once is there when
\* the process starts again, wherever it ended.
CrashKeepsSaved ==
    [][runs' # runs =>
          \A q \in DOMAIN saved : q \in DOMAIN staged']_persistVars
=============================================================================
