------------------------------- MODULE Documents -------------------------------
(***************************************************************************)
(* The two documents beside the DLL and the processes that share them:     *)
(* bridge.json, which a user types (src/Config.cpp), and                   *)
(* bridge-state.json, which SaveState writes and LoadState reads           *)
(* (src/Registry.cpp), both as JsonText has it.  For TLC only.             *)
(*                                                                         *)
(* A file is a text or NoFile.  Every write may fall short: nobody looks   *)
(* at what fwrite returns, and an editor may die.                          *)
(***************************************************************************)
EXTENDS JsonText, FiniteSets
LOCAL INSTANCE SequencesExt

CONSTANTS Providers,    \* ids of providers
          Processes,    \* EuroScope processes that run this copy of the bridge
          Sheets,       \* what a user may type
          Saves,        \* the values there are to save, by qualified name
          CapModulus,   \* 2^32, more than TLC can count to
          NoFile,
          MaxChanges,   \* bound: how often a user types or a registry saves
          MaxFaults     \* bound: how many writes fall short

ASSUME DocumentsAssumption ==
    MaxChanges \in Nat /\ MaxFaults \in Nat /\ CapModulus \in Nat \ {0}

VARIABLES
    settings,    \* bridge.json
    state,       \* bridge-state.json
    at,          \* how far each process has come
    config,      \* m_config of each
    staged,      \* m_staged of each
    changes, faults

documentsVars == <<settings, state, at, config, staged, changes, faults>>

Key(name) == <<name>>
-----------------------------------------------------------------------------
(* bridge.json.                                                            *)

RelayOff ==
    [enabled |-> FALSE, host |-> <<>>, port |-> 8883, tls |-> TRUE,
     username |-> <<>>, password |-> <<>>, room |-> <<"default">>, controller |-> <<>>,
     providers |-> {}, publishHz |-> 4, maxKeysPerProvider |-> 500]

\* kTemplate, comments and all.
Template ==
    LET Remark(words) == <<"\n", "/", "/">> \o words \o <<"\n">>
        Line(name, v) == WriteString(<<name>>) \o <<":", " ">> \o Write(v, FALSE)
    IN <<"{">> \o Remark(<<"configuration">>)
       \o WriteString(<<"relay">>) \o <<":", " ", "{">>
       \o Line("enabled", Bool(FALSE)) \o <<",", "\n">>
       \o Line("host", Text(<<>>)) \o <<",">>
       \o Line("port", Number(8883)) \o <<",">>
       \o Line("tls", Bool(TRUE)) \o <<",">>
       \o Line("room", Text(<<"default">>)) \o <<",">>
       \o Remark(<<"Blank", " ", ":">>)
       \o Line("controller", Text(<<>>)) \o <<",">>
       \o Remark(<<"\"", "providers", "\"">>)
       \o Line("providers", Array(<<>>)) \o <<",">>
       \o Line("publish_hz", Number(4)) \o <<",">>
       \o Line("max_keys_per_provider", Number(500)) \o <<"\n", "}", "\n", "}", "\n">>

\* The names of providers in a list, which may hold anything.
Listed(v) ==
    {AsString(Items(v)[i]) : i \in {j \in DOMAIN Items(v) : IsString(Items(v)[j])}} \ {<<>>}

Clamped(n, low, high) == IF n < low THEN low ELSE IF n > high THEN high ELSE n

\* What a relay object says, name by name, each with its default.
ReadRelay(relay) ==
    LET Of(name) == Member(relay, Key(name))
        cap == AsInt(Of("max_keys_per_provider"), 500)
    IN [enabled |-> AsBool(Of("enabled"), FALSE),
        host |-> AsString(Of("host")),
        port |-> AsInt(Of("port"), 8883) % 2^16,
        tls |-> AsBool(Of("tls"), TRUE),
        username |-> AsString(Of("username")),
        password |-> AsString(Of("password")),
        room |-> IF AsString(Of("room")) = <<>> THEN RelayOff.room ELSE AsString(Of("room")),
        controller |-> AsString(Of("controller")),
        providers |-> Listed(Of("providers")),
        publishHz |-> Clamped(AsInt(Of("publish_hz"), 4), 1, 50),
        maxKeysPerProvider |-> (IF cap < 1 THEN 1 ELSE cap) % CapModulus]

\* Mutant: an empty host is left to the relay to complain about.
Usable_AnyHost(r) == r

\* Enabled without a host is off.
Usable(r) == [r EXCEPT !.enabled = r.enabled /\ r.host # <<>>]

\* Config::Load: whatever cannot be read is a relay that is off.
LoadConfig(text) ==
    IF text = NoFile THEN RelayOff
    ELSE LET root == Parse(text)
             relay == Member(root, Key("relay"))
         IN IF IsObject(root) /\ IsObject(relay) THEN Usable(ReadRelay(relay)) ELSE RelayOff

AllowsProvider(r, id) == r.enabled /\ id \in r.providers
-----------------------------------------------------------------------------
(* bridge-state.json.                                                      *)

\* ESB_Type as a number in the file.
Types == <<"I64", "F64", "BOOL", "STR", "BLOB">>
HexDigits == <<"0", "1", "2", "3", "4", "5", "6", "7", "8", "9", "a", "b", "c", "d", "e", "f">>
Hex(bytes) ==
    FlattenSeq([i \in DOMAIN bytes |->
        <<HexDigits[bytes[i] \div 16 + 1], HexDigits[(bytes[i] % 16) + 1]>>])

\* Mutant: the first digit counts for as much as the second.
Unhex_Sum(s) ==
    LET Val(c) == (CHOOSE i \in 1..16 : HexDigits[i] = c) - 1
    IN [i \in 1..Len(s) \div 2 |-> Val(s[2 * i - 1]) + Val(s[2 * i])]

Unhex(s) ==
    LET Val(c) == (CHOOSE i \in 1..16 : HexDigits[i] = c) - 1
    IN [i \in 1..Len(s) \div 2 |-> 16 * Val(s[2 * i - 1]) + Val(s[2 * i])]

\* A saved value is <<type, datum>>.
Entry(v) ==
    LET value == CASE v[1] = "STR" -> Text(v[2])
                   [] v[1] = "BLOB" -> Text(Hex(v[2]))
                   [] OTHER -> Number(v[2])
    IN Object((Key("type") :> Number(CHOOSE i \in 1..5 : Types[i] = v[1]))
              @@ (Key("value") :> value))

\* What LoadState takes for an entry of its set of them; anything else it drops.
IsEntry(v) == IsObject(v) /\ AsInt(Member(v, Key("type")), 0) \in 1..5

ReadEntry(v) ==
    LET type == Types[AsInt(Member(v, Key("type")), 0)]
        value == Member(v, Key("value"))
    IN <<type, CASE type = "STR" -> AsString(value)
                 [] type = "BLOB" -> Unhex(AsString(value))
                 [] OTHER -> AsInt(value, 0)>>

StateText(values) ==
    Write(Object((Key("version") :> Number(1))
                 @@ (Key("fields") :> Object([q \in DOMAIN values |-> Entry(values[q])]))),
          TRUE)

\* LoadState: an unreadable file is no state, and changes nothing.
ReadState(text, before) ==
    IF text = NoFile \/ ~IsObject(Parse(text)) THEN before
    ELSE LET fields == Members(Member(Parse(text), Key("fields")))
         IN [q \in {q \in DOMAIN fields : IsEntry(fields[q])} |-> ReadEntry(fields[q])]
-----------------------------------------------------------------------------
(* What a user types: members of one object, some of them commented out,   *)
(* and perhaps a comma too many.                                           *)

Render(sheet) ==
    LET live == {i \in DOMAIN sheet.members : sheet.members[i].live}
        Line(i) ==
            (IF sheet.members[i].live THEN <<>> ELSE <<"/", "/", " ">>)
            \o WriteString(Key(sheet.members[i].name)) \o <<":">>
            \o Write(sheet.members[i].value, FALSE)
            \o (IF sheet.comma \/ \E j \in live : j > i THEN <<",">> ELSE <<>>)
            \o <<"\n">>
    IN <<"{">> \o WriteString(Key(sheet.under)) \o <<":", "{", "\n">>
       \o FlattenSeq([i \in DOMAIN sheet.members |-> Line(i)]) \o <<"}", "}">>

\* A file is written, or begun.
Put(file, text) ==
    \/ file' = text /\ UNCHANGED faults
    \/ /\ faults < MaxFaults /\ faults' = faults + 1
       /\ file' \in {SubSeq(text, 1, n) : n \in 0..Len(text) - 1}

\* An editor saves, or gets as far as it gets.
Type(sheet) ==
    /\ changes < MaxChanges
    /\ Put(settings, Render(sheet))
    /\ changes' = changes + 1
    /\ UNCHANGED <<state, at, config, staged>>
-----------------------------------------------------------------------------
(* BridgePlugin's constructor, of a copy that serves, and its destructor.  *)

DocumentsInit ==
    /\ settings \in {NoFile, Template}
    /\ state \in {NoFile} \cup {StateText(v) : v \in Saves}
    /\ changes = 0 /\ faults = 0
    /\ at = [p \in Processes |-> "out"]
    /\ config = [p \in Processes |-> RelayOff]
    /\ staged = [p \in Processes |-> <<>>]

\* LoadState, and then whether there is a bridge.json.
Starts(p) ==
    /\ at[p] = "out"
    /\ staged' = [staged EXCEPT ![p] = ReadState(state, <<>>)]
    /\ at' = [at EXCEPT ![p] = IF settings = NoFile THEN "finds none" ELSE "reads"]
    /\ UNCHANGED <<settings, state, config, changes, faults>>

\* WriteDefault opens it, if it can, and does not look whether there is one by now.
Creates(p) ==
    /\ at[p] = "finds none"
    /\ Put(settings, Template) \/ UNCHANGED <<settings, faults>>
    /\ at' = [at EXCEPT ![p] = "reads"]
    /\ UNCHANGED <<state, config, staged, changes>>

Reads(p) ==
    /\ at[p] = "reads"
    /\ config' = [config EXCEPT ![p] = LoadConfig(settings)]
    /\ at' = [at EXCEPT ![p] = "up"]
    /\ UNCHANGED <<settings, state, staged, changes, faults>>

\* SaveState: the new file takes the place of the old one however much of it
\* was written.  Persistence has the steps of this.
Writes(p, values) ==
    /\ at[p] = "up" /\ changes < MaxChanges
    /\ Put(state, StateText(values))
    /\ changes' = changes + 1
    /\ UNCHANGED <<settings, at, config, staged>>

Ends(p) ==
    /\ at[p] = "up"
    /\ at' = [at EXCEPT ![p] = "out"]
    /\ config' = [config EXCEPT ![p] = RelayOff]
    /\ staged' = [staged EXCEPT ![p] = <<>>]
    /\ UNCHANGED <<settings, state, changes, faults>>

DocumentsNext ==
    \/ \E s \in Sheets : Type(s)
    \/ \E p \in Processes : \/ Starts(p) \/ Creates(p) \/ Reads(p)
                            \/ Ends(p)
                            \/ \E v \in Saves : Writes(p, v)

DocumentsSpec == DocumentsInit /\ [][DocumentsNext]_documentsVars
-----------------------------------------------------------------------------
(* What a text means, told from what was typed and not from how it is read. *)

Rendered == [s \in Sheets |-> Render(s)]
Stated == [v \in Saves |-> StateText(v)]

\* The last member of that name that is not commented out.
LastOf(sheet, name) ==
    LET live == {i \in DOMAIN sheet.members :
                    sheet.members[i].live /\ sheet.members[i].name = name}
    IN IF live = {} THEN Null
       ELSE sheet.members[CHOOSE i \in live : \A j \in live : j <= i].value

\* What the user consents to: nothing, unless all of a sheet is there, it is
\* well formed, and it says so in so many words.
Consent(sheet) ==
    IF \/ sheet.under # "relay" \/ sheet.comma
       \/ LastOf(sheet, "enabled") # Bool(TRUE)
       \/ ~IsString(LastOf(sheet, "host")) \/ LastOf(sheet, "host") = Text(<<>>)
    THEN {}
    ELSE {id \in Providers :
             \E i \in DOMAIN Items(LastOf(sheet, "providers")) :
                Items(LastOf(sheet, "providers"))[i] = Text(id)}

\* What the user allows to leave the machine is what a whole and well-formed
\* bridge.json says, and nothing when the file was read half written or
\* was never typed: Config::Load fails closed, and json::Parse takes no
\* part of a document for the document.
SharesByConsent ==
    [][\A p \in Processes : at[p] = "reads" /\ at'[p] = "up" =>
          {id \in Providers : AllowsProvider(config'[p], id)}
          = UNION {Consent(s) : s \in {r \in Sheets : Rendered[r] = settings}}]_documentsVars

\* A state file is read back as it was saved, strings and blobs included, or,
\* if not all of it was written, not at all.
StateReadsBack ==
    [][\A p \in Processes : at[p] = "out" /\ at'[p] # "out" =>
          /\ staged'[p] \in Saves \cup {<<>>}
          /\ \A v \in Saves : Stated[v] = state => staged'[p] = v]_documentsVars
=============================================================================
