------------------------------ MODULE Bridge_proofs ------------------------------
(***************************************************************************)
(* Proofs about Bridge for any copies, clients and bounds.                 *)
(*                                                                         *)
(* That there is one registry rests on who holds the mutex: a copy serves  *)
(* while it does, what is pinned serves, and a table that was handed out   *)
(* is that of a copy that was pinned, unless pinning failed.  That nothing *)
(* dangles rests on m_shuttingDown: as long as it is not set, the plugin   *)
(* object that is there is the only one a subscription or the relay knows. *)
(***************************************************************************)
EXTENDS Bridge, SequenceTheorems, FiniteSetTheorems, WellFoundedInduction, TLAPS

Distinct(q) == \A i, j \in DOMAIN q : q[i] = q[j] => i = j

ImageTypes ==
    /\ mapped \in Seq(Copies) /\ Distinct(mapped)
    /\ up \subseteq Clients /\ table \in [Clients -> Copies \cup {None}]

\* The copy that serves is the one with the mutex, it is in memory and has the
\* name, and what is pinned serves.
OneOwner ==
    /\ serving = owns /\ owns \subseteq Named /\ owns \subseteq ToSet(mapped)
    /\ \A c, d \in owns : c = d
    /\ pinned \subseteq owns /\ shut \subseteq pinned

\* A table is that of a copy that was pinned, or could not be.
TablesHeld ==
    \A cl \in up : table[cl] # None => table[cl] \in pinned \cup unpinned

ObjectTypes ==
    /\ loads \in Nat /\ plugin \in [Copies -> Nat] /\ relay \in [Copies -> Nat]
    /\ watches \in [Copies -> SUBSET Nat]

\* The plugin object of a copy is the only one its registry and relay know.
Undangling ==
    \A c \in Copies :
        /\ c \notin ToSet(mapped) => watches[c] = {} /\ relay[c] = 0
        /\ c \in ToSet(mapped) \ shut => /\ plugin[c] # 0
                                         /\ watches[c] \subseteq {plugin[c]}
                                         /\ relay[c] \in {0, plugin[c]}

Saved ==
    /\ latest \in [Copies -> Nat] /\ disk \in [Copies -> Nat]
    /\ FlushedIsFinal

BridgeInv ==
    /\ ImageTypes /\ OneOwner /\ TablesHeld
    /\ ObjectTypes /\ Undangling
    /\ Saved
-----------------------------------------------------------------------------
(* The list of copies in memory.                                           *)

LEMMA Listed ==
  ASSUME NEW S, NEW q \in Seq(S), NEW x \in S
  PROVE  /\ ToSet(q) \subseteq S
         /\ Append(q, x) \in Seq(S) /\ ToSet(Append(q, x)) = ToSet(q) \cup {x}
         /\ Distinct(q) /\ x \notin ToSet(q) => Distinct(Append(q, x))
<1>1. /\ Append(q, x) \in Seq(S) /\ Len(q) \in Nat
      /\ DOMAIN q = 1..Len(q) /\ DOMAIN Append(q, x) = 1..(Len(q) + 1)
      /\ Append(q, x)[Len(q) + 1] = x
      /\ \A i \in 1..Len(q) : Append(q, x)[i] = q[i] /\ q[i] \in S
  OBVIOUS
<1> QED BY <1>1 DEF ToSet, Distinct

LEMMA Unlisted ==
  ASSUME NEW S, NEW q \in Seq(S), NEW n \in 1..Len(q), Distinct(q)
  PROVE  /\ RemoveAt(q, n) \in Seq(S) /\ Distinct(RemoveAt(q, n))
         /\ ToSet(RemoveAt(q, n)) = ToSet(q) \ {q[n]}
<1> DEFINE a == SubSeq(q, 1, n - 1)
           b == SubSeq(q, n + 1, Len(q))
           r == a \o b
<1>1. Len(q) \in Nat /\ DOMAIN q = 1..Len(q) /\ \A i \in 1..Len(q) : q[i] \in S
  OBVIOUS
<1>2. /\ a \in Seq(S) /\ Len(a) = n - 1
      /\ \A i \in 1..(n - 1) : a[i] = q[i]
  BY <1>1, SubSeqProperties
<1>3. /\ b \in Seq(S) /\ Len(b) = Len(q) - n
      /\ \A i \in 1..(Len(q) - n) : b[i] = q[n + i]
  <2>1. /\ b \in Seq(S) /\ Len(b) = IF n + 1 <= Len(q) THEN Len(q) - (n + 1) + 1 ELSE 0
        /\ \A i \in 1..(Len(q) - (n + 1) + 1) : b[i] = q[(n + 1) + i - 1]
    BY <1>1, SubSeqProperties
  <2>2. (n + 1 <= Len(q) <=> n < Len(q)) /\ n <= Len(q) /\ n \in Nat
    BY <1>1
  <2> HIDE DEF a, b
  <2>3. Len(b) = Len(q) - n
    <3>1. CASE n < Len(q)
      <4>1. Len(b) = Len(q) - (n + 1) + 1
        BY <2>1, <2>2, <3>1
      <4> QED BY <1>1, <2>2, <4>1
    <3>2. CASE n = Len(q)
      <4>1. Len(b) = 0
        BY <2>1, <2>2, <3>2
      <4> QED BY <1>1, <3>2, <4>1
    <3>3. n < Len(q) \/ n = Len(q)
      <4>1. n \in Nat /\ Len(q) \in Nat /\ n <= Len(q)
        BY <1>1, <2>2
      <4> QED BY <4>1
    <3> QED BY <3>1, <3>2, <3>3
  <2>4. ASSUME NEW i \in 1..(Len(q) - n)
        PROVE  b[i] = q[n + i]
    <3>1. i \in 1..(Len(q) - (n + 1) + 1) /\ (n + 1) + i - 1 = n + i
      BY <1>1, <2>2
    <3>2. b[i] = q[(n + 1) + i - 1]
      BY <2>1, <3>1
    <3> QED BY <3>1, <3>2
  <2> QED BY <2>1, <2>3, <2>4
<1> HIDE DEF a, b
<1>4. /\ r \in Seq(S) /\ Len(r) = Len(a) + Len(b)
      /\ \A i \in 1..(Len(a) + Len(b)) : r[i] = IF i <= Len(a) THEN a[i] ELSE b[i - Len(a)]
  BY <1>2, <1>3, ConcatProperties
<1> HIDE DEF r
<1>5. DOMAIN r = 1..(Len(q) - 1)
      /\ \A i \in 1..(Len(q) - 1) : r[i] = IF i < n THEN q[i] ELSE q[i + 1]
  <2>1. DOMAIN r = 1..(Len(q) - 1) /\ Len(a) + Len(b) = Len(q) - 1
    BY <1>1, <1>2, <1>3, <1>4
  <2>2. ASSUME NEW i \in 1..(Len(q) - 1)
        PROVE  r[i] = IF i < n THEN q[i] ELSE q[i + 1]
    <3>1. CASE i < n
      BY <1>1, <1>2, <1>4, <2>1, <3>1
    <3>2. CASE ~(i < n)
      <4>1. i - Len(a) \in 1..(Len(q) - n) /\ ~(i <= Len(a)) /\ n + (i - Len(a)) = i + 1
        BY <1>1, <1>2, <3>2
      <4> QED BY <1>3, <1>4, <2>1, <3>2, <4>1
    <3> QED BY <3>1, <3>2
  <2> QED BY <2>1, <2>2
<1>6. Distinct(r)
  <2>1. ASSUME NEW i \in DOMAIN r
        PROVE  \E k \in DOMAIN q : r[i] = q[k] /\ k = IF i < n THEN i ELSE i + 1
    BY <1>1, <1>5
  <2> SUFFICES ASSUME NEW i \in DOMAIN r, NEW j \in DOMAIN r, r[i] = r[j] PROVE i = j
    BY DEF Distinct
  <2>2. PICK k \in DOMAIN q : r[i] = q[k] /\ k = IF i < n THEN i ELSE i + 1
    BY <2>1
  <2>3. PICK l \in DOMAIN q : r[j] = q[l] /\ l = IF j < n THEN j ELSE j + 1
    BY <2>1
  <2>4. k = l
    BY <2>2, <2>3 DEF Distinct
  <2> QED BY <1>1, <1>5, <2>2, <2>3, <2>4
<1>7. ToSet(r) \subseteq ToSet(q) \ {q[n]}
  <2> SUFFICES ASSUME NEW i \in DOMAIN r PROVE r[i] \in ToSet(q) /\ r[i] # q[n]
    BY DEF ToSet
  <2> QED BY <1>1, <1>5 DEF ToSet, Distinct
<1>8. ToSet(q) \ {q[n]} \subseteq ToSet(r)
  <2> SUFFICES ASSUME NEW i \in DOMAIN q, q[i] # q[n] PROVE q[i] \in ToSet(r)
    BY DEF ToSet
  <2>1. CASE i < n
    <3>1. i \in DOMAIN r /\ r[i] = q[i]
      BY <1>1, <1>5, <2>1
    <3> QED BY <3>1 DEF ToSet
  <2>2. CASE ~(i < n)
    <3>1. i - 1 \in DOMAIN r /\ r[i - 1] = q[i]
      BY <1>1, <1>5, <2>2
    <3> QED BY <3>1 DEF ToSet
  <2> QED BY <2>1, <2>2
<1> QED BY <1>4, <1>6, <1>7, <1>8 DEF RemoveAt, r, a, b

\* What is found is in memory and has the name.
LEMMA FoundIsMapped == Found \subseteq ToSet(mapped) \cap Named
BY DEF Found, ToSet

\* Nothing is found only when nothing in memory has the name.
LEMMA NotFound ==
  ASSUME mapped \in Seq(Copies), Found = {}
  PROVE  ToSet(mapped) \cap Named = {}
<1> DEFINE places == {i \in DOMAIN mapped : mapped[i] \in Named}
<1>1. DOMAIN mapped = 1..Len(mapped) /\ Len(mapped) \in Nat /\ places \subseteq Nat
  OBVIOUS
<1>2. ASSUME places # {}
      PROVE  FALSE
  <2> DEFINE less == {p \in Nat \X Nat : p[1] < p[2]}
  <2>1. IsWellFoundedOn(less, Nat)
    BY NatLessThanWellFounded DEF OpToRel
  <2>2. PICK i \in places : \A j \in places : <<j, i>> \notin less
    <3> HIDE DEF places, less
    <3> QED BY <1>1, <1>2, <2>1, WFMin
  <2>3. \A k \in 1..(i - 1) : k \in DOMAIN mapped /\ mapped[k] \notin Named
    <3>1. i \in Nat /\ i <= Len(mapped)
      BY <1>1
    <3>2. \A k \in 1..(i - 1) : k \in Nat /\ k < i /\ k \in DOMAIN mapped
      BY <1>1, <3>1
    <3>3. \A k \in 1..(i - 1) : k \notin places
      BY <2>2, <3>1, <3>2
    <3> QED BY <3>2, <3>3
  <2>4. mapped[i] \in Found
    BY <2>3 DEF Found
  <2> QED BY <2>4
<1> QED BY <1>2 DEF ToSet
-----------------------------------------------------------------------------
(* Who serves, and whose tables are out.                                   *)

Image == ImageTypes /\ OneOwner /\ TablesHeld

LEMMA BridgeInit_Inv == BridgeInit => BridgeInv
<1> SUFFICES ASSUME BridgeInit PROVE BridgeInv
  OBVIOUS
<1>1. mapped \in Seq(Copies) /\ Distinct(mapped) /\ ToSet(mapped) = {}
  BY DEF BridgeInit, Distinct, ToSet
<1>2. ImageTypes /\ OneOwner /\ TablesHeld
  BY <1>1 DEF BridgeInit, ImageTypes, OneOwner, TablesHeld
<1>3. ObjectTypes /\ Undangling
  BY <1>1 DEF BridgeInit, ObjectTypes, Undangling
<1>4. Saved
  BY DEF BridgeInit, Saved, FlushedIsFinal
<1> QED BY <1>2, <1>3, <1>4 DEF BridgeInv

LEMMA Load_Image == ASSUME Image, NEW c \in Copies, Load(c) PROVE Image'
<1>1. /\ mapped' = Append(mapped, c) /\ c \notin ToSet(mapped) /\ mapped \in Seq(Copies)
      /\ Distinct(mapped) /\ UNCHANGED <<pinned, shut, up, table, unpinned>>
  BY DEF Load, Image, ImageTypes, clientVars
<1>2. mapped' \in Seq(Copies) /\ Distinct(mapped') /\ ToSet(mapped') = ToSet(mapped) \cup {c}
  BY <1>1, Listed
<1>3. ImageTypes' /\ TablesHeld'
  BY <1>1, <1>2 DEF Image, ImageTypes, TablesHeld
<1>4. OneOwner'
  <2>1. CASE MayServe(c) /\ owns' = owns \cup {c} /\ serving' = serving \cup {c}
    <3>1. owns = {} /\ owns' = {c} /\ serving' = {c} /\ c \in Named
      BY <2>1 DEF MayServe, Image, OneOwner
    <3> QED BY <1>1, <1>2, <3>1 DEF Image, OneOwner
  <2>2. CASE UNCHANGED <<owns, serving>>
    BY <1>1, <1>2, <2>2 DEF Image, OneOwner
  <2> QED BY <2>1, <2>2 DEF Load
<1> QED BY <1>3, <1>4 DEF Image

LEMMA Unload_Image == ASSUME Image, NEW c \in Copies, Unload(c) PROVE Image'
<1>1. /\ c \notin pinned /\ mapped \in Seq(Copies) /\ Distinct(mapped)
      /\ owns' = owns \ {c} /\ serving' = serving \ {c}
      /\ UNCHANGED <<pinned, shut, up, table, unpinned>>
  BY DEF Unload, Released, Image, ImageTypes, clientVars
<1>2. PICK i \in DOMAIN mapped : mapped[i] = c /\ mapped' = RemoveAt(mapped, i)
  BY DEF Unload
<1>3. i \in 1..Len(mapped)
  BY <1>1, <1>2
<1>4. mapped' \in Seq(Copies) /\ Distinct(mapped') /\ ToSet(mapped') = ToSet(mapped) \ {c}
  BY <1>1, <1>2, <1>3, Unlisted
<1>5. ImageTypes' /\ TablesHeld'
  BY <1>1, <1>4 DEF Image, ImageTypes, TablesHeld
<1>6. OneOwner'
  BY <1>1, <1>4 DEF Image, OneOwner
<1> QED BY <1>5, <1>6 DEF Image

LEMMA Attach_Image == ASSUME Image, NEW cl \in Clients, Attach(cl) PROVE Image'
<1>1. PICK c \in Found :
         /\ GetApi(c) /\ table' = [table EXCEPT ![cl] = c]
         /\ \/ pinned' = pinned \cup {c} /\ UNCHANGED unpinned
            \/ unpinned' = unpinned \cup {c} /\ UNCHANGED pinned
  BY DEF Attach
<1>2. UNCHANGED <<mapped, owns, serving, up, shut>>
  BY DEF Attach, stateVars
<1>3. c \in ToSet(mapped) /\ c \in owns /\ c \in Copies
  <2>1. ToSet(mapped) \subseteq Copies
    BY DEF Image, ImageTypes, ToSet
  <2> QED BY <1>1, <2>1, FoundIsMapped DEF GetApi, Image, OneOwner
<1>4. table' \in [Clients -> Copies \cup {None}]
      /\ \A d \in Clients : table'[d] = IF d = cl THEN c ELSE table[d]
  BY <1>1, <1>3 DEF Image, ImageTypes
<1>5. ImageTypes'
  BY <1>2, <1>4 DEF Image, ImageTypes
<1>6. OneOwner'
  BY <1>1, <1>2, <1>3 DEF Image, OneOwner
<1>7. TablesHeld'
  BY <1>1, <1>2, <1>4 DEF Image, ImageTypes, TablesHeld
<1> QED BY <1>5, <1>6, <1>7 DEF Image

LEMMA Step_Image == Image /\ [BridgeNext]_bridgeVars => Image'
<1> SUFFICES ASSUME Image, [BridgeNext]_bridgeVars PROVE Image'
  OBVIOUS
<1>1. ASSUME NEW c \in Copies, Load(c) PROVE Image'
  BY <1>1, Load_Image
<1>2. ASSUME NEW c \in Copies, Unload(c) PROVE Image'
  BY <1>2, Unload_Image
<1>3. ASSUME NEW c \in Copies, Leave(c) PROVE Image'
  <2>1. c \in pinned /\ shut' = shut \cup {c} /\ UNCHANGED <<imageVars, clientVars, unpinned>>
    BY <1>3 DEF Leave
  <2> QED BY <2>1 DEF Image, ImageTypes, OneOwner, TablesHeld, imageVars, clientVars
<1>4. ASSUME UNCHANGED <<imageVars, clientVars, shut, unpinned>> PROVE Image'
  BY <1>4 DEF Image, ImageTypes, OneOwner, TablesHeld, imageVars, clientVars
<1>5. ASSUME NEW c \in Copies, Reenter(c) \/ OnTimer(c) \/ ToggleWatch(c) \/ LogLine(c)
      PROVE  Image'
  BY <1>4, <1>5 DEF Reenter, OnTimer, ToggleWatch, LogLine, stateVars, faultVars
<1>6. ASSUME NEW cl \in Clients, Attach(cl) PROVE Image'
  BY <1>6, Attach_Image
<1>7. ASSUME NEW cl \in Clients, Register(cl) \/ Set(cl) \/ Unregister(cl) PROVE Image'
  BY <1>4, <1>7 DEF Register, Set, Unregister, faultVars
<1>8. ASSUME NEW cl \in Clients, ClientLoads(cl) \/ ClientUnloads(cl) PROVE Image'
  <2>1. /\ table' = [table EXCEPT ![cl] = None] /\ up' \in {up \cup {cl}, up \ {cl}}
        /\ UNCHANGED <<imageVars, shut, unpinned>>
    BY <1>8 DEF ClientLoads, ClientUnloads, stateVars, faultVars
  <2>2. table \in [Clients -> Copies \cup {None}] /\ up \subseteq Clients
    BY DEF Image, ImageTypes
  <2>3. table' \in [Clients -> Copies \cup {None}] /\ up' \subseteq Clients
    BY <2>1, <2>2
  <2>4. ImageTypes' /\ OneOwner'
    BY <2>1, <2>3 DEF Image, ImageTypes, OneOwner, imageVars
  <2>5. TablesHeld'
    BY <2>1, <2>2 DEF Image, TablesHeld, imageVars
  <2> QED BY <2>4, <2>5 DEF Image
<1>9. CASE UNCHANGED bridgeVars
  BY <1>4, <1>9 DEF bridgeVars, stateVars, faultVars
<1> QED BY <1>1, <1>2, <1>3, <1>5, <1>6, <1>7, <1>8, <1>9 DEF BridgeNext
-----------------------------------------------------------------------------
(* The plugin objects.                                                     *)

Objects == ObjectTypes /\ Undangling

\* A plugin object that is new, for a copy whose registry and relay know none or
\* take no more.
LEMMA Begin_Objects ==
  ASSUME Objects, OneOwner, NEW c \in Copies, Create(c),
         relay' \in {relay, [relay EXCEPT ![c] = loads + 1]},
         UNCHANGED <<watches, shut>>,
         ToSet(mapped') = ToSet(mapped) \cup {c},
         c \in shut \/ c \notin ToSet(mapped)
  PROVE  Objects'
<1>1. /\ loads \in Nat /\ loads' = loads + 1 /\ loads' # 0
      /\ plugin \in [Copies -> Nat] /\ relay \in [Copies -> Nat]
      /\ plugin' = [plugin EXCEPT ![c] = loads + 1]
  BY DEF Create, Objects, ObjectTypes
<1>2. /\ plugin' \in [Copies -> Nat] /\ relay' \in [Copies -> Nat] /\ loads' \in Nat
      /\ \A d \in Copies : plugin'[d] = IF d = c THEN loads + 1 ELSE plugin[d]
      /\ \A d \in Copies : d # c => relay'[d] = relay[d]
      /\ relay'[c] \in {relay[c], loads + 1}
  <2>1. CASE relay' = relay
    BY <1>1, <2>1
  <2>2. CASE relay' = [relay EXCEPT ![c] = loads + 1]
    BY <1>1, <2>2
  <2> QED BY <2>1, <2>2
<1>3. ObjectTypes'
  BY <1>2 DEF Objects, ObjectTypes
<1>4. Undangling'
  <2> SUFFICES ASSUME NEW d \in Copies
               PROVE  /\ d \notin ToSet(mapped') => watches[d] = {} /\ relay'[d] = 0
                      /\ d \in ToSet(mapped') \ shut => /\ plugin'[d] # 0
                                                        /\ watches[d] \subseteq {plugin'[d]}
                                                        /\ relay'[d] \in {0, plugin'[d]}
    BY DEF Undangling
  <2>1. CASE d = c
    BY <1>1, <1>2, <2>1 DEF Objects, Undangling
  <2>2. CASE d # c
    BY <1>2, <2>2 DEF Objects, Undangling
  <2> QED BY <2>1, <2>2
<1> QED BY <1>3, <1>4 DEF Objects

\* A plugin object that is gone: its copy takes no more, or goes with it.
LEMMA End_Objects ==
  ASSUME Objects, NEW c \in Copies,
         plugin' = [plugin EXCEPT ![c] = 0], relay' = [relay EXCEPT ![c] = 0],
         UNCHANGED loads,
         \/ shut' = shut \cup {c} /\ UNCHANGED <<mapped, watches>>
         \/ /\ ToSet(mapped') = ToSet(mapped) \ {c} /\ shut' = shut
            /\ watches' = [watches EXCEPT ![c] = {}]
  PROVE  Objects'
<1>1. /\ ObjectTypes'
      /\ \A d \in Copies : d # c => /\ plugin'[d] = plugin[d] /\ relay'[d] = relay[d]
                                    /\ watches'[d] = watches[d]
      /\ relay'[c] = 0 /\ watches'[c] \in {{}, watches[c]}
      /\ c \in shut' \/ c \notin ToSet(mapped')
      /\ watches'[c] = {} \/ UNCHANGED mapped
      /\ \A d : d # c => /\ d \in ToSet(mapped') <=> d \in ToSet(mapped)
                         /\ d \in shut' <=> d \in shut
  BY DEF Objects, ObjectTypes
<1>2. Undangling'
  <2> SUFFICES ASSUME NEW d \in Copies
               PROVE  /\ d \notin ToSet(mapped') => watches'[d] = {} /\ relay'[d] = 0
                      /\ d \in ToSet(mapped') \ shut' => /\ plugin'[d] # 0
                                                         /\ watches'[d] \subseteq {plugin'[d]}
                                                         /\ relay'[d] \in {0, plugin'[d]}
    BY DEF Undangling
  <2>1. CASE d = c
    BY <1>1, <2>1 DEF Objects, Undangling
  <2>2. CASE d # c
    BY <1>1, <2>2 DEF Objects, Undangling
  <2> QED BY <2>1, <2>2
<1> QED BY <1>1, <1>2 DEF Objects

LEMMA Step_Objects == Objects /\ Image /\ [BridgeNext]_bridgeVars => Objects'
<1> SUFFICES ASSUME Objects, Image, [BridgeNext]_bridgeVars PROVE Objects'
  OBVIOUS
<1>1. mapped \in Seq(Copies) /\ Distinct(mapped) /\ pinned \subseteq ToSet(mapped)
  BY DEF Image, ImageTypes, OneOwner
<1>2. ASSUME NEW c \in Copies, Load(c) PROVE Objects'
  <2>1. ToSet(mapped') = ToSet(mapped) \cup {c} /\ c \notin ToSet(mapped)
    BY <1>1, <1>2, Listed DEF Load
  <2>2. /\ Create(c) /\ relay' \in {relay, [relay EXCEPT ![c] = loads + 1]}
        /\ UNCHANGED <<watches, shut>>
    BY <1>2 DEF Load, PluginBegins
  <2> QED BY <2>1, <2>2, Begin_Objects DEF Image
<1>3. ASSUME NEW c \in Copies, Reenter(c) PROVE Objects'
  <2>1. c \in shut
    BY <1>1, <1>3 DEF Reenter, Objects, Undangling
  <2>2. /\ Create(c) /\ relay' \in {relay, [relay EXCEPT ![c] = loads + 1]}
        /\ UNCHANGED <<watches, shut, mapped>> /\ ToSet(mapped) = ToSet(mapped) \cup {c}
    BY <1>1, <1>3 DEF Reenter, PluginBegins, imageVars, stateVars
  <2> QED BY <2>1, <2>2, Begin_Objects DEF Image
<1>4. ASSUME NEW c \in Copies, Leave(c) PROVE Objects'
  BY <1>4, End_Objects DEF Leave, imageVars
<1>5. ASSUME NEW c \in Copies, Unload(c) PROVE Objects'
  <2>1. PICK i \in DOMAIN mapped : mapped[i] = c /\ mapped' = RemoveAt(mapped, i)
    BY <1>5 DEF Unload
  <2>2. i \in 1..Len(mapped)
    BY <1>1, <2>1
  <2>3. ToSet(mapped') = ToSet(mapped) \ {c}
    BY <1>1, <2>1, <2>2, Unlisted
  <2> QED BY <1>5, <2>3, End_Objects DEF Unload
<1>6. ASSUME NEW c \in Copies, ToggleWatch(c) PROVE Objects'
  <2>1. /\ watches' = [watches EXCEPT ![c] = IF plugin[c] \in @ THEN @ \ {plugin[c]}
                                             ELSE @ \cup {plugin[c]}]
        /\ plugin[c] \in Nat /\ watches \in [Copies -> SUBSET Nat]
        /\ plugin[c] # 0 /\ c \in ToSet(mapped)
        /\ UNCHANGED <<mapped, loads, plugin, relay, shut>>
    BY <1>6 DEF ToggleWatch, Objects, ObjectTypes, imageVars, stateVars, Image, OneOwner
  <2>2. /\ watches' \in [Copies -> SUBSET Nat]
        /\ \A d \in Copies : d # c => watches'[d] = watches[d]
        /\ watches[c] \subseteq {plugin[c]} => watches'[c] \subseteq {plugin[c]}
    BY <2>1
  <2> QED BY <2>1, <2>2 DEF Objects, ObjectTypes, Undangling
<1>7. ASSUME UNCHANGED <<mapped, pluginVars, shut>> PROVE Objects'
  BY <1>7 DEF Objects, ObjectTypes, Undangling, pluginVars
<1>8. ASSUME NEW c \in Copies, OnTimer(c) \/ LogLine(c) PROVE Objects'
  BY <1>7, <1>8 DEF OnTimer, LogLine, imageVars, stateVars
<1>9. ASSUME NEW cl \in Clients, ClientLoads(cl) \/ Attach(cl) \/ Register(cl) PROVE Objects'
  BY <1>7, <1>9 DEF ClientLoads, Attach, Register, imageVars, stateVars
<1>10. ASSUME NEW cl \in Clients, Set(cl) \/ Unregister(cl) \/ ClientUnloads(cl) PROVE Objects'
  BY <1>7, <1>10 DEF Set, Unregister, ClientUnloads, imageVars, stateVars
<1>11. CASE UNCHANGED bridgeVars
  BY <1>7, <1>11 DEF bridgeVars, imageVars, stateVars
<1> QED BY <1>2, <1>3, <1>4, <1>5, <1>6, <1>8, <1>9, <1>10, <1>11 DEF BridgeNext
-----------------------------------------------------------------------------
(* What is saved.                                                          *)

\* A save of a copy, whether it succeeds or not.
LEMMA Save_Saved ==
  ASSUME Saved, NEW c \in Copies, Save(c), UNCHANGED latest, shut' \in {shut, shut \cup {c}}
  PROVE  Saved'
<1>1. CASE disk' = [disk EXCEPT ![c] = latest[c]] /\ unsaved' = unsaved \ {c}
  BY <1>1 DEF Saved, FlushedIsFinal
<1>2. CASE unsaved' = unsaved \cup {c} /\ UNCHANGED disk
  BY <1>2 DEF Saved, FlushedIsFinal
<1> QED BY <1>1, <1>2 DEF Save

LEMMA Step_Saved == Saved /\ Image /\ [BridgeNext]_bridgeVars => Saved'
<1> SUFFICES ASSUME Saved, Image, [BridgeNext]_bridgeVars PROVE Saved'
  OBVIOUS
<1>1. ASSUME NEW c \in Copies, Load(c) PROVE Saved'
  <2>1. c \notin shut
    BY <1>1 DEF Load, Image, OneOwner
  <2>2. /\ latest' \in {latest, [latest EXCEPT ![c] = disk[c]]}
        /\ UNCHANGED <<disk, shut, unsaved>>
    BY <1>1 DEF Load
  <2>3. CASE latest' = latest
    BY <2>2, <2>3 DEF Saved, FlushedIsFinal
  <2>4. CASE latest' = [latest EXCEPT ![c] = disk[c]]
    BY <2>1, <2>2, <2>4 DEF Saved, FlushedIsFinal
  <2> QED BY <2>2, <2>3, <2>4
<1>2. ASSUME NEW c \in Copies, Leave(c) \/ Unload(c) \/ OnTimer(c) PROVE Saved'
  <2>1. CASE Save(c)
    BY <1>2, <2>1, Save_Saved DEF Leave, Unload, OnTimer
  <2>2. CASE UNCHANGED <<disk, unsaved, latest, shut>>
    BY <2>2 DEF Saved, FlushedIsFinal
  <2> QED BY <1>2, <2>1, <2>2 DEF Leave, Unload, OnTimer
<1>3. ASSUME NEW cl \in Clients, Set(cl) PROVE Saved'
  <2>1. /\ table[cl] \notin shut /\ latest' = [latest EXCEPT ![table[cl]] = @ + 1]
        /\ UNCHANGED <<disk, shut, unsaved>>
    BY <1>3 DEF Set, AcceptingState, faultVars
  <2>2. table[cl] \in Copies
    BY <1>3 DEF Set, Attached, Image, ImageTypes, ToSet
  <2>3. /\ latest' \in [Copies -> Nat]
        /\ \A c \in shut : latest'[c] = latest[c]
    BY <2>1, <2>2 DEF Saved
  <2> QED BY <2>1, <2>3 DEF Saved, FlushedIsFinal
<1>4. ASSUME UNCHANGED <<latest, disk, shut, unsaved>> PROVE Saved'
  BY <1>4 DEF Saved, FlushedIsFinal
<1>5. ASSUME NEW c \in Copies, Reenter(c) \/ ToggleWatch(c) \/ LogLine(c) PROVE Saved'
  BY <1>4, <1>5 DEF Reenter, ToggleWatch, LogLine, stateVars, faultVars
<1>6. ASSUME NEW cl \in Clients, ClientLoads(cl) \/ Attach(cl) \/ Register(cl) PROVE Saved'
  BY <1>4, <1>6 DEF ClientLoads, Attach, Register, stateVars, faultVars
<1>7. ASSUME NEW cl \in Clients, Unregister(cl) \/ ClientUnloads(cl) PROVE Saved'
  BY <1>4, <1>7 DEF Unregister, ClientUnloads, stateVars, faultVars
<1>8. CASE UNCHANGED bridgeVars
  BY <1>4, <1>8 DEF bridgeVars, stateVars, faultVars
<1> QED BY <1>1, <1>2, <1>3, <1>5, <1>6, <1>7, <1>8 DEF BridgeNext
-----------------------------------------------------------------------------
\* The mutex, what is pinned, the plugin objects and the files stay in step: this
\* is the inductive invariant the theorems below rest on.
THEOREM BridgeInvariant == BridgeSpec => []BridgeInv
<1>1. BridgeInv /\ [BridgeNext]_bridgeVars => BridgeInv'
  <2> SUFFICES ASSUME BridgeInv, [BridgeNext]_bridgeVars PROVE BridgeInv'
    OBVIOUS
  <2>1. Image /\ Objects /\ Saved
    BY DEF BridgeInv, Image, Objects
  <2>2. Image' /\ Objects' /\ Saved'
    BY <2>1, Step_Image, Step_Objects, Step_Saved
  <2> QED BY <2>2 DEF BridgeInv, Image, Objects
<1> QED BY <1>1, BridgeInit_Inv, PTL DEF BridgeSpec

\* However many copies of the DLL come and go, all tables in use are those of one
\* copy, which is in memory and serves.
THEOREM NeverTwoRegistries == BridgeSpec => []OneRegistry
<1>1. ASSUME BridgeInv
      PROVE  OneRegistry
  <2>1. Cardinality(serving) <= 1
    <3>1. CASE serving = {}
      BY <3>1, FS_EmptySet
    <3>2. ASSUME NEW c \in serving PROVE Cardinality(serving) <= 1
      <4>1. serving = {c}
        BY <1>1, <3>2 DEF BridgeInv, OneOwner
      <4>2. Cardinality({c}) = 1
        BY FS_Singleton
      <4> QED BY <4>1, <4>2
    <3> QED BY <3>1, <3>2
  <2>2. ASSUME NEW cl \in up, table[cl] # None, table[cl] \notin unpinned
        PROVE  table[cl] \in ToSet(mapped) /\ serving = {table[cl]}
    BY <1>1, <2>2 DEF BridgeInv, TablesHeld, OneOwner
  <2> QED BY <2>1, <2>2 DEF OneRegistry
<1> QED BY <1>1, BridgeInvariant, PTL

\* Nothing is accepted that the last save has missed.
THEOREM NothingAfterTheSave == BridgeSpec => []FlushedIsFinal
<1>1. BridgeInv => FlushedIsFinal
  BY DEF BridgeInv, Saved
<1> QED BY <1>1, BridgeInvariant, PTL

\* No write reaches a plugin object that is gone, though subscriptions of .esb
\* watch are never taken back.
THEOREM NoDanglingObject == BridgeSpec => NothingDangles
<1> DEFINE Sound ==
             \A c \in ToSet(mapped) :
                latest'[c] > latest[c] => /\ watches[c] \subseteq {plugin[c]}
                                          /\ relay[c] \in {0, plugin[c]}
<1>1. BridgeInv /\ [BridgeNext]_bridgeVars => [Sound]_bridgeVars
  <2> SUFFICES ASSUME BridgeInv, BridgeNext, NEW c \in ToSet(mapped), latest'[c] > latest[c]
               PROVE  watches[c] \subseteq {plugin[c]} /\ relay[c] \in {0, plugin[c]}
    OBVIOUS
  <2>1. c \in Copies /\ latest \in [Copies -> Nat]
    BY DEF BridgeInv, ImageTypes, Saved, ToSet
  <2>2. latest[c] \in Nat /\ ~(latest[c] > latest[c])
    BY <2>1
  <2>3. c \notin shut
    <3>1. ASSUME NEW d \in Copies, Load(d) PROVE FALSE
      BY <2>1, <2>2, <3>1 DEF Load
    <3>2. ASSUME NEW cl \in Clients, Set(cl) PROVE c \notin shut
      <4>1. latest' = [latest EXCEPT ![table[cl]] = @ + 1] /\ table[cl] \notin shut
        BY <3>2 DEF Set, AcceptingState
      <4> QED BY <2>1, <2>2, <4>1
    <3>3. CASE UNCHANGED latest
      BY <2>2, <3>3
    <3> QED
      BY <3>1, <3>2, <3>3
         DEF BridgeNext, Reenter, Leave, Unload, OnTimer, ToggleWatch, LogLine, ClientLoads,
             Attach, Register, Unregister, ClientUnloads, stateVars
  <2> QED BY <2>1, <2>3 DEF BridgeInv, Undangling
<1> QED BY <1>1, BridgeInvariant, PTL DEF BridgeSpec, NothingDangles

\* Calls of the system that failed are counted, so that a step in which none fails
\* can be told.
LEMMA FaultsAreCounted == BridgeSpec => [](faults \in Nat)
<1>1. BridgeInit => faults \in Nat
  BY DEF BridgeInit
<1>2. faults \in Nat /\ [BridgeNext]_bridgeVars => (faults \in Nat)'
  <2> SUFFICES ASSUME faults \in Nat, [BridgeNext]_bridgeVars PROVE (faults \in Nat)'
    OBVIOUS
  <2>1. CASE Fault
    BY <2>1 DEF Fault
  <2>2. CASE UNCHANGED faults
    BY <2>2
  <2>3. \A c \in Copies : Save(c) => Fault \/ UNCHANGED faults
    BY DEF Save
  <2>4. ASSUME NEW c \in Copies,
               Load(c) \/ Leave(c) \/ Unload(c) \/ OnTimer(c) \/ LogLine(c)
        PROVE  Fault \/ UNCHANGED faults
    BY <2>3, <2>4 DEF Load, StandsDown, Leave, Unload, OnTimer, LogLine
  <2>5. ASSUME NEW c \in Copies, Reenter(c) \/ ToggleWatch(c)
        PROVE  UNCHANGED faults
    BY <2>5 DEF Reenter, ToggleWatch, faultVars
  <2>6. ASSUME NEW cl \in Clients,
               \/ ClientLoads(cl) \/ Register(cl) \/ Set(cl) \/ Unregister(cl)
               \/ ClientUnloads(cl)
        PROVE  UNCHANGED faults
    BY <2>6 DEF ClientLoads, Register, Set, Unregister, ClientUnloads, faultVars
  <2>7. ASSUME NEW cl \in Clients, Attach(cl) PROVE Fault \/ UNCHANGED faults
    BY <2>7 DEF Attach
  <2>8. CASE UNCHANGED bridgeVars
    BY <2>8 DEF bridgeVars, faultVars
  <2> QED BY <2>1, <2>2, <2>4, <2>5, <2>6, <2>7, <2>8 DEF BridgeNext
<1> QED BY <1>1, <1>2, PTL DEF BridgeSpec

\* A copy that comes when no other has the name serves and is found, however often
\* the mutex was taken and given back before, unless a call of the system fails it.
THEOREM RestartsServe == BridgeSpec => RestartServes
<1> DEFINE Taken == \A c \in Named :
                       Found = {} /\ c \in ToSet(mapped') /\ faults' = faults =>
                          c \in serving' /\ Found' = {c}
<1>1. BridgeInv /\ faults \in Nat /\ [BridgeNext]_bridgeVars => [Taken]_bridgeVars
  <2> SUFFICES ASSUME BridgeInv, faults \in Nat, BridgeNext, NEW c \in Named,
                      Found = {}, c \in ToSet(mapped'), faults' = faults
               PROVE  c \in serving' /\ Found' = {c}
    OBVIOUS
  <2>1. mapped \in Seq(Copies) /\ Distinct(mapped) /\ ToSet(mapped) \cap Named = {}
    BY NotFound DEF BridgeInv, ImageTypes
  <2>2. owns = {}
    BY <2>1 DEF BridgeInv, OneOwner
  <2>3. Load(c)
    <3>1. ASSUME NEW d \in Copies, Load(d) PROVE Load(c)
      <4>1. ToSet(mapped') = ToSet(mapped) \cup {d}
        BY <2>1, <3>1, Listed DEF Load
      <4> QED BY <2>1, <3>1, <4>1
    <3>2. ASSUME NEW d \in Copies, Unload(d) PROVE FALSE
      <4>1. PICK i \in DOMAIN mapped : mapped' = RemoveAt(mapped, i)
        BY <3>2 DEF Unload
      <4>2. i \in 1..Len(mapped)
        BY <2>1, <4>1
      <4>3. ToSet(mapped') \subseteq ToSet(mapped)
        BY <2>1, <4>1, <4>2, Unlisted
      <4> QED BY <2>1, <4>3
    <3>3. CASE UNCHANGED mapped
      BY <2>1, <3>3 DEF ToSet
    <3> QED
      BY <3>1, <3>2, <3>3
         DEF BridgeNext, Reenter, Leave, OnTimer, ToggleWatch, LogLine, ClientLoads, Attach,
             Register, Set, Unregister, ClientUnloads, imageVars
  <2>4. c \in serving'
    <3>1. MayServe(c)
      BY <2>2 DEF MayServe
    <3>2. ~StandsDown(c)
      <4>1. ~Fault
        BY DEF Fault
      <4> QED BY <3>1, <4>1 DEF StandsDown
    <3> QED BY <2>3, <3>2 DEF Load
  <2>5. Found' = {c}
    <3>1. /\ mapped' = Append(mapped, c) /\ c \in Copies /\ Len(mapped) \in Nat
          /\ DOMAIN mapped = 1..Len(mapped) /\ DOMAIN mapped' = 1..(Len(mapped) + 1)
          /\ mapped'[Len(mapped) + 1] = c
          /\ \A i \in 1..Len(mapped) : mapped'[i] = mapped[i]
      BY <2>1, <2>3, BridgeAssumption DEF Load
    <3>2. \A i \in 1..Len(mapped) : mapped'[i] \notin Named
      BY <2>1, <3>1 DEF ToSet
    <3>3. \A i \in DOMAIN mapped' : mapped'[i] \in Named <=> i = Len(mapped) + 1
      BY <3>1, <3>2
    <3>4. Found' \subseteq {c}
      BY <3>1, <3>3 DEF Found
    <3>5. c \in Found'
      <4>1. Len(mapped) + 1 \in DOMAIN mapped'
            /\ \A k \in 1..(Len(mapped) + 1 - 1) : mapped'[k] \notin Named
        BY <3>1, <3>2
      <4> QED BY <3>1, <4>1 DEF Found
    <3> QED BY <3>4, <3>5
  <2> QED BY <2>4, <2>5
<1> QED BY <1>1, BridgeInvariant, FaultsAreCounted, PTL DEF BridgeSpec, RestartServes
-----------------------------------------------------------------------------
(* The log of each copy.  While no file operation failed, the previous      *)
(* generation and the log are two adjacent runs of lines, and the older one *)
(* has filled a log.                                                        *)

LogType == [current : SUBSET Nat, previous : SUBSET Nat, made : BOOLEAN, open : BOOLEAN,
            last : Nat, failed : BOOLEAN]

\* The lines after b are in the log, those after a in the previous generation.
Spans(l, a, b) ==
    /\ a \in Nat /\ b \in Nat /\ a <= b /\ b <= l.last
    /\ l.current = (b + 1)..l.last /\ l.previous = (a + 1)..b
    /\ b = 0 \/ a + LogLines <= b

Adjacent(l) == \E a, b \in 0..l.last : Spans(l, a, b)

\* A rotation is followed by a line.
Gapless(l) == \E a, b \in 0..l.last : Spans(l, a, b) /\ (b = 0 \/ b < l.last)

LogOK(l) == l \in LogType /\ (l.failed \/ Gapless(l))

LogInv == DOMAIN log = Copies /\ \A c \in Copies : LogOK(log[c])

LEMMA RunLength ==
  ASSUME NEW a \in Nat, NEW b \in Nat, a <= b
  PROVE  Cardinality((a + 1)..b) = b - a
<1>1. a + 1 \in Int /\ b \in Int
  OBVIOUS
<1>2. Cardinality((a + 1)..b) = IF a + 1 > b THEN 0 ELSE b - (a + 1) + 1
  BY <1>1, FS_Interval
<1> QED BY <1>2

LEMMA NoLogOK == LogOK(NoLog)
<1>1. NoLog \in LogType
  BY DEF NoLog, LogType
<1>2. Spans(NoLog, 0, 0) /\ NoLog.last = 0
  BY DEF NoLog, Spans
<1> QED BY <1>1, <1>2 DEF LogOK, Gapless

\* Who holds the file does not matter to what is in it.
LEMMA SameFiles ==
  ASSUME NEW l, NEW r, LogOK(l), r \in LogType, r.current = l.current,
         r.previous = l.previous, r.last = l.last, l.failed => r.failed
  PROVE  LogOK(r)
<1>1. \A a, b : Spans(l, a, b) => Spans(r, a, b)
  BY DEF Spans
<1> QED BY <1>1 DEF LogOK, Gapless

LEMMA DropLogOK ==
  ASSUME NEW l, LogOK(l)
  PROVE  LogOK(DropLog(l))
<1> DEFINE r == DropLog(l)
<1>1. l \in LogType
  BY DEF LogOK
<1>2. /\ r \in LogType /\ r.current = l.current /\ r.previous = l.previous
      /\ r.last = l.last /\ r.failed = l.failed
  BY <1>1 DEF DropLog, LogType
<1> QED BY <1>2, SameFiles

LEMMA MakeLogOK ==
  ASSUME NEW l, LogOK(l), NEW r \in MakeLog(l)
  PROVE  LogOK(r)
<1>1. l \in LogType
  BY DEF LogOK
<1>2. PICK ok \in BOOLEAN : r = [l EXCEPT !.made = TRUE, !.open = ok, !.failed = @ \/ ~ok]
  BY DEF MakeLog
<1>3. /\ r.current = l.current /\ r.previous = l.previous /\ r.last = l.last
      /\ r.failed = (l.failed \/ ~ok)
  BY <1>1, <1>2 DEF LogType
<1>4. r \in LogType
  BY <1>1, <1>2 DEF LogType
<1> QED BY <1>3, <1>4, SameFiles

\* A full log becomes the previous generation.
LEMMA RotateOK ==
  ASSUME NEW l, LogOK(l), Cardinality(l.current) >= LogLines, NEW r \in Rotate(l)
  PROVE  /\ r \in LogType /\ r.last = l.last
         /\ r.failed \/ Adjacent(r)
<1>1. l \in LogType
  BY DEF LogOK
<1>2. PICK removed \in BOOLEAN, renamed \in BOOLEAN : r \in Reopened(Renamed(l, removed, renamed))
  BY DEF Rotate
<1> DEFINE m == Renamed(l, removed, renamed)
<1>3. /\ m \in LogType /\ m.last = l.last
      /\ m.failed \/ (m.failed = l.failed /\ m.previous = l.current)
  <2>1. CASE (removed \/ l.previous = {}) /\ renamed
    <3>1. m = [l EXCEPT !.previous = l.current, !.current = {}]
      BY <2>1, Zenon DEF Renamed
    <3> HIDE DEF m
    <3> QED BY <1>1, <3>1 DEF LogType
  <2>2. CASE ~((removed \/ l.previous = {}) /\ renamed)
    <3>1. m = [l EXCEPT !.previous = IF removed THEN {} ELSE l.previous, !.failed = TRUE]
      BY <2>2, Zenon DEF Renamed
    <3> HIDE DEF m
    <3> QED BY <1>1, <3>1 DEF LogType
  <2> QED BY <2>1, <2>2
<1> HIDE DEF m
<1>4. /\ r \in LogType /\ r.last = l.last
      /\ r.failed \/ (r.failed = l.failed /\ r.previous = l.current /\ r.current = {})
  <2>1. r \in {[m EXCEPT !.current = {}], [m EXCEPT !.open = FALSE, !.failed = TRUE]}
    BY <1>2, Zenon DEF m, Reopened
  <2>2. CASE r = [m EXCEPT !.current = {}]
    BY <1>3, <2>2 DEF LogType
  <2>3. CASE r = [m EXCEPT !.open = FALSE, !.failed = TRUE]
    BY <1>3, <2>3 DEF LogType
  <2> QED BY <2>1, <2>2, <2>3
<1>5. ASSUME ~r.failed
      PROVE  Adjacent(r)
  <2>1. r.previous = l.current /\ r.current = {} /\ ~l.failed
    BY <1>4, <1>5
  <2>2. PICK a \in 0..l.last, b \in 0..l.last : Spans(l, a, b)
    BY <2>1 DEF LogOK, Gapless
  <2>3. l.last \in Nat /\ b \in Nat /\ LogLines \in Nat \ {0}
    BY <1>1, LogLinesAssumption DEF LogType
  <2>4. l.current = (b + 1)..l.last
    BY <2>2 DEF Spans
  <2>5. b + LogLines <= l.last
    <3>1. b <= l.last /\ Cardinality((b + 1)..l.last) = l.last - b
      BY <2>3, RunLength
    <3> QED BY <2>3, <2>4, <3>1
  <2>6. Spans(r, b, l.last)
    BY <1>4, <2>1, <2>3, <2>4, <2>5 DEF Spans
  <2> QED BY <1>4, <2>3, <2>5, <2>6 DEF Adjacent
<1> QED BY <1>4, <1>5

LEMMA Appended ==
  ASSUME NEW l \in LogType
  PROVE  LET r == AppendLine(l)
         IN  /\ r \in LogType /\ r.last = l.last + 1 /\ r.previous = l.previous
             /\ r.failed \/ (r.failed = l.failed /\ r.current = l.current \cup {l.last + 1})
<1> DEFINE r == AppendLine(l)
           n == l.last + 1
           added == l.current \cup {n}
<1>1. n \in Nat /\ added \in SUBSET Nat
  BY DEF LogType
<1> HIDE DEF n, added
<1>2. CASE l.open
  <2>1. r = [l EXCEPT !.last = n, !.current = added]
    BY <1>2, Zenon DEF AppendLine, n, added
  <2> HIDE DEF r
  <2>2. r \in LogType /\ r.last = n /\ r.previous = l.previous /\ r.current = added
    BY <1>1, <2>1 DEF LogType
  <2>3. r.failed = l.failed
    BY <2>1, Zenon DEF LogType
  <2> QED BY <2>2, <2>3, Zenon DEF r, n, added
<1>3. CASE ~l.open
  <2>1. r = [l EXCEPT !.last = n, !.failed = TRUE]
    BY <1>3, Zenon DEF AppendLine, n
  <2> HIDE DEF r
  <2>2. r \in LogType /\ r.last = n /\ r.previous = l.previous /\ r.failed = TRUE
    BY <1>1, <2>1 DEF LogType
  <2> QED BY <2>2, Zenon DEF r, n
<1> QED BY <1>2, <1>3

LEMMA AppendLineOK ==
  ASSUME NEW l \in LogType, l.failed \/ Adjacent(l)
  PROVE  LogOK(AppendLine(l))
<1> DEFINE r == AppendLine(l)
<1>1. /\ r \in LogType /\ r.last = l.last + 1 /\ r.previous = l.previous
      /\ r.failed \/ (r.failed = l.failed /\ r.current = l.current \cup {l.last + 1})
  BY Appended
<1> HIDE DEF r
<1>2. ASSUME ~r.failed
      PROVE  Gapless(r)
  <2>1. PICK a \in 0..l.last, b \in 0..l.last : Spans(l, a, b)
    BY <1>1, <1>2 DEF Adjacent
  <2>2. l.last \in Nat
    BY DEF LogType
  <2>3. r.current = (b + 1)..r.last
    <3>1. l.current = (b + 1)..l.last
      BY <2>1 DEF Spans
    <3>2. (b + 1)..(l.last + 1) = ((b + 1)..l.last) \cup {l.last + 1}
      BY <2>1, <2>2
    <3> QED BY <1>1, <1>2, <3>1, <3>2
  <2>4. Spans(r, a, b) /\ b < r.last
    BY <1>1, <2>1, <2>2, <2>3 DEF Spans
  <2> QED BY <1>1, <2>2, <2>4 DEF Gapless
<1> QED BY <1>1, <1>2 DEF LogOK, r

LEMMA WriteOpenOK ==
  ASSUME NEW l, LogOK(l), NEW r \in WriteOpen(l)
  PROVE  LogOK(r)
<1>1. l \in LogType /\ (l.failed \/ Adjacent(l))
  BY DEF LogOK, Gapless, Adjacent
<1>2. CASE l.open /\ Cardinality(l.current) >= LogLines
  <2>1. PICK m \in Rotate(l) : r = AppendLine(m)
    BY <1>2 DEF WriteOpen
  <2> QED BY <1>2, <2>1, RotateOK, AppendLineOK
<1>3. CASE ~(l.open /\ Cardinality(l.current) >= LogLines)
  <2>1. r = AppendLine(l)
    BY <1>3 DEF WriteOpen
  <2> QED BY <1>1, <2>1, AppendLineOK
<1> QED BY <1>2, <1>3

LEMMA WriteOK ==
  ASSUME NEW l, LogOK(l), NEW r \in Write(l)
  PROVE  LogOK(r)
<1>1. PICK m \in (IF l.made THEN {l} ELSE MakeLog(l)) : r \in WriteOpen(m)
  BY DEF Write
<1>2. LogOK(m)
  BY <1>1, MakeLogOK
<1> QED BY <1>1, <1>2, WriteOpenOK

LEMMA Step_Log == LogInv /\ [BridgeNext]_bridgeVars => LogInv'
<1> SUFFICES ASSUME LogInv, [BridgeNext]_bridgeVars PROVE LogInv'
  OBVIOUS
<1>1. ASSUME NEW c \in Copies, NEW l, LogOK(l), log' = [log EXCEPT ![c] = l]
      PROVE  LogInv'
  BY <1>1 DEF LogInv
<1>2. ASSUME NEW c \in Copies, LogLine(c) PROVE LogInv'
  <2>1. PICK l \in Write(log[c]) : log' = [log EXCEPT ![c] = l]
    BY <1>2 DEF LogLine
  <2>2. LogOK(l)
    BY <2>1, WriteOK DEF LogInv
  <2> QED BY <1>1, <2>1, <2>2
<1>3. ASSUME NEW c \in Copies, Unload(c) PROVE LogInv'
  <2>1. log' = [log EXCEPT ![c] = DropLog(log[c])] /\ LogOK(DropLog(log[c]))
    BY <1>3, DropLogOK DEF Unload, LogInv
  <2> QED BY <1>1, <2>1
<1>4. CASE UNCHANGED log
  BY <1>4 DEF LogInv
<1> QED
  BY <1>2, <1>3, <1>4
     DEF BridgeNext, Load, Reenter, Leave, OnTimer, ToggleWatch, ClientLoads, Attach, Register,
         Set, Unregister, ClientUnloads, bridgeVars

\* Each log and its previous generation are adjacent runs of lines up to the last
\* one, as long as no file operation failed.
THEOREM LogInvariant == BridgeSpec => []LogInv
<1>1. BridgeInit => LogInv
  BY NoLogOK DEF BridgeInit, LogInv
<1> QED BY <1>1, Step_Log, PTL DEF BridgeSpec

\* The last lines, as many as fill a log and one, survive every rotation and every
\* session in which no file operation failed: for any size of the log.
THEOREM TailIsKept == BridgeSpec => []LogKeepsTail
<1>1. LogInv => LogKeepsTail
  <2> SUFFICES ASSUME LogInv, NEW c \in Copies, ~log[c].failed,
                      NEW n \in 1..log[c].last, n >= log[c].last - LogLines
               PROVE  n \in log[c].current \cup log[c].previous
    BY DEF LogKeepsTail
  <2> DEFINE l == log[c]
  <2>1. l \in LogType /\ Gapless(l)
    BY DEF LogInv, LogOK
  <2> HIDE DEF l
  <2>2. PICK a \in 0..l.last, b \in 0..l.last : Spans(l, a, b) /\ (b = 0 \/ b < l.last)
    BY <2>1 DEF Gapless
  <2>3. n \in 1..l.last /\ n >= l.last - LogLines
    BY DEF l
  <2>4. l.last \in Nat /\ LogLines \in Nat
    BY <2>1, LogLinesAssumption DEF LogType
  <2>5. n \in (b + 1)..l.last \/ n \in (a + 1)..b
    BY <2>2, <2>3, <2>4 DEF Spans
  <2>6. n \in l.current \cup l.previous
    BY <2>2, <2>5 DEF Spans
  <2> QED BY <2>6 DEF l
<1> QED BY <1>1, LogInvariant, PTL
=============================================================================
