------------------------------- MODULE Dispatch -------------------------------
(***************************************************************************)
(* Notification in src/Registry.cpp: a write that changed a value calls    *)
(* the field's subscribers, one after the other, in the middle of the      *)
(* publisher's call.  A subscriber may write, subscribe, unsubscribe and   *)
(* fault.  Here every call of a subscriber is a span of steps.             *)
(*                                                                         *)
(* A key <<field, aircraft>> is what a notification is about.  Only that a *)
(* value changed matters, not what it changed to.                          *)
(***************************************************************************)
EXTENDS Integers, Sequences, FiniteSets, SequencesExt

CONSTANTS Keys,        \* the <<field, aircraft>> that plugins write
          Modules,     \* the plugins
          NoKey,       \* no dispatch is running
          MaxRounds,   \* kMaxDispatchRounds
          MaxSubs      \* bound: entries of m_subs

ASSUME DispatchAssumption ==
    /\ NoKey \notin Keys
    /\ MaxRounds \in Nat \ {0} /\ MaxSubs \in Nat

VARIABLES
    subs,       \* m_subs: the field, the module and whether it is live
    pending,    \* m_pending
    current,    \* the key being dispatched; m_dispatchDepth is 1 unless NoKey
    targets,    \* what is left of the snapshot Dispatch took
    callee,     \* the subscription whose callback is running, or NoSub
    batch,      \* the keys of this round of DrainPending still to dispatch
    round,      \* the round of DrainPending, 0 for the write's own dispatch
    mapped,     \* the modules that are loaded
    owed,       \* history: <<subscription, key>> changed since its last call
    calls       \* history: calls since the outermost write, per pair, up to CallCap

dispatchVars == <<subs, pending, current, targets, callee, batch, round,
                  mapped, owed, calls>>
controlVars == <<current, targets, batch, round>>

NoSub == 0
Idle == current = NoKey
Running == callee # NoSub

\* m_subsByField: the entries for a field, dead ones too.  The vectors list
\* them oldest first, which is the order of their indices.
SubsByField(f) == {i \in DOMAIN subs : subs[i].field = f}

DispatchInit ==
    /\ subs = <<>> /\ pending = <<>>
    /\ current = NoKey /\ targets = {} /\ callee = NoSub
    /\ batch = <<>> /\ round = 0
    /\ mapped = Modules
    /\ owed = {} /\ calls = <<>>

\* One more than any property allows.
CallCap == MaxRounds + 2
NoCalls == [p \in (1..MaxSubs) \X Keys |-> 0]

\* Every live subscription of the field is now owed a call.
Owe(k) ==
    owed' = owed \cup {<<i, k>> : i \in {j \in DOMAIN subs :
                                            subs[j].live /\ subs[j].field = k[1]}}
-----------------------------------------------------------------------------
(* Notify.                                                                 *)

\* A write outside any callback: Dispatch starts at once.
Write(k) ==
    /\ Idle
    /\ SubsByField(k[1]) # {}
    /\ current' = k
    /\ targets' = SubsByField(k[1])
    /\ Owe(k)
    /\ calls' = NoCalls
    /\ UNCHANGED <<subs, pending, callee, batch, round, mapped>>

\* Mutant: one entry per field.
QueuePending_ByField(k) ==
    pending' = IF \E p \in ToSet(pending) : p[1] = k[1] THEN pending
               ELSE Append(pending, k)

\* Mutant: no coalescing.
QueuePending_Always(k) == pending' = Append(pending, k)

\* QueuePending: one entry per key.
QueuePending(k) ==
    pending' = IF k \in ToSet(pending) THEN pending ELSE Append(pending, k)

\* A write of the subscriber that is being called.
WriteInside(k) ==
    /\ Running
    /\ Owe(k)
    /\ QueuePending(k)
    /\ UNCHANGED <<subs, callee, controlVars, mapped, calls>>
-----------------------------------------------------------------------------
(* Dispatch and DrainPending.                                              *)

\* Mutant: liveness was checked when the snapshot was taken.
Callable_Snapshot(i) == TRUE

Callable(i) == subs[i].live

\* The next of the snapshot is called, or passed over when it is dead by now.
Deliver ==
    /\ ~Idle /\ ~Running
    /\ \E i \in targets :
          /\ \A j \in targets : i <= j
          /\ targets' = targets \ {i}
          /\ IF Callable(i)
             THEN /\ callee' = i
                  /\ owed' = owed \ {<<i, current>>}
                  /\ calls' = [calls EXCEPT ![<<i, current>>] =
                                  IF @ < CallCap THEN @ + 1 ELSE @]
             ELSE UNCHANGED <<callee, owed, calls>>
    /\ UNCHANGED <<subs, pending, current, batch, round, mapped>>

\* The callback returns.  One whose module is gone cannot.
Return ==
    /\ Running
    /\ subs[callee].module \in mapped
    /\ callee' = NoSub
    /\ UNCHANGED <<subs, pending, controlVars, mapped, owed, calls>>

Dying(S) ==
    /\ subs' = [i \in DOMAIN subs |->
                   IF i \in S THEN [subs[i] EXCEPT !.live = FALSE] ELSE subs[i]]
    /\ owed' = {p \in owed : p[1] \notin S}

\* The callback faults: the exception is caught and the subscription dropped.
Fault ==
    /\ Running
    /\ Dying({callee})
    /\ callee' = NoSub
    /\ UNCHANGED <<pending, controlVars, mapped, calls>>

StartEvent(q) ==
    /\ current' = Head(q)
    /\ targets' = SubsByField(Head(q)[1])
    /\ batch' = Tail(q)

Finished == ~Idle /\ ~Running /\ targets = {}

NextInRound ==
    /\ Finished
    /\ batch # <<>>
    /\ StartEvent(batch)
    /\ UNCHANGED <<subs, pending, callee, round, mapped, owed, calls>>

\* Mutant: the number of rounds is not limited.
NextRound_Unlimited ==
    /\ Finished
    /\ batch = <<>> /\ pending # <<>>
    /\ StartEvent(pending)
    /\ pending' = <<>>
    /\ UNCHANGED <<subs, callee, round, mapped, owed, calls>>

\* What the last round queued is the batch of the next.
NextRound ==
    /\ Finished
    /\ batch = <<>> /\ pending # <<>>
    /\ round < MaxRounds
    /\ round' = round + 1
    /\ StartEvent(pending)
    /\ pending' = <<>>
    /\ UNCHANGED <<subs, callee, mapped, owed, calls>>

\* One round too many: the queue is shed, and with it what was owed.
Shed ==
    /\ Finished
    /\ batch = <<>> /\ pending # <<>>
    /\ round = MaxRounds
    /\ pending' = <<>>
    /\ owed' = {p \in owed : p[2] \notin ToSet(pending)}
    /\ current' = NoKey /\ round' = 0
    /\ calls' = <<>>
    /\ UNCHANGED <<subs, targets, callee, batch, mapped>>

Unwind ==
    /\ Finished
    /\ batch = <<>> /\ pending = <<>>
    /\ current' = NoKey /\ round' = 0
    /\ calls' = <<>>
    /\ UNCHANGED <<subs, pending, targets, callee, batch, mapped, owed>>
-----------------------------------------------------------------------------
(* Subscriptions.                                                          *)

\* The plugin whose code runs: any while idle, the subscriber during a call.
Caller(m) ==
    /\ m \in mapped
    /\ Idle \/ (Running /\ subs[callee].module = m)

Subscribe(m, f) ==
    /\ Caller(m)
    /\ Len(subs) < MaxSubs
    /\ subs' = Append(subs, [field |-> f, module |-> m, live |-> TRUE])
    /\ UNCHANGED <<pending, callee, controlVars, mapped, owed, calls>>

Unsubscribe(m, i) ==
    /\ Caller(m)
    /\ subs[i].module = m
    /\ subs[i].live
    /\ Dying({i})
    /\ UNCHANGED <<pending, callee, controlVars, mapped, calls>>

\* EuroScope unloads a plugin that may have left subscriptions behind.
Unload(m) ==
    /\ Idle
    /\ m \in mapped
    /\ mapped' = mapped \ {m}
    /\ UNCHANGED <<subs, pending, callee, controlVars, owed, calls>>

\* ReapDeadModules, its second loop.
ReapSubscriptions ==
    LET gone == {i \in DOMAIN subs : subs[i].live /\ subs[i].module \notin mapped}
    IN  /\ Idle
        /\ gone # {}
        /\ Dying(gone)
        /\ UNCHANGED <<pending, callee, controlVars, mapped, calls>>
-----------------------------------------------------------------------------
Fields == {k[1] : k \in Keys}

\* What the registry and a running callback do of themselves.
Proceed ==
    \/ Deliver \/ Return \/ Fault
    \/ NextInRound \/ NextRound \/ Shed \/ Unwind

Plugins ==
    \/ \E k \in Keys : Write(k) \/ WriteInside(k)
    \/ \E m \in Modules : \/ \E f \in Fields : Subscribe(m, f)
                          \/ \E i \in DOMAIN subs : Unsubscribe(m, i)
                          \/ Unload(m)
    \/ ReapSubscriptions

DispatchNext == Proceed \/ Plugins

DispatchSpec == DispatchInit /\ [][DispatchNext]_dispatchVars

\* Callbacks end, by returning or by faulting, and Dispatch goes on.
DispatchFairSpec == DispatchSpec /\ WF_dispatchVars(Proceed)
-----------------------------------------------------------------------------
(* Properties.                                                             *)

Subscription == [field : Fields, module : Modules, live : BOOLEAN]

DispatchTypeOK ==
    /\ subs \in Seq(Subscription)
    /\ pending \in Seq(Keys) /\ batch \in Seq(Keys)
    /\ current \in Keys \cup {NoKey}
    /\ targets \subseteq DOMAIN subs
    /\ callee \in {NoSub} \cup DOMAIN subs
    /\ round \in 0..MaxRounds
    /\ mapped \subseteq Modules
    /\ owed \subseteq (DOMAIN subs) \X Keys

\* No change is forgotten: a live subscriber that was not called since the
\* last change of a key it subscribed to is still ahead, in the snapshot, in
\* this round or in the next.  When the outermost write returns nobody is owed
\* a call but those whose events were shed and counted.
OwedIsScheduled ==
    \A p \in owed : \/ p[2] = current /\ p[1] \in targets
                    \/ p[2] \in ToSet(batch)
                    \/ p[2] \in ToSet(pending)

\* A subscription that was unsubscribed, reaped or dropped after a fault, even
\* in the middle of a dispatch that still lists it, is not called again.
DeadAreNotCalled ==
    [][callee' \notin {NoSub, callee} =>
          /\ subs[callee'].live
          /\ subs[callee'].field = current[1]]_dispatchVars

\* "one delivery per (field, aircraft) per round, so a cycle costs a bounded
\* number of extra calls rather than an avalanche" (QueuePending).
CallsAreBounded ==
    ~Idle => \A p \in DOMAIN calls : calls[p] <= 1 + round

\* The publisher's call returns, whatever subscribers write to one another,
\* as long as each single callback ends.
WritesReturn == ~Idle ~> Idle
=============================================================================
