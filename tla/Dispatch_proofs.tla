----------------------------- MODULE Dispatch_proofs -----------------------------
(***************************************************************************)
(* Proofs about Dispatch for any keys, modules, number of rounds and       *)
(* number of subscriptions.                                                *)
(*                                                                         *)
(* OwedIsScheduled is carried by facts about the rest of the state: what   *)
(* is owed is owed to live subscribers of the key's field, and nothing is  *)
(* left over once the outermost write returned.  CallsAreBounded needs the *)
(* keys of a round to be different from each other, which coalescing gives *)
(* and a call counts at most once per round and key.                       *)
(***************************************************************************)
EXTENDS Dispatch, SequenceTheorems, TLAPS

\* Nothing is left over between two writes.
QuietWhenIdle ==
    Idle => /\ targets = {} /\ callee = NoSub /\ round = 0
            /\ batch = <<>> /\ pending = <<>>

\* Only live subscribers are owed a call, and for keys of their field.
OwedToSubscribers ==
    \A p \in owed : subs[p[1]].live /\ subs[p[1]].field = p[2][1]

\* The snapshot lists subscriptions of the field that is dispatched.
TargetsSubscribe == ~Idle => \A i \in targets : subs[i].field = current[1]

NoRepeats(q) == \A i, j \in DOMAIN q : q[i] = q[j] => i = j

\* A key is dispatched at most once in a round.
RoundsCoalesce ==
    /\ NoRepeats(pending) /\ NoRepeats(batch)
    /\ current \notin ToSet(batch)

CallsTypeOK == ~Idle => calls \in [(1..MaxSubs) \X Keys -> Nat]

\* What this round has still to call has not been called in it.
CallsAhead ==
    ~Idle => /\ \A i \in targets : calls[<<i, current>>] <= round
             /\ \A k \in ToSet(batch), i \in 1..MaxSubs : calls[<<i, k>>] <= round

SubsBounded == Len(subs) <= MaxSubs

DispatchInv ==
    /\ DispatchTypeOK /\ SubsBounded
    /\ QuietWhenIdle
    /\ OwedToSubscribers /\ TargetsSubscribe /\ OwedIsScheduled
    /\ RoundsCoalesce /\ CallsTypeOK /\ CallsAhead /\ CallsAreBounded
-----------------------------------------------------------------------------
(* Queues.                                                                 *)

LEMMA AppendQueue ==
  ASSUME NEW S, NEW q \in Seq(S), NEW x \in S
  PROVE  /\ Append(q, x) \in Seq(S)
         /\ ToSet(Append(q, x)) = ToSet(q) \cup {x}
         /\ NoRepeats(q) /\ x \notin ToSet(q) => NoRepeats(Append(q, x))
<1>1. /\ Append(q, x) \in Seq(S) /\ Len(q) \in Nat
      /\ DOMAIN q = 1..Len(q)
      /\ DOMAIN Append(q, x) = 1..(Len(q) + 1)
      /\ Append(q, x)[Len(q) + 1] = x
      /\ \A i \in 1..Len(q) : Append(q, x)[i] = q[i]
  OBVIOUS
<1> QED BY <1>1 DEF ToSet, NoRepeats

LEMMA TakeQueue ==
  ASSUME NEW S, NEW q \in Seq(S), q # <<>>
  PROVE  /\ Head(q) \in S /\ Tail(q) \in Seq(S)
         /\ ToSet(q) = {Head(q)} \cup ToSet(Tail(q))
         /\ NoRepeats(q) => NoRepeats(Tail(q)) /\ Head(q) \notin ToSet(Tail(q))
<1>1. /\ Len(q) \in Nat /\ Len(q) >= 1 /\ DOMAIN q = 1..Len(q)
      /\ Head(q) = q[1] /\ Head(q) \in S
      /\ Tail(q) \in Seq(S) /\ DOMAIN Tail(q) = 1..(Len(q) - 1)
      /\ \A i \in 1..(Len(q) - 1) : Tail(q)[i] = q[i + 1]
  OBVIOUS
<1>2. \A i \in 1..Len(q) : i = 1 \/ (i - 1 \in 1..(Len(q) - 1) /\ q[i] = Tail(q)[i - 1])
  BY <1>1
<1>3. ToSet(q) = {Head(q)} \cup ToSet(Tail(q))
  <2>1. ASSUME NEW x \in ToSet(q) PROVE x \in {Head(q)} \cup ToSet(Tail(q))
    <3>1. PICK i \in 1..Len(q) : x = q[i]
      BY <1>1, <2>1 DEF ToSet
    <3> QED BY <1>1, <1>2, <3>1 DEF ToSet
  <2>2. ASSUME NEW x \in {Head(q)} \cup ToSet(Tail(q)) PROVE x \in ToSet(q)
    <3>1. CASE x = Head(q)
      BY <1>1, <3>1 DEF ToSet
    <3>2. CASE x \in ToSet(Tail(q))
      <4>1. PICK i \in 1..(Len(q) - 1) : x = q[i + 1]
        BY <1>1, <3>2 DEF ToSet
      <4>2. i + 1 \in 1..Len(q)
        BY <1>1
      <4> QED BY <1>1, <4>1, <4>2 DEF ToSet
    <3> QED BY <2>2, <3>1, <3>2
  <2> QED BY <2>1, <2>2
<1>4. ASSUME NoRepeats(q)
      PROVE  NoRepeats(Tail(q)) /\ Head(q) \notin ToSet(Tail(q))
  BY <1>1, <1>4 DEF ToSet, NoRepeats
<1> QED BY <1>1, <1>3, <1>4

LEMMA EmptyQueue == /\ ToSet(<<>>) = {} /\ NoRepeats(<<>>)
                    /\ \A S : <<>> \in Seq(S)
  BY DEF ToSet, NoRepeats
-----------------------------------------------------------------------------
(* Every step preserves the invariant.                                     *)

LEMMA DispatchInit_Inv == DispatchInit => DispatchInv
<1> SUFFICES ASSUME DispatchInit PROVE DispatchInv
  OBVIOUS
<1>1. DispatchTypeOK /\ SubsBounded
  BY DispatchAssumption DEF DispatchInit, DispatchTypeOK, SubsBounded
<1>2. /\ QuietWhenIdle /\ OwedToSubscribers /\ TargetsSubscribe
      /\ OwedIsScheduled /\ CallsTypeOK /\ CallsAhead /\ CallsAreBounded
  BY DEF DispatchInit, QuietWhenIdle, OwedToSubscribers, TargetsSubscribe,
         OwedIsScheduled, CallsTypeOK, CallsAhead, CallsAreBounded, Idle
<1>3. RoundsCoalesce
  BY EmptyQueue DEF DispatchInit, RoundsCoalesce
<1> QED BY <1>1, <1>2, <1>3 DEF DispatchInv

LEMMA SubsInRange ==
  DispatchInv => /\ Len(subs) \in Nat /\ DOMAIN subs = 1..Len(subs)
                 /\ DOMAIN subs \subseteq 1..MaxSubs
<1> SUFFICES ASSUME DispatchInv
             PROVE  /\ Len(subs) \in Nat /\ DOMAIN subs = 1..Len(subs)
                    /\ DOMAIN subs \subseteq 1..MaxSubs
  OBVIOUS
<1>1. subs \in Seq(Subscription) /\ Len(subs) <= MaxSubs /\ MaxSubs \in Nat
  BY DispatchAssumption DEF DispatchInv, DispatchTypeOK, SubsBounded
<1>2. Len(subs) \in Nat /\ DOMAIN subs = 1..Len(subs)
  BY <1>1
<1> QED BY <1>1, <1>2

LEMMA Write_Inv ==
  ASSUME DispatchInv, NEW k \in Keys, Write(k)
  PROVE  DispatchInv'
<1>1. /\ current = NoKey /\ current' = k /\ k # NoKey
      /\ targets' = SubsByField(k[1]) /\ targets' \subseteq DOMAIN subs
      /\ calls' = NoCalls
      /\ subs' = subs /\ pending' = <<>> /\ callee' = NoSub /\ batch' = <<>>
      /\ round' = 0 /\ mapped' = mapped /\ round = 0 /\ pending = <<>> /\ batch = <<>>
      /\ owed' = owed \cup {<<i, k>> : i \in {j \in DOMAIN subs :
                                    subs[j].live /\ subs[j].field = k[1]}}
  BY DispatchAssumption DEF Write, Owe, Idle, SubsByField, DispatchInv, QuietWhenIdle
<1>2. owed = {}
  BY <1>1, EmptyQueue DEF DispatchInv, OwedIsScheduled, QuietWhenIdle, Idle
<1>3. calls' \in [(1..MaxSubs) \X Keys -> Nat] /\ \A p \in DOMAIN calls' : calls'[p] = 0
  BY <1>1 DEF NoCalls
<1>4. DispatchTypeOK' /\ SubsBounded'
  BY <1>1, <1>2 DEF DispatchInv, DispatchTypeOK, SubsBounded
<1>5. QuietWhenIdle' /\ TargetsSubscribe' /\ OwedToSubscribers' /\ OwedIsScheduled'
  BY <1>1, <1>2 DEF QuietWhenIdle, TargetsSubscribe, OwedToSubscribers,
         OwedIsScheduled, Idle, SubsByField
<1>6. RoundsCoalesce'
  BY <1>1, EmptyQueue DEF RoundsCoalesce
<1>7. CallsTypeOK' /\ CallsAreBounded'
  BY <1>1, <1>3 DEF CallsTypeOK, CallsAreBounded
<1>8. CallsAhead'
  <2>1. targets' \subseteq 1..MaxSubs
    BY <1>1, SubsInRange
  <2>2. \A i \in targets' : calls'[<<i, k>>] = 0
    BY <1>3, <2>1
  <2> QED BY <1>1, <2>2, EmptyQueue DEF CallsAhead
<1> QED BY <1>4, <1>5, <1>6, <1>7, <1>8 DEF DispatchInv

LEMMA WriteInside_Inv ==
  ASSUME DispatchInv, NEW k \in Keys, WriteInside(k)
  PROVE  DispatchInv'
<1>1. /\ current # NoKey
      /\ subs' = subs /\ callee' = callee /\ mapped' = mapped /\ calls' = calls
      /\ current' = current /\ targets' = targets /\ batch' = batch /\ round' = round
      /\ owed' = owed \cup {<<i, k>> : i \in {j \in DOMAIN subs :
                                    subs[j].live /\ subs[j].field = k[1]}}
  BY DEF WriteInside, Owe, Running, Idle, controlVars, DispatchInv, QuietWhenIdle
<1>2. /\ pending' \in Seq(Keys) /\ NoRepeats(pending')
      /\ ToSet(pending') = ToSet(pending) \cup {k}
  <2>1. CASE k \in ToSet(pending)
    BY <2>1 DEF WriteInside, QueuePending, DispatchInv, DispatchTypeOK, RoundsCoalesce
  <2>2. CASE k \notin ToSet(pending)
    <3>1. pending' = Append(pending, k) /\ pending \in Seq(Keys) /\ NoRepeats(pending)
      BY <2>2 DEF WriteInside, QueuePending, DispatchInv, DispatchTypeOK, RoundsCoalesce
    <3> QED BY <2>2, <3>1, AppendQueue
  <2> QED BY <2>1, <2>2
<1>3. DispatchTypeOK' /\ SubsBounded'
  BY <1>1, <1>2 DEF DispatchInv, DispatchTypeOK, SubsBounded
<1>4. QuietWhenIdle' /\ TargetsSubscribe' /\ OwedToSubscribers'
  BY <1>1 DEF DispatchInv, QuietWhenIdle, TargetsSubscribe, OwedToSubscribers, Idle
<1>5. OwedIsScheduled'
  BY <1>1, <1>2 DEF DispatchInv, OwedIsScheduled
<1>6. RoundsCoalesce' /\ CallsTypeOK' /\ CallsAreBounded' /\ CallsAhead'
  BY <1>1, <1>2 DEF DispatchInv, RoundsCoalesce, CallsTypeOK, CallsAreBounded,
         CallsAhead, Idle
<1> QED BY <1>3, <1>4, <1>5, <1>6 DEF DispatchInv

LEMMA Deliver_Inv == ASSUME DispatchInv, Deliver PROVE DispatchInv'
<1>1. /\ current # NoKey /\ current \in Keys
      /\ subs' = subs /\ pending' = pending /\ current' = current
      /\ batch' = batch /\ round' = round /\ mapped' = mapped
  BY DEF Deliver, Idle, DispatchInv, DispatchTypeOK
<1>2. PICK i \in targets :
         /\ targets' = targets \ {i}
         /\ IF Callable(i)
            THEN /\ callee' = i
                 /\ owed' = owed \ {<<i, current>>}
                 /\ calls' = [calls EXCEPT ![<<i, current>>] =
                                  IF @ < CallCap THEN @ + 1 ELSE @]
            ELSE UNCHANGED <<callee, owed, calls>>
  BY DEF Deliver
<1>3. i \in DOMAIN subs /\ i \in 1..MaxSubs /\ <<i, current>> \in (1..MaxSubs) \X Keys
  BY <1>1, <1>2, SubsInRange DEF DispatchInv, DispatchTypeOK
<1>4. owed' = owed \ {<<i, current>>}
  BY <1>2 DEF Callable, DispatchInv, OwedToSubscribers
<1>5. /\ calls' \in [(1..MaxSubs) \X Keys -> Nat]
      /\ \A p \in (1..MaxSubs) \X Keys :
            /\ p # <<i, current>> => calls'[p] = calls[p]
            /\ calls'[<<i, current>>] <= calls[<<i, current>>] + 1
  <2>1. calls \in [(1..MaxSubs) \X Keys -> Nat]
    BY <1>1 DEF DispatchInv, CallsTypeOK, Idle
  <2>2. CASE calls' = calls
    BY <1>3, <2>1, <2>2
  <2>3. CASE calls' = [calls EXCEPT ![<<i, current>>] = @ + 1]
    BY <1>3, <2>1, <2>3
  <2> QED BY <1>2, <1>3, <2>1, <2>2, <2>3
<1>6. DispatchTypeOK' /\ SubsBounded'
  BY <1>1, <1>2, <1>3, <1>4 DEF DispatchInv, DispatchTypeOK, SubsBounded
<1>7. QuietWhenIdle' /\ TargetsSubscribe' /\ OwedToSubscribers'
  BY <1>1, <1>2, <1>4 DEF DispatchInv, QuietWhenIdle, TargetsSubscribe,
         OwedToSubscribers, Idle
<1>8. OwedIsScheduled'
  BY <1>1, <1>2, <1>4 DEF DispatchInv, OwedIsScheduled, DispatchTypeOK
<1>9. RoundsCoalesce' /\ CallsTypeOK'
  BY <1>1, <1>5 DEF DispatchInv, RoundsCoalesce, CallsTypeOK
<1>10. CallsAhead'
  <2>1. \A j \in targets' : calls'[<<j, current>>] <= round
    <3>1. targets \subseteq 1..MaxSubs
      BY SubsInRange DEF DispatchInv, DispatchTypeOK
    <3>2. \A j \in targets : calls[<<j, current>>] <= round
      BY <1>1 DEF DispatchInv, CallsAhead, Idle
    <3>3. \A j \in targets' : calls'[<<j, current>>] = calls[<<j, current>>]
      BY <1>1, <1>2, <1>5, <3>1
    <3> QED BY <1>2, <3>2, <3>3
  <2>2. \A k \in ToSet(batch), j \in 1..MaxSubs : calls'[<<j, k>>] <= round
    <3>1. ToSet(batch) \subseteq Keys
      BY DEF DispatchInv, DispatchTypeOK, ToSet
    <3> QED BY <1>1, <1>5, <3>1 DEF DispatchInv, CallsAhead, RoundsCoalesce, Idle
  <2> QED BY <1>1, <2>1, <2>2 DEF CallsAhead
<1>11. CallsAreBounded'
  <2>1. calls[<<i, current>>] <= round /\ calls[<<i, current>>] \in Nat /\ round \in Nat
    BY <1>1, <1>2, <1>3 DEF DispatchInv, CallsAhead, CallsTypeOK, DispatchTypeOK, Idle
  <2>2. calls'[<<i, current>>] <= 1 + round
    BY <1>3, <1>5, <2>1
  <2>3. \A p \in (1..MaxSubs) \X Keys : calls[p] <= 1 + round
    BY <1>1 DEF DispatchInv, CallsAreBounded, CallsTypeOK, Idle
  <2> QED BY <1>1, <1>5, <2>2, <2>3 DEF CallsAreBounded
<1> QED BY <1>6, <1>7, <1>8, <1>9, <1>10, <1>11 DEF DispatchInv

LEMMA Return_Inv == DispatchInv /\ Return => DispatchInv'
  BY DEF Return, controlVars, DispatchInv, DispatchTypeOK, SubsBounded,
         QuietWhenIdle, OwedToSubscribers, TargetsSubscribe, OwedIsScheduled,
         RoundsCoalesce, CallsTypeOK, CallsAhead, CallsAreBounded, Idle, Running

LEMMA Dying_Inv ==
  ASSUME DispatchInv, NEW S, Dying(S),
         callee' \in {callee, NoSub}, Idle => callee' = NoSub,
         UNCHANGED <<pending, controlVars, calls>>, mapped' = mapped
  PROVE  DispatchInv'
<1>1. /\ DOMAIN subs' = DOMAIN subs
      /\ \A i \in DOMAIN subs : /\ subs'[i].field = subs[i].field
                                /\ i \notin S => subs'[i] = subs[i]
  <2>1. \A i \in DOMAIN subs : subs[i] \in Subscription
    BY DEF DispatchInv, DispatchTypeOK
  <2> QED BY <2>1 DEF Dying, Subscription
<1>2. subs' \in Seq(Subscription) /\ Len(subs') = Len(subs)
  <2> DEFINE n == Len(subs)
             f(i) == IF i \in S THEN [subs[i] EXCEPT !.live = FALSE] ELSE subs[i]
  <2>1. n \in Nat /\ subs' = [i \in 1..n |-> f(i)]
    BY SubsInRange DEF Dying
  <2>2. \A i \in 1..n : f(i) \in Subscription
    <3>1. \A i \in 1..n : subs[i] \in Subscription
      BY SubsInRange DEF DispatchInv, DispatchTypeOK
    <3> QED BY <3>1 DEF Subscription
  <2> HIDE DEF n, f
  <2>3. [i \in 1..n |-> f(i)] \in Seq(Subscription)
    BY <2>1, <2>2
  <2>4. Len(subs') = n
    BY <2>1, <2>3
  <2> QED BY <2>1, <2>3, <2>4 DEF n
<1>3. owed' \subseteq owed /\ \A p \in owed' : p[1] \notin S
  BY DEF Dying
<1>4. DispatchTypeOK' /\ SubsBounded'
  BY <1>1, <1>2, <1>3 DEF DispatchInv, DispatchTypeOK, SubsBounded, controlVars
<1>5. QuietWhenIdle' /\ OwedIsScheduled'
  BY <1>3 DEF DispatchInv, QuietWhenIdle, OwedIsScheduled, Idle, controlVars
<1>6. OwedToSubscribers' /\ TargetsSubscribe'
  <2>1. targets \subseteq DOMAIN subs /\ \A p \in owed : p[1] \in DOMAIN subs
    BY DEF DispatchInv, DispatchTypeOK
  <2>2. ASSUME NEW p \in owed'
        PROVE  subs'[p[1]].live /\ subs'[p[1]].field = p[2][1]
    <3>1. p \in owed /\ p[1] \notin S /\ p[1] \in DOMAIN subs
      BY <1>3, <2>1
    <3>2. subs'[p[1]] = subs[p[1]]
      BY <1>1, <3>1
    <3> QED BY <3>1, <3>2 DEF DispatchInv, OwedToSubscribers
  <2>3. ASSUME ~Idle', NEW i \in targets'
        PROVE  subs'[i].field = current'[1]
    <3>1. current' = current /\ current # NoKey /\ i \in targets /\ i \in DOMAIN subs
      BY <2>1, <2>3 DEF controlVars, Idle
    <3>2. subs'[i].field = subs[i].field
      BY <1>1, <3>1
    <3> QED BY <3>1, <3>2 DEF DispatchInv, TargetsSubscribe, Idle
  <2> QED BY <2>2, <2>3 DEF OwedToSubscribers, TargetsSubscribe
<1>7. RoundsCoalesce' /\ CallsTypeOK' /\ CallsAreBounded' /\ CallsAhead'
  BY DEF DispatchInv, RoundsCoalesce, CallsTypeOK, CallsAreBounded,
         CallsAhead, Idle, controlVars
<1> QED BY <1>4, <1>5, <1>6, <1>7 DEF DispatchInv

\* The next key of a round is dispatched: the rest of q is the rest of the round.
LEMMA StartEvent_Inv ==
  ASSUME DispatchInv, Finished, NEW q, q # <<>>, StartEvent(q),
         q \in Seq(Keys), NoRepeats(q), NoRepeats(pending'),
         pending' \in Seq(Keys),
         round' \in 0..MaxRounds,
         \A k \in ToSet(q), i \in 1..MaxSubs : calls[<<i, k>>] <= round',
         round <= round',
         ToSet(batch) \cup ToSet(pending) \subseteq ToSet(q) \cup ToSet(pending'),
         UNCHANGED <<subs, callee, mapped, owed, calls>>
  PROVE  DispatchInv'
<1>1. /\ current # NoKey /\ targets = {} /\ callee = NoSub
      /\ current' = Head(q) /\ batch' = Tail(q) /\ targets' = SubsByField(Head(q)[1])
      /\ targets' \subseteq DOMAIN subs
  BY DEF Finished, StartEvent, Idle, Running, SubsByField
<1>2. /\ Head(q) \in Keys /\ Head(q) # NoKey /\ Tail(q) \in Seq(Keys)
      /\ ToSet(q) = {Head(q)} \cup ToSet(Tail(q))
      /\ NoRepeats(Tail(q)) /\ Head(q) \notin ToSet(Tail(q))
  BY TakeQueue, DispatchAssumption
<1>3. DispatchTypeOK' /\ SubsBounded'
  BY <1>1, <1>2 DEF DispatchInv, DispatchTypeOK, SubsBounded
<1>4. QuietWhenIdle' /\ TargetsSubscribe' /\ OwedToSubscribers'
  BY <1>1, <1>2 DEF DispatchInv, QuietWhenIdle, TargetsSubscribe,
         OwedToSubscribers, SubsByField, Idle
<1>5. OwedIsScheduled'
  <2> SUFFICES ASSUME NEW p \in owed
               PROVE  \/ p[2] = current' /\ p[1] \in targets'
                      \/ p[2] \in ToSet(batch') \/ p[2] \in ToSet(pending')
    BY DEF OwedIsScheduled
  <2>1. p[2] \in ToSet(q) \cup ToSet(pending')
    BY <1>1 DEF DispatchInv, OwedIsScheduled
  <2>2. CASE p[2] = Head(q)
    BY <1>1, <2>2 DEF DispatchInv, DispatchTypeOK, OwedToSubscribers, SubsByField
  <2> QED BY <1>1, <1>2, <2>1, <2>2
<1>6. RoundsCoalesce' /\ CallsTypeOK'
  BY <1>1, <1>2 DEF DispatchInv, RoundsCoalesce, CallsTypeOK, Idle
<1>7. CallsAhead'
  <2>1. targets' \subseteq 1..MaxSubs
    BY <1>1, SubsInRange
  <2> QED BY <1>1, <1>2, <2>1 DEF CallsAhead
<1>8. CallsAreBounded'
  BY <1>1, <1>2 DEF DispatchInv, CallsAreBounded, CallsTypeOK, DispatchTypeOK, Idle
<1> QED BY <1>3, <1>4, <1>5, <1>6, <1>7, <1>8 DEF DispatchInv

LEMMA NextInRound_Inv == ASSUME DispatchInv, NextInRound PROVE DispatchInv'
<1>1. /\ Finished /\ batch # <<>> /\ StartEvent(batch)
      /\ pending' = pending /\ round' = round
      /\ UNCHANGED <<subs, callee, mapped, owed, calls>>
  BY DEF NextInRound
<1>2. /\ batch \in Seq(Keys) /\ pending' \in Seq(Keys) /\ round' \in 0..MaxRounds
      /\ NoRepeats(batch) /\ NoRepeats(pending')
      /\ \A k \in ToSet(batch), i \in 1..MaxSubs : calls[<<i, k>>] <= round'
      /\ round <= round'
  BY <1>1 DEF DispatchInv, DispatchTypeOK, RoundsCoalesce, CallsAhead, Finished
<1> QED BY <1>1, <1>2, StartEvent_Inv

LEMMA NextRound_Inv == ASSUME DispatchInv, NextRound PROVE DispatchInv'
<1>1. /\ Finished /\ batch = <<>> /\ pending # <<>> /\ StartEvent(pending)
      /\ pending' = <<>> /\ round < MaxRounds /\ round' = round + 1
      /\ UNCHANGED <<subs, callee, mapped, owed, calls>>
  BY DEF NextRound
<1>2. /\ pending \in Seq(Keys) /\ pending' \in Seq(Keys)
      /\ round \in 0..MaxRounds /\ round' \in 0..MaxRounds /\ round <= round'
      /\ NoRepeats(pending) /\ NoRepeats(pending') /\ ToSet(batch) = {}
  BY <1>1, EmptyQueue, DispatchAssumption DEF DispatchInv, DispatchTypeOK, RoundsCoalesce
<1>3. \A k \in ToSet(pending), i \in 1..MaxSubs : calls[<<i, k>>] <= round'
  <2>1. ToSet(pending) \subseteq Keys
    BY <1>2 DEF ToSet
  <2>2. \A p \in (1..MaxSubs) \X Keys : calls[p] <= 1 + round
    BY <1>1 DEF DispatchInv, CallsAreBounded, CallsTypeOK, Finished
  <2> QED BY <1>1, <1>2, <2>1, <2>2
<1> QED BY <1>1, <1>2, <1>3, StartEvent_Inv

\* The outermost write returns.
LEMMA Ends_Inv ==
  ASSUME DispatchInv, Finished, batch = <<>>, current' = NoKey, round' = 0,
         pending' = <<>>, owed' = {p \in owed : p[2] \notin ToSet(pending)},
         UNCHANGED <<subs, targets, callee, batch, mapped>>
  PROVE  DispatchInv'
<1>1. targets = {} /\ callee = NoSub /\ ToSet(batch) = {} /\ ToSet(<<>>) = {}
      /\ NoRepeats(<<>>)
  BY EmptyQueue DEF Finished, Running
<1>2. owed' = {}
  BY <1>1 DEF DispatchInv, OwedIsScheduled
<1>3. DispatchTypeOK' /\ SubsBounded'
  BY <1>2, DispatchAssumption DEF DispatchInv, DispatchTypeOK, SubsBounded
<1>4. /\ QuietWhenIdle' /\ TargetsSubscribe' /\ OwedToSubscribers'
      /\ OwedIsScheduled' /\ CallsTypeOK' /\ CallsAhead' /\ CallsAreBounded'
  BY <1>1, <1>2 DEF QuietWhenIdle, TargetsSubscribe, OwedToSubscribers,
         OwedIsScheduled, CallsTypeOK, CallsAhead, CallsAreBounded, Idle
<1>5. RoundsCoalesce'
  BY <1>1 DEF RoundsCoalesce
<1> QED BY <1>3, <1>4, <1>5 DEF DispatchInv

LEMMA Subscribe_Inv ==
  ASSUME DispatchInv, NEW m \in Modules, NEW f \in Fields, Subscribe(m, f)
  PROVE  DispatchInv'
<1> DEFINE s == [field |-> f, module |-> m, live |-> TRUE]
<1>1. /\ subs \in Seq(Subscription) /\ s \in Subscription /\ Len(subs) < MaxSubs
      /\ subs' = Append(subs, s)
      /\ UNCHANGED <<pending, callee, controlVars, mapped, owed, calls>>
  BY DEF Subscribe, DispatchInv, DispatchTypeOK, Subscription
<1>2. /\ subs' \in Seq(Subscription) /\ Len(subs') = Len(subs) + 1
      /\ DOMAIN subs = 1..Len(subs) /\ DOMAIN subs' = 1..(Len(subs) + 1)
      /\ \A i \in DOMAIN subs : subs'[i] = subs[i]
      /\ Len(subs) \in Nat
  BY <1>1
<1> HIDE DEF s
<1>3. DispatchTypeOK' /\ SubsBounded'
  BY <1>1, <1>2, DispatchAssumption DEF DispatchInv, DispatchTypeOK, SubsBounded, controlVars
<1>4. QuietWhenIdle' /\ TargetsSubscribe' /\ OwedToSubscribers' /\ OwedIsScheduled'
  BY <1>1, <1>2 DEF DispatchInv, QuietWhenIdle, TargetsSubscribe, DispatchTypeOK,
         OwedToSubscribers, OwedIsScheduled, Idle, controlVars
<1>5. RoundsCoalesce' /\ CallsTypeOK' /\ CallsAreBounded' /\ CallsAhead'
  BY <1>1 DEF DispatchInv, RoundsCoalesce, CallsTypeOK, CallsAreBounded,
         CallsAhead, Idle, controlVars
<1> QED BY <1>3, <1>4, <1>5 DEF DispatchInv

LEMMA Unload_Inv ==
  ASSUME DispatchInv, mapped' \subseteq mapped,
         UNCHANGED <<subs, pending, callee, controlVars, owed, calls>>
  PROVE  DispatchInv'
  BY DEF controlVars, DispatchInv, DispatchTypeOK, SubsBounded,
         QuietWhenIdle, OwedToSubscribers, TargetsSubscribe, OwedIsScheduled,
         RoundsCoalesce, CallsTypeOK, CallsAhead, CallsAreBounded, Idle

LEMMA Step_Inv == DispatchInv /\ [DispatchNext]_dispatchVars => DispatchInv'
<1> SUFFICES ASSUME DispatchInv, [DispatchNext]_dispatchVars PROVE DispatchInv'
  OBVIOUS
<1>1. CASE Deliver
  BY <1>1, Deliver_Inv
<1>2. CASE Return
  BY <1>2, Return_Inv
<1>3. CASE Fault
  BY <1>3, Dying_Inv DEF Fault
<1>4. CASE NextInRound
  BY <1>4, NextInRound_Inv
<1>5. CASE NextRound
  BY <1>5, NextRound_Inv
<1>6. CASE Shed
  BY <1>6, Ends_Inv DEF Shed
<1>7. CASE Unwind
  <2>1. owed = {p \in owed : p[2] \notin ToSet(pending)}
    BY <1>7, EmptyQueue DEF Unwind
  <2> QED BY <1>7, <2>1, Ends_Inv DEF Unwind
<1>8. ASSUME NEW k \in Keys, Write(k) \/ WriteInside(k) PROVE DispatchInv'
  BY <1>8, Write_Inv, WriteInside_Inv
<1>9. ASSUME NEW m \in Modules, NEW f \in Fields, Subscribe(m, f) PROVE DispatchInv'
  BY <1>9, Subscribe_Inv
<1>10. ASSUME NEW m \in Modules, NEW i \in DOMAIN subs, Unsubscribe(m, i)
       PROVE  DispatchInv'
  BY <1>10, Dying_Inv DEF Unsubscribe, DispatchInv, QuietWhenIdle
<1>11. ASSUME NEW m \in Modules, Unload(m) PROVE DispatchInv'
  BY <1>11, Unload_Inv DEF Unload
<1>12. CASE ReapSubscriptions
  BY <1>12, Dying_Inv DEF ReapSubscriptions, DispatchInv, QuietWhenIdle
<1>13. CASE UNCHANGED dispatchVars
  BY <1>13, Unload_Inv DEF dispatchVars, controlVars
<1> QED BY <1>1, <1>2, <1>3, <1>4, <1>5, <1>6, <1>7, <1>8, <1>9, <1>10, <1>11,
           <1>12, <1>13 DEF DispatchNext, Proceed, Plugins

\* Whatever callbacks do to one another, the bookkeeping of a dispatch stays
\* consistent: this is the inductive invariant the theorems below rest on.
THEOREM DispatchInvariant == DispatchSpec => []DispatchInv
  BY DispatchInit_Inv, Step_Inv, PTL DEF DispatchSpec
-----------------------------------------------------------------------------
\* Subscriptions, queues, the snapshot and the running callback keep their
\* types, and the number of rounds never passes kMaxDispatchRounds.
THEOREM DispatchTypeCorrect == DispatchSpec => []DispatchTypeOK
<1>1. DispatchInv => DispatchTypeOK
  BY DEF DispatchInv
<1> QED BY <1>1, DispatchInvariant, PTL

\* No change is forgotten: what a live subscriber is owed is in the snapshot,
\* in the round or in the queue, and nothing is owed when the write returns.
THEOREM ChangesAreDelivered == DispatchSpec => []OwedIsScheduled
<1>1. DispatchInv => OwedIsScheduled
  BY DEF DispatchInv
<1> QED BY <1>1, DispatchInvariant, PTL

\* A cycle of subscribers costs at most one call per pair and round.
THEOREM CyclesAreBounded == DispatchSpec => []CallsAreBounded
<1>1. DispatchInv => CallsAreBounded
  BY DEF DispatchInv
<1> QED BY <1>1, DispatchInvariant, PTL

\* No step calls a subscription that is dead or of another field, whatever the
\* snapshot lists.
THEOREM DeadStaySilent == DispatchSpec => DeadAreNotCalled
<1> DEFINE Silent == callee' \notin {NoSub, callee} =>
                        subs[callee'].live /\ subs[callee'].field = current[1]
<1>1. DispatchInv /\ [DispatchNext]_dispatchVars => [Silent]_dispatchVars
  <2> SUFFICES ASSUME DispatchInv, DispatchNext, callee' # NoSub, callee' # callee
               PROVE  subs[callee'].live /\ subs[callee'].field = current[1]
    BY DEF dispatchVars
  <2>1. Deliver
    BY DEF DispatchNext, Proceed, Plugins, Return, Fault, NextInRound, NextRound,
           Shed, Unwind, Write, WriteInside, Subscribe, Unsubscribe, Unload,
           ReapSubscriptions
  <2> QED BY <2>1 DEF Deliver, Callable, DispatchInv, TargetsSubscribe
<1> QED BY <1>1, DispatchInvariant, PTL DEF DispatchSpec, DeadAreNotCalled
=============================================================================
