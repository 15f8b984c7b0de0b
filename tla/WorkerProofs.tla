---------------------------- MODULE WorkerProofs ----------------------------
(***************************************************************************)
(* Proofs about the worker: Notification on its own and as RiskEngine uses *)
(* it, for any callers, keys, channels, rules, cooldown and bounds.        *)
(***************************************************************************)
EXTENDS RiskEngine, TLAPS

-----------------------------------------------------------------------------
(* The notification service.                                               *)

\* A caller of the service hands it some notifications; the risk engine's audit log
\* may count a failure at the same time.
HandOver(c, J) ==
    /\ Idle(c)
    /\ job' = [job EXCEPT ![c] = J]
    /\ UNCHANGED <<now, lastSent, npc, cur, persisted, delivered, suppressed>>

TimePasses == now' = now + 1 /\ UNCHANGED notifyVars

NothingHappens == UNCHANGED <<now, lastSent, npc, cur, job, persisted, delivered>>

\* What any step of the worker does to the service.
ServiceStep ==
    \/ \E c \in Caller : NotifyStep(c)
    \/ \E c \in Caller, J \in SUBSET Note : HandOver(c, J)
    \/ TimePasses
    \/ NothingHappens

LEMMA NoNoteIsNone == NoNote \notin Note
<1>1. \A n \in Note : DOMAIN n = {"key", "subject", "chan"}
  BY DEF Note
<1>2. DOMAIN NoNote = {"key"}
  BY DEF NoNote
<1> QED BY <1>1, <1>2

\* The record a sender leaves.
LEMMA DeliveryType ==
    ASSUME NEW n \in Note, NEW t \in Nat, NEW c \in Caller
    PROVE  LET d == [note |-> n, at |-> t, by |-> c, rec |-> -1]
           IN d \in Delivery /\ d.note = n /\ d.at = t /\ d.by = c /\ d.rec = -1
BY DEF Delivery

\* Recording a delivery changes nothing else about it.
LEMMA RecordedType ==
    ASSUME NEW c \in Caller, now \in Nat, delivered \subseteq Delivery
    PROVE  /\ Recorded(c) \subseteq Delivery
           /\ \A r \in Recorded(c) : \E d \in delivered :
                r.note = d.note /\ r.at = d.at /\ r.by = d.by /\ (d.rec # -1 \/ d.by # c => r = d)
           /\ \A d \in delivered : d.rec # -1 \/ d.by # c => d \in Recorded(c)
           /\ \A d \in delivered : d.rec = -1 /\ d.by = c =>
                \E r \in Recorded(c) : r.note = d.note /\ r.at = d.at /\ r.rec = now
<1>1. ASSUME NEW d \in delivered
      PROVE  LET r == [d EXCEPT !.rec = now]
             IN r \in Delivery /\ r.note = d.note /\ r.at = d.at /\ r.by = d.by /\ r.rec = now
  BY DEF Delivery
<1> QED BY <1>1 DEF Recorded

LEMMA ServiceInit == NotificationInit => NotificationInv
<1> SUFFICES ASSUME NotificationInit PROVE NotificationInv
  OBVIOUS
<1>1. NotificationTypeOK
  BY DEF NotificationInit, NotificationTypeOK
<1> QED
  BY <1>1 DEF NotificationInit, NotificationInv, SavedInHand, DeliveredInHand, PastOnly,
     DeliveryRecorded, ThrottlePassed, PersistFirst, CooldownEarned, SpacedPerCaller

\* Steps that deliver and record nothing: the caller moves on in Notify or returns.
LEMMA CallerMoves ==
    ASSUME NotificationInv, NotificationTypeOK', NEW c \in Caller,
           UNCHANGED <<now, lastSent, delivered>>,
           persisted \subseteq persisted',
           \A b \in Caller : b # c => npc'[b] = npc[b] /\ cur'[b] = cur[b],
           npc'[c] # "record", npc[c] # "record",
           npc'[c] = "send" => cur'[c] \in persisted',
           npc'[c] \in {"save", "send"} =>
               \A d \in delivered : d.by = c /\ d.note.key = cur'[c].key => now - d.at >= Cooldown
    PROVE  NotificationInv'
<1> USE DEF NotificationInv
<1>1. SavedInHand' /\ DeliveredInHand' /\ PastOnly'
  BY DEF SavedInHand, DeliveredInHand, PastOnly
<1>2. DeliveryRecorded'
  <2> SUFFICES ASSUME NEW d \in delivered
               PROVE  lastSent[d.note.key] >= d.at \/ (npc'[d.by] = "record" /\ cur'[d.by].key = d.note.key)
    BY DEF DeliveryRecorded
  <2>1. d.by \in Caller
    BY DEF NotificationTypeOK, Delivery
  <2> QED BY <2>1 DEF DeliveryRecorded
<1>3. ThrottlePassed'
  BY DEF ThrottlePassed
<1>4. PersistFirst' /\ CooldownEarned' /\ SpacedPerCaller'
  BY DEF PersistFirst, CooldownEarned, SpacedPerCaller
<1> QED BY <1>1, <1>2, <1>3, <1>4

\* The throttle lets a caller pass only a cooldown after all it delivered itself.
LEMMA NotifyInv ==
    ASSUME NotificationInv, NEW c \in Caller, NEW n \in job[c], Notify(c, n)
    PROVE  NotificationInv'
<1>1. NotificationTypeOK /\ DeliveryRecorded
  BY DEF NotificationInv
<1>2. n \in Note /\ n.key \in Key
  BY <1>1 DEF NotificationTypeOK, Note
<1>3. NotificationTypeOK'
  BY <1>1, <1>2 DEF Notify, NotificationTypeOK
<1>4. npc[c] = "idle" /\ (npc'[c] = "idle" \/ (npc'[c] = "save" /\ cur'[c] = n /\ ~IsThrottled(n)))
  BY <1>1 DEF Notify, NotificationTypeOK
<1>5. ASSUME ~IsThrottled(n), NEW d \in delivered, d.by = c, d.note.key = n.key
      PROVE  now - d.at >= Cooldown
  <2>1. d.at \in Nat /\ now \in Nat /\ lastSent[n.key] \in Nat \cup {-1} /\ Cooldown \in Nat
    BY <1>1, <1>2, NotificationAssumption DEF NotificationTypeOK, Delivery
  <2>2. lastSent[n.key] >= d.at
    BY <1>1, <1>4, <1>5 DEF DeliveryRecorded
  <2> QED BY <1>5, <2>1, <2>2 DEF IsThrottled
<1>6. \A b \in Caller : b # c => npc'[b] = npc[b] /\ cur'[b] = cur[b]
  BY <1>1 DEF Notify, NotificationTypeOK
<1>7. UNCHANGED <<now, lastSent, delivered, persisted>>
  BY DEF Notify
<1> QED BY <1>3, <1>4, <1>5, <1>6, <1>7, CallerMoves

\* Saving, and every way to give a notification up.
LEMMA SaveInv ==
    ASSUME NotificationInv, NEW c \in Caller,
           Save(c) \/ SaveFails(c) \/ NoSender(c) \/ SendFails(c)
    PROVE  NotificationInv'
<1>1. NotificationTypeOK /\ ThrottlePassed
  BY DEF NotificationInv
<1>2. NotificationTypeOK'
  BY <1>1 DEF NotificationTypeOK, Save, SaveFails, NoSender, SendFails, Return
<1>3. /\ UNCHANGED <<now, lastSent, delivered>> /\ persisted \subseteq persisted'
      /\ npc[c] \in {"save", "send"}
      /\ npc'[c] \in {"idle", "send"}
      /\ npc'[c] = "send" => npc[c] = "save" /\ cur'[c] = cur[c] /\ cur[c] \in persisted'
      /\ \A b \in Caller : b # c => npc'[b] = npc[b] /\ cur'[b] = cur[b]
  BY <1>1 DEF NotificationTypeOK, Save, SaveFails, NoSender, SendFails, Return
<1>4. npc'[c] \in {"save", "send"} =>
        \A d \in delivered : d.by = c /\ d.note.key = cur'[c].key => now - d.at >= Cooldown
  BY <1>1, <1>3 DEF ThrottlePassed
<1> QED BY <1>2, <1>3, <1>4, CallerMoves

\* A delivery is of a stored notification and at least a cooldown after the caller's
\* earlier ones under the key.
LEMMA SendInv ==
    ASSUME NotificationInv, NEW c \in Caller, Send(c)
    PROVE  NotificationInv'
<1> DEFINE new == [note |-> cur[c], at |-> now, by |-> c, rec |-> -1]
<1> USE DEF NotificationInv
<1>1. /\ npc[c] = "send" /\ npc'[c] = "record"
      /\ \A b \in Caller : b # c => npc'[b] = npc[b]
      /\ delivered' = delivered \cup {new}
      /\ UNCHANGED <<now, lastSent, cur, job, persisted>>
  BY DEF Send, NotificationTypeOK
<1>2. /\ now \in Nat /\ cur[c] \in Note /\ Cooldown \in Nat \ {0}
      /\ \A d \in delivered : d.at \in Nat /\ d.by \in Caller /\ d.note \in Note
  BY <1>1, NotificationAssumption DEF NotificationTypeOK, Delivery
<1>3. /\ new \in Delivery
      /\ new.note = cur[c] /\ new.at = now /\ new.by = c /\ new.rec = -1
  BY <1>2, DeliveryType
<1> HIDE DEF new
<1>4. NotificationTypeOK'
  BY <1>1, <1>2, <1>3 DEF NotificationTypeOK, Send
<1>5. SavedInHand' /\ PersistFirst'
  BY <1>1, <1>3 DEF SavedInHand, PersistFirst
<1>6. DeliveredInHand' /\ PastOnly'
  BY <1>1, <1>2, <1>3 DEF DeliveredInHand, PastOnly
<1>7. DeliveryRecorded'
  BY <1>1, <1>2, <1>3 DEF DeliveryRecorded
<1>8. ThrottlePassed'
  BY <1>1, <1>2, <1>3 DEF ThrottlePassed
<1>9. CooldownEarned'
  BY <1>1 DEF CooldownEarned
<1>10. SpacedPerCaller'
  <2>1. ASSUME NEW d \in delivered, d.note.key = new.note.key, d.by = c
        PROVE  now - d.at >= Cooldown /\ ~(now <= d.at)
    BY <1>1, <1>2, <1>3, <2>1 DEF ThrottlePassed
  <2>2. ASSUME NEW d \in delivered', NEW e \in delivered', d # e,
               d.note.key = e.note.key, d.by = e.by, d.at <= e.at
        PROVE  e.at - d.at >= Cooldown
    <3>1. CASE d \in delivered /\ e \in delivered
      BY <2>2, <3>1 DEF SpacedPerCaller
    <3>2. CASE d \in delivered /\ e = new
      BY <2>1, <2>2, <3>2, <1>3
    <3>3. CASE d = new /\ e \in delivered
      BY <2>1, <2>2, <3>3, <1>3
    <3> QED BY <1>1, <2>2, <3>1, <3>2, <3>3
  <2> QED BY <2>2 DEF SpacedPerCaller
<1> QED BY <1>4, <1>5, <1>6, <1>7, <1>8, <1>9, <1>10

\* The record catches up with what the caller delivered.
LEMMA RecordInv ==
    ASSUME NotificationInv, NEW c \in Caller, RecordSent(c)
    PROVE  NotificationInv'
<1> USE DEF NotificationInv
<1>1. /\ npc[c] = "record" /\ npc'[c] = "idle"
      /\ \A b \in Caller : b # c => npc'[b] = npc[b] /\ cur'[b] = cur[b]
      /\ cur[c] \in Note /\ cur[c].key \in Key
      /\ lastSent' = [lastSent EXCEPT ![cur[c].key] = now]
      /\ delivered' = Recorded(c)
      /\ UNCHANGED <<now, job, persisted>>
  BY DEF RecordSent, Return, NotificationTypeOK, Note
<1>2. /\ now \in Nat /\ delivered \subseteq Delivery
      /\ \A d \in delivered : d.at \in Nat /\ d.by \in Caller /\ d.note \in Note /\ d.note.key \in Key
      /\ \A k \in Key : lastSent[k] \in Nat \cup {-1}
  BY DEF NotificationTypeOK, Note, Delivery
<1>3. \A k \in Key : lastSent'[k] = IF k = cur[c].key THEN now ELSE lastSent[k]
  BY <1>1 DEF NotificationTypeOK
<1>r. /\ delivered' \subseteq Delivery
      /\ \A r \in delivered' : \E d \in delivered :
           r.note = d.note /\ r.at = d.at /\ r.by = d.by /\ (d.rec # -1 \/ d.by # c => r = d)
      /\ \A d \in delivered : d.rec # -1 \/ d.by # c => d \in delivered'
      /\ \A d \in delivered : d.rec = -1 /\ d.by = c =>
           \E r \in delivered' : r.note = d.note /\ r.at = d.at /\ r.rec = now
  BY <1>1, <1>2, RecordedType
<1>4. NotificationTypeOK'
  BY <1>1, <1>2, <1>r DEF NotificationTypeOK, RecordSent, Return
<1>5. SavedInHand' /\ PersistFirst'
  BY <1>1, <1>r DEF SavedInHand, PersistFirst
<1>s. SpacedPerCaller'
  <2> SUFFICES ASSUME NEW x \in delivered', NEW y \in delivered', x # y,
                      x.note.key = y.note.key, x.by = y.by, x.at <= y.at
               PROVE  y.at - x.at >= Cooldown
    BY DEF SpacedPerCaller
  <2>1. PICK d \in delivered :
          x = IF d.by = c /\ d.rec = -1 THEN [d EXCEPT !.rec = now] ELSE d
    BY <1>1 DEF Recorded
  <2>2. PICK e \in delivered :
          y = IF e.by = c /\ e.rec = -1 THEN [e EXCEPT !.rec = now] ELSE e
    BY <1>1 DEF Recorded
  <2>3. d # e
    BY <2>1, <2>2
  <2>4. x.note = d.note /\ x.at = d.at /\ x.by = d.by
    BY <1>2, <2>1 DEF Delivery
  <2>5. y.note = e.note /\ y.at = e.at /\ y.by = e.by
    BY <1>2, <2>2 DEF Delivery
  <2> QED BY <2>3, <2>4, <2>5 DEF SpacedPerCaller
<1>6. ThrottlePassed'
  BY <1>1, <1>r DEF ThrottlePassed
<1>10. DeliveredInHand'
  <2> SUFFICES ASSUME NEW b \in Caller, npc'[b] = "record"
               PROVE  \E d \in delivered' : d.note = cur'[b] /\ d.by = b /\ d.rec = -1
    BY DEF DeliveredInHand
  <2>1. b # c /\ npc[b] = "record" /\ cur'[b] = cur[b]
    BY <1>1
  <2>2. PICK d \in delivered : d.note = cur[b] /\ d.by = b /\ d.rec = -1
    BY <2>1 DEF DeliveredInHand
  <2> QED BY <1>r, <2>1, <2>2
<1>7. PastOnly'
  BY <1>1, <1>2, <1>3, <1>r DEF PastOnly
<1>8. DeliveryRecorded'
  <2> SUFFICES ASSUME NEW x \in delivered'
               PROVE  \/ lastSent'[x.note.key] >= x.at
                      \/ npc'[x.by] = "record" /\ cur'[x.by].key = x.note.key
    BY DEF DeliveryRecorded
  <2>1. PICK d \in delivered : x.note = d.note /\ x.at = d.at /\ x.by = d.by
    BY <1>r
  <2> QED BY <1>1, <1>2, <1>3, <2>1 DEF DeliveryRecorded, PastOnly
<1>9. CooldownEarned'
  <2> SUFFICES ASSUME NEW k \in Key, lastSent'[k] >= 0
               PROVE  \E d \in delivered' : d.note.key = k /\ d.rec = lastSent'[k] /\ d.at <= d.rec
    BY DEF CooldownEarned
  <2>1. CASE k = cur[c].key
    <3>1. PICK d \in delivered : d.note = cur[c] /\ d.by = c /\ d.rec = -1
      BY <1>1 DEF DeliveredInHand
    <3>2. PICK r \in delivered' : r.note = d.note /\ r.at = d.at /\ r.rec = now
      BY <1>r, <3>1
    <3>3. d.at <= now
      BY DEF PastOnly
    <3> QED BY <1>3, <2>1, <3>1, <3>2, <3>3
  <2>2. CASE k # cur[c].key
    <3>1. lastSent'[k] = lastSent[k]
      BY <1>3, <2>2
    <3>2. PICK d \in delivered : d.note.key = k /\ d.rec = lastSent[k] /\ d.at <= d.rec
      BY <3>1 DEF CooldownEarned
    <3>3. d.rec # -1
      BY <1>2, <3>1, <3>2
    <3> QED BY <1>r, <3>1, <3>2, <3>3
  <2> QED BY <2>1, <2>2
<1> QED BY <1>4, <1>5, <1>6, <1>7, <1>8, <1>9, <1>10, <1>s

LEMMA QuietInv ==
    ASSUME NotificationInv,
           TimePasses \/ NothingHappens \/ \E c \in Caller, J \in SUBSET Note : HandOver(c, J)
    PROVE  NotificationInv'
<1> USE DEF NotificationInv
<1>1. /\ UNCHANGED <<lastSent, npc, cur, persisted, delivered>>
      /\ now' \in Nat /\ now' >= now /\ now \in Nat
      /\ job' \in [Caller -> SUBSET Note]
  BY DEF TimePasses, NothingHappens, HandOver, notifyVars, NotificationTypeOK
<1>2. /\ \A d \in delivered : d.at \in Nat
      /\ \A k \in Key : lastSent[k] \in Int
      /\ Cooldown \in Nat
  BY NotificationAssumption DEF NotificationTypeOK, Delivery
<1>3. NotificationTypeOK'
  BY <1>1 DEF NotificationTypeOK
<1>4. SavedInHand' /\ PersistFirst' /\ CooldownEarned' /\ SpacedPerCaller' /\ DeliveryRecorded'
  BY <1>1 DEF SavedInHand, PersistFirst, CooldownEarned, SpacedPerCaller, DeliveryRecorded
<1>5. DeliveredInHand' /\ PastOnly' /\ ThrottlePassed'
  BY <1>1, <1>2 DEF DeliveredInHand, PastOnly, ThrottlePassed
<1> QED BY <1>3, <1>4, <1>5

LEMMA ServiceStepInv == NotificationInv /\ ServiceStep => NotificationInv'
BY NotifyInv, SaveInv, SendInv, RecordInv, QuietInv DEF ServiceStep, NotifyStep

LEMMA NotificationStep ==
    [NotificationNext]_<<now, notifyVars>> => ServiceStep
<1>1. ASSUME NEW c \in Caller, NEW k \in Key, NEW s \in Subject, NEW C \in SUBSET Channel,
             NotifyMultiChannel(c, k, s, C)
      PROVE  ServiceStep
  <2>1. {[key |-> k, subject |-> s, chan |-> ch] : ch \in C} \in SUBSET Note
    BY DEF Note
  <2> QED BY <1>1, <2>1 DEF NotifyMultiChannel, HandOver, ServiceStep
<1>2. CASE Tick
  BY <1>2 DEF Tick, TimePasses, ServiceStep
<1>3. CASE UNCHANGED <<now, notifyVars>>
  BY <1>3 DEF notifyVars, NothingHappens, ServiceStep
<1> QED BY <1>1, <1>2, <1>3 DEF NotificationNext, ServiceStep

\* The notification service keeps its invariant whoever calls it concurrently.
THEOREM NotificationInvariant == NotificationSpec => []NotificationInv
<1>1. NotificationInv /\ [NotificationNext]_<<now, notifyVars>> => NotificationInv'
  BY NotificationStep, ServiceStepInv
<1> QED BY ServiceInit, <1>1, PTL DEF NotificationSpec

\* Notify saves before it sends: whatever fails, no sender delivers a notification
\* that the store does not hold.
THEOREM NothingUnsavedDelivered == NotificationSpec => []PersistFirst
<1>1. NotificationInv => PersistFirst
  BY DEF NotificationInv
<1> QED BY NotificationInvariant, <1>1, PTL

\* Only the record of a delivery starts a cooldown or starts it again (recordSent):
\* failed saves, failed sends and missing senders never silence a key.
THEOREM OnlyDeliveriesThrottle == NotificationSpec => []CooldownEarned
<1>1. NotificationInv => CooldownEarned
  BY DEF NotificationInv
<1> QED BY NotificationInvariant, <1>1, PTL

\* Though check and record are separate critical sections, each goroutine on its
\* own keeps the cooldown, however many run.
THEOREM EachCallerSpaced == NotificationSpec => []SpacedPerCaller
<1>1. NotificationInv => SpacedPerCaller
  BY DEF NotificationInv
<1> QED BY NotificationInvariant, <1>1, PTL
-----------------------------------------------------------------------------
(* The risk engine, and the service as it uses it.                         *)

LEMMA RiskInvInit == RiskInit => RiskInv
BY DEF RiskInit, RiskInv, HitsInCheck, HitsEnabled

LEMMA RiskStepInv == RiskInv /\ [RiskNext]_vars => RiskInv'
<1> SUFFICES ASSUME RiskInv, [RiskNext]_vars PROVE RiskInv'
  OBVIOUS
<1> USE DEF RiskInv, HitsInCheck, HitsEnabled
<1>1. ASSUME NEW S \in SUBSET Rule, EditRules(S) PROVE RiskInv'
  BY <1>1 DEF EditRules
<1>2. CASE ListEnabledRules
  BY <1>2 DEF ListEnabledRules
<1>3. CASE UNCHANGED riskVars
  BY <1>3 DEF riskVars
<1>4. CASE SetRules
  BY <1>4 DEF SetRules
<1>5. ASSUME NEW c \in Caller, NEW T \in RuleTypes,
             NEW H \in SUBSET (UNION {EventsOf(r) : r \in T \cap rules}), Check(c, H)
      PROVE  RiskInv'
  <2>1. \A e \in H : e \in RiskEvent /\ e.rule \in rules
    BY DEF EventsOf, RiskEvent
  <2> QED BY <1>5, <2>1 DEF Check
<1>6. ASSUME NEW c \in Caller, NEW e \in hits[c], EmitEvent(c, e) PROVE RiskInv'
  BY <1>6 DEF EmitEvent
<1>7. ASSUME NEW c \in Caller, CheckDone(c) PROVE RiskInv'
  BY <1>7 DEF CheckDone
<1> QED
  BY <1>1, <1>2, <1>3, <1>4, <1>5, <1>6, <1>7 DEF RiskNext, CheckStep, ListRulesFails, vars

\* The rules do not change under a check: a reload waits for the write lock while a
\* check saves events and sends alerts, so every event is for a rule in force.
THEOREM RulesStableUnderCheck == RiskSpec => []HitsEnabled
<1>1. RiskInv => HitsEnabled
  BY DEF RiskInv
<1> QED BY RiskInvInit, RiskStepInv, <1>1, PTL DEF RiskSpec

LEMMA RiskServiceStep == RiskInv /\ [RiskNext]_vars => ServiceStep
<1> SUFFICES ASSUME RiskInv, [RiskNext]_vars PROVE ServiceStep
  OBVIOUS
<1>1. ASSUME NEW c \in Caller, NEW e \in hits[c], EmitEvent(c, e) PROVE ServiceStep
  <2>1. {[key |-> RiskKey, subject |-> e, chan |-> Webhook]} \in SUBSET Note
    BY RiskAssumption DEF RiskInv, Note
  <2> QED BY <1>1, <2>1 DEF EmitEvent, HandOver, ServiceStep
<1>2. CASE Tick
  BY <1>2 DEF Tick, TimePasses, ServiceStep
<1>3. ASSUME NEW S \in SUBSET Rule, EditRules(S) PROVE ServiceStep
  BY <1>3 DEF EditRules, notifyVars, NothingHappens, ServiceStep
<1>4. CASE ListEnabledRules \/ ListRulesFails \/ SetRules \/ UNCHANGED vars
  BY <1>4 DEF ListEnabledRules, ListRulesFails, SetRules, vars, notifyVars, NothingHappens, ServiceStep
<1>5. ASSUME NEW c \in Caller, NEW H, Check(c, H) \/ CheckDone(c) PROVE ServiceStep
  BY <1>5 DEF Check, CheckDone, notifyVars, NothingHappens, ServiceStep
<1>6. ASSUME NEW c \in Caller, NotifyStep(c) PROVE ServiceStep
  BY <1>6 DEF ServiceStep
<1> QED BY <1>1, <1>2, <1>3, <1>4, <1>5, <1>6 DEF RiskNext, CheckStep

\* What the notification service promises holds of the alerts that concurrent risk
\* checks send through HandleAlert, reloads of the rules in between.
THEOREM AlertsKeepThePromises ==
    RiskSpec => [](PersistFirst /\ CooldownEarned /\ SpacedPerCaller)
<1>1. RiskInit => NotificationInv
  BY ServiceInit DEF RiskInit
<1>2. RiskInv /\ NotificationInv /\ [RiskNext]_vars => NotificationInv'
  BY RiskServiceStep, ServiceStepInv
<1>3. NotificationInv => PersistFirst /\ CooldownEarned /\ SpacedPerCaller
  BY DEF NotificationInv
<1> QED BY RiskInvInit, RiskStepInv, <1>1, <1>2, <1>3, PTL DEF RiskSpec
=============================================================================
