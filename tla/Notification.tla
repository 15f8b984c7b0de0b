----------------------------- MODULE Notification -----------------------------
(***************************************************************************)
(* internal/notification: Notify with its throttle, called by several      *)
(* goroutines.  Only lastSent is under the mutex, so the throttle check,   *)
(* the save, the delivery and the record of it are separate steps and time *)
(* passes between them.  A notification is its throttle key, the alert it  *)
(* is about and its channel; stored statuses, which nothing reads, are not *)
(* modelled.                                                               *)
(***************************************************************************)
EXTENDS Integers, FiniteSets

CONSTANTS
    Caller,     \* goroutines that call the service
    Key,        \* "type:user"
    Subject,    \* what a notification is about
    Channel,
    HasSender,  \* the channels that a sender is registered for
    Cooldown,
    MaxTime,    \* bound on the clock
    MaxFaults   \* bound on failures of the store and of the senders

ASSUME NotificationAssumption ==
    /\ HasSender \subseteq Channel
    /\ Cooldown \in Nat \ {0} /\ MaxTime \in Nat /\ MaxFaults \in Nat

VARIABLES
    now,
    lastSent,    \* by key; -1 when there is no entry
    npc,         \* where each caller is in Notify
    cur,         \* the notification it is dispatching
    job,         \* the notifications it has still to pass to Notify
    persisted,   \* notifications in the store
    delivered,   \* what the senders delivered: note, time, caller, and when recordSent recorded it
    suppressed,  \* notifications that were throttled
    faults

notifyVars == <<lastSent, npc, cur, job, persisted, delivered, suppressed, faults>>

Note == [key : Key, subject : Subject, chan : Channel]
NoNote == [key |-> "none"]
Delivery == [note : Note, at : Nat, by : Caller, rec : Nat \cup {-1}]

NotificationInit ==
    /\ now = 0 /\ faults = 0
    /\ lastSent = [k \in Key |-> -1]
    /\ npc = [c \in Caller |-> "idle"]
    /\ cur = [c \in Caller |-> NoNote]
    /\ job = [c \in Caller |-> {}]
    /\ persisted = {} /\ delivered = {} /\ suppressed = {}

Idle(c) == npc[c] = "idle" /\ job[c] = {}
Fault == faults < MaxFaults /\ faults' = faults + 1

\* Notify returns.
Return(c) == /\ npc' = [npc EXCEPT ![c] = "idle"]
             /\ cur' = [cur EXCEPT ![c] = NoNote]
-----------------------------------------------------------------------------
\* NotifyMultiChannel: one notification for each channel; with one channel, a
\* plain call of Notify.
NotifyMultiChannel(c, k, s, C) ==
    /\ Idle(c)
    /\ job' = [job EXCEPT ![c] = {[key |-> k, subject |-> s, chan |-> ch] : ch \in C}]
    /\ UNCHANGED <<now, lastSent, npc, cur, persisted, delivered, suppressed, faults>>

\* A mutation of IsThrottled: the cooldown ends one tick early.
IsThrottledEarly(n) == lastSent[n.key] >= 0 /\ now - lastSent[n.key] < Cooldown - 1

IsThrottled(n) == lastSent[n.key] >= 0 /\ now - lastSent[n.key] < Cooldown

\* Notify up to the throttle check.
Notify(c, n) ==
    /\ npc[c] = "idle" /\ n \in job[c]
    /\ job' = [job EXCEPT ![c] = @ \ {n}]
    /\ IF IsThrottled(n)
       THEN suppressed' = suppressed \cup {n} /\ UNCHANGED <<npc, cur>>
       ELSE /\ npc' = [npc EXCEPT ![c] = "save"]
            /\ cur' = [cur EXCEPT ![c] = n]
            /\ UNCHANGED suppressed
    /\ UNCHANGED <<now, lastSent, persisted, delivered, faults>>

Save(c) ==
    /\ npc[c] = "save"
    /\ persisted' = persisted \cup {cur[c]}
    /\ npc' = [npc EXCEPT ![c] = "send"]
    /\ UNCHANGED <<now, lastSent, cur, job, delivered, suppressed, faults>>

\* A mutation of SaveFails: the error is logged and the notification sent.
SaveFailsSends(c) ==
    /\ npc[c] = "save"
    /\ Fault
    /\ npc' = [npc EXCEPT ![c] = "send"]
    /\ UNCHANGED <<now, lastSent, cur, job, persisted, delivered, suppressed>>

SaveFails(c) ==
    /\ npc[c] = "save"
    /\ Fault
    /\ Return(c)
    /\ UNCHANGED <<now, lastSent, job, persisted, delivered, suppressed>>

NoSender(c) ==
    /\ npc[c] = "send" /\ cur[c].chan \notin HasSender
    /\ Return(c)
    /\ UNCHANGED <<now, lastSent, job, persisted, delivered, suppressed, faults>>

Send(c) ==
    /\ npc[c] = "send" /\ cur[c].chan \in HasSender
    /\ delivered' = delivered \cup {[note |-> cur[c], at |-> now, by |-> c, rec |-> -1]}
    /\ npc' = [npc EXCEPT ![c] = "record"]
    /\ UNCHANGED <<now, lastSent, cur, job, persisted, suppressed, faults>>

\* A mutation of SendFails: the cooldown starts all the same.
SendFailsRecorded(c) ==
    /\ npc[c] = "send" /\ cur[c].chan \in HasSender
    /\ Fault
    /\ npc' = [npc EXCEPT ![c] = "record"]
    /\ UNCHANGED <<now, lastSent, cur, job, persisted, delivered, suppressed>>

SendFails(c) ==
    /\ npc[c] = "send" /\ cur[c].chan \in HasSender
    /\ Fault
    /\ Return(c)
    /\ UNCHANGED <<now, lastSent, job, persisted, delivered, suppressed>>

\* What delivered becomes when c records its delivery.
Recorded(c) == {IF d.by = c /\ d.rec = -1 THEN [d EXCEPT !.rec = now] ELSE d : d \in delivered}

RecordSent(c) ==
    /\ npc[c] = "record"
    /\ lastSent' = [lastSent EXCEPT ![cur[c].key] = now]
    /\ delivered' = Recorded(c)
    /\ Return(c)
    /\ UNCHANGED <<now, job, persisted, suppressed, faults>>

Tick == now < MaxTime /\ now' = now + 1 /\ UNCHANGED notifyVars

NotifyStep(c) == \/ \E n \in job[c] : Notify(c, n)
                 \/ Save(c) \/ SaveFails(c) \/ NoSender(c)
                 \/ Send(c) \/ SendFails(c) \/ RecordSent(c)

NotificationNext ==
    \/ \E c \in Caller, k \in Key, s \in Subject, C \in SUBSET Channel : NotifyMultiChannel(c, k, s, C)
    \/ \E c \in Caller : NotifyStep(c)
    \/ Tick

NotificationSpec == NotificationInit /\ [][NotificationNext]_<<now, notifyVars>>
-----------------------------------------------------------------------------
\* "Persist first": nothing is delivered that the store does not hold.
PersistFirst == \A d \in delivered : d.note \in persisted

\* The cooldown that runs for a key was started, at the time it counts from, by the
\* record of a delivery under the key: a failed save, a failed send or a missing
\* sender neither starts nor prolongs it, whatever was delivered before.
CooldownEarned ==
    \A k \in Key : lastSent[k] >= 0 =>
        \E d \in delivered : d.note.key = k /\ d.rec = lastSent[k] /\ d.at <= d.rec

\* A goroutine never delivers twice under one key within a cooldown, whatever the
\* other goroutines send, record or fail at in between.
SpacedPerCaller ==
    \A d, e \in delivered :
        d # e /\ d.note.key = e.note.key /\ d.by = e.by /\ d.at <= e.at => e.at - d.at >= Cooldown

\* What the docs and comments say and the code does not do.

\* The design's throttle, "the same alert is not sent again during the cooldown":
\* two deliveries under one key are at least a cooldown apart.
SpacedByCooldown ==
    \A d, e \in delivered : d # e /\ d.note.key = e.note.key /\ d.at <= e.at => e.at - d.at >= Cooldown

\* The comment on NotifyMultiChannel, "sends a notification to multiple channels": it is
\* suppressed on a channel only if that channel has had it.
EveryChannelReached ==
    \A n \in suppressed : n.chan \in HasSender => \E d \in delivered : d.note = n
-----------------------------------------------------------------------------
\* The inductive invariant behind the three properties.  A caller past the throttle
\* holds a notification, past the save a stored one, past the delivery one that a
\* sender has had.
NotificationTypeOK ==
    /\ now \in Nat
    /\ lastSent \in [Key -> Nat \cup {-1}]
    /\ npc \in [Caller -> {"idle", "save", "send", "record"}]
    /\ cur \in [Caller -> Note \cup {NoNote}]
    /\ \A c \in Caller : npc[c] # "idle" => cur[c] \in Note
    /\ job \in [Caller -> SUBSET Note]
    /\ delivered \subseteq Delivery

SavedInHand == \A c \in Caller : npc[c] \in {"send", "record"} => cur[c] \in persisted

DeliveredInHand ==
    \A c \in Caller : npc[c] = "record" =>
        \E d \in delivered : d.note = cur[c] /\ d.by = c /\ d.rec = -1

\* No time lies in the future.
PastOnly == /\ \A k \in Key : lastSent[k] <= now
            /\ \A d \in delivered : d.at <= now

\* What was delivered is recorded, unless its caller is about to record it; and a
\* caller past the throttle delivered nothing under its key for a cooldown.
DeliveryRecorded ==
    \A d \in delivered : \/ lastSent[d.note.key] >= d.at
                         \/ npc[d.by] = "record" /\ cur[d.by].key = d.note.key

ThrottlePassed ==
    \A c \in Caller : npc[c] \in {"save", "send"} =>
        \A d \in delivered : d.by = c /\ d.note.key = cur[c].key => now - d.at >= Cooldown

NotificationInv ==
    /\ NotificationTypeOK
    /\ SavedInHand /\ DeliveredInHand /\ PastOnly
    /\ DeliveryRecorded /\ ThrottlePassed
    /\ PersistFirst /\ CooldownEarned /\ SpacedPerCaller
=============================================================================
