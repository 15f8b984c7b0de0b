------------------------------ MODULE RiskEngine ------------------------------
(***************************************************************************)
(* internal/risk and the worker that connects it to the notifications:     *)
(* checks run concurrently under the read lock and emit events for the     *)
(* rules they hit, each event is passed to Notify before the check goes    *)
(* on, and a loop reloads the rules, which needs the write lock.           *)
(* Thresholds and amounts only decide which events a check emits.          *)
(* Notification gives the alerts; a risk alert has one key, one channel,   *)
(* and its event as subject.                                               *)
(***************************************************************************)
EXTENDS Notification

CONSTANTS
    Rule,
    RuleTypes,  \* the rules by type: a check looks at the rules of one type
    FlashLoan,  \* the rules of CheckFlashLoan, which emits an event for each user
    Account,    \* the users that a block's operations may be of
    RiskKey,    \* "risk_alert:", as risk alerts carry no user
    Webhook

\* The events of a rule: flash loans are of a user, the other rules speak of the pool.
EventsOf(r) == {[rule |-> r, of |-> a] : a \in IF r \in FlashLoan THEN Account ELSE {"pool"}}
RiskEvent == UNION {EventsOf(r) : r \in Rule}

ASSUME RiskAssumption ==
    /\ UNION RuleTypes = Rule /\ Subject = RiskEvent
    /\ RiskKey \in Key /\ Webhook \in Channel

VARIABLES
    stored,    \* the rules enabled in the rule store
    rules,     \* e.rules
    lpc,       \* "lock" while ReloadRules waits for the write lock
    loaded,    \* the rules it is about to install
    checking,  \* does the caller hold the read lock, inside a check?
    hits,      \* the events that its check has still to emit
    events     \* the audit log: the events saved

riskVars == <<stored, rules, lpc, loaded, checking, hits, events>>
vars == <<now, notifyVars, riskVars>>

RiskInit ==
    /\ NotificationInit
    /\ stored \in SUBSET Rule
    /\ rules = {} /\ loaded = {} /\ lpc = "idle"
    /\ checking = [c \in Caller |-> FALSE]
    /\ hits = [c \in Caller |-> {}]
    /\ events = {}

\* An administrator changes the stored rules (external).
EditRules(S) ==
    /\ stored' = S
    /\ UNCHANGED <<now, notifyVars, rules, lpc, loaded, checking, hits, events>>

\* ReloadRules, called at start-up and on every tick of the worker's ticker.
ListEnabledRules ==
    /\ lpc = "idle"
    /\ loaded' = stored /\ lpc' = "lock"
    /\ UNCHANGED <<now, notifyVars, stored, rules, checking, hits, events>>

\* A mutation of ListRulesFails: the reload loop ends with the first error.
ListRulesFailsStops ==
    /\ lpc = "idle"
    /\ Fault
    /\ lpc' = "gone"
    /\ UNCHANGED <<now, lastSent, npc, cur, job, persisted, delivered, suppressed>>
    /\ UNCHANGED <<stored, rules, loaded, checking, hits, events>>

ListRulesFails ==
    /\ lpc = "idle"
    /\ Fault
    /\ UNCHANGED <<now, lastSent, npc, cur, job, persisted, delivered, suppressed, riskVars>>

\* A mutation of SetRules: the rules are replaced without the lock.
SetRulesUnlocked ==
    /\ lpc = "lock"
    /\ rules' = loaded /\ lpc' = "idle"
    /\ UNCHANGED <<now, notifyVars, stored, loaded, checking, hits, events>>

SetRules ==
    /\ lpc = "lock" /\ \A c \in Caller : ~checking[c]
    /\ rules' = loaded /\ lpc' = "idle"
    /\ UNCHANGED <<now, notifyVars, stored, loaded, checking, hits, events>>

\* CheckLargeTransaction, CheckUtilization or CheckFlashLoan finds the events H to emit.
\* A reader does not overtake a writer that waits for the lock.
Check(c, H) ==
    /\ Idle(c) /\ ~checking[c] /\ lpc # "lock"
    /\ checking' = [checking EXCEPT ![c] = TRUE]
    /\ hits' = [hits EXCEPT ![c] = H]
    /\ UNCHANGED <<now, notifyVars, stored, rules, lpc, loaded, events>>

\* emitEvent: the event goes to the audit log, or an error is logged, and in
\* either case to HandleAlert, which builds the notification and calls Notify.
EmitEvent(c, e) ==
    /\ checking[c] /\ Idle(c) /\ e \in hits[c]
    /\ hits' = [hits EXCEPT ![c] = @ \ {e}]
    /\ \/ events' = events \cup {e} /\ UNCHANGED faults
       \/ Fault /\ UNCHANGED events
    /\ job' = [job EXCEPT ![c] = {[key |-> RiskKey, subject |-> e, chan |-> Webhook]}]
    /\ UNCHANGED <<now, lastSent, npc, cur, persisted, delivered, suppressed>>
    /\ UNCHANGED <<stored, rules, lpc, loaded, checking>>

\* The check returns and releases the read lock.
CheckDone(c) ==
    /\ checking[c] /\ Idle(c) /\ hits[c] = {}
    /\ checking' = [checking EXCEPT ![c] = FALSE]
    /\ UNCHANGED <<now, notifyVars, stored, rules, lpc, loaded, hits, events>>

CheckStep(c) == \/ \E e \in hits[c] : EmitEvent(c, e)
                \/ CheckDone(c)
                \/ NotifyStep(c) /\ UNCHANGED riskVars

RiskNext ==
    \/ \E S \in SUBSET Rule : EditRules(S)
    \/ ListEnabledRules \/ ListRulesFails \/ SetRules
    \/ \E c \in Caller, T \in RuleTypes :
         \E H \in SUBSET (UNION {EventsOf(r) : r \in T \cap rules}) : Check(c, H)
    \/ \E c \in Caller : CheckStep(c)
    \/ Tick /\ UNCHANGED riskVars

RiskSpec == RiskInit /\ [][RiskNext]_vars

\* The ticker keeps firing, a waiting writer gets the lock when it is free, and a
\* check that runs, with the stores and senders it calls, keeps going.
FairRiskSpec == /\ RiskSpec
                /\ WF_vars(ListEnabledRules) /\ WF_vars(SetRules)
                /\ \A c \in Caller : WF_vars(CheckStep(c))
-----------------------------------------------------------------------------
\* Rules can be changed without a restart: however checks overlap and however many
\* reloads fail, the engine ends up with what the store settles on.
RulesCaughtUp == \A S \in SUBSET Rule : <>[](stored = S) => <>[](rules = S)

\* A check emits events only for rules the engine has at that time, though the
\* rules may be reloaded while it saves and sends.
HitsEnabled == \A c \in Caller : \A e \in hits[c] : e.rule \in rules

\* What the docs and comments say and the code does not do.

\* The design, "the same alert is not sent again": one is suppressed only if the same
\* alert, of the same rule and user, was delivered.
SuppressedWasSent ==
    \A n \in suppressed : \E d \in delivered : d.note.subject = n.subject
-----------------------------------------------------------------------------
\* The inductive invariant behind HitsEnabled: only a check, which holds the read
\* lock, has events to emit, and SetRules waits for all of them.
HitsInCheck == \A c \in Caller : ~checking[c] => hits[c] = {}

RiskInv ==
    /\ stored \subseteq Rule /\ rules \subseteq Rule /\ loaded \subseteq Rule
    /\ checking \in [Caller -> BOOLEAN]
    /\ hits \in [Caller -> SUBSET RiskEvent]
    /\ HitsInCheck /\ HitsEnabled
=============================================================================
