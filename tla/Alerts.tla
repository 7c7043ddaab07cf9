------------------------------- MODULE Alerts -------------------------------
(***************************************************************************)
(* The alert rules of Kombu and the background task that evaluates them:   *)
(* one task, whose loop runs the retention purge and the evaluation of all *)
(* enabled rules, each when its interval has elapsed.  Users create,       *)
(* change and delete rules while a round is running.                       *)
(*                                                                         *)
(* The purge itself is the subject of Retention; here it only takes time.  *)
(***************************************************************************)
EXTENDS Integers, Sequences

CONSTANTS
  Rules,            \* identities of the rules
  Cooldown,         \* max(window_minutes, 5) of each rule
  ComparisonOf,     \* "lt" or "gt"
  Values,           \* what the query of a rule returns, around Threshold
  AlertPeriod,      \* minutes between two evaluations
  RetentionPeriod,  \* minutes between two purges
  LastMinute,       \* the end of the clock; bounds the model
  MaxFaults,        \* how many faults a behaviour has; bounds the model
  Faults            \* the environment faults of this instance

\*   fetch, query, history, stamp  PostgreSQL refuses that statement
\*   webhook                       the receiver answers with an error
\*   restart                       the process ends and is started again
FaultClasses == {"fetch", "query", "history", "stamp", "webhook", "restart"}

ASSUME RuleAssumption == Rules # {}
ASSUME CooldownAssumption == Cooldown \in [Rules -> Nat \ {0}]
ASSUME ComparisonAssumption == ComparisonOf \in [Rules -> {"lt", "gt"}]
ASSUME ValueAssumption == 0 \in Values /\ Values \subseteq Nat
ASSUME PeriodAssumption == AlertPeriod \in Nat \ {0} /\ RetentionPeriod \in Nat \ {0}
ASSUME ClockAssumption == LastMinute \in Nat /\ MaxFaults \in Nat
ASSUME FaultAssumption == Faults \subseteq FaultClasses

\* No event at all counts 0, which is below any positive threshold.
Threshold == 1

VARIABLES
  clock,           \* minutes
  rule,            \* the rows of alert_rule
  metric,          \* what the query of a rule would return now
  alert_history,   \* its rows, in the order they were inserted
  \* the task
  next_alert, next_retention,  \* when the intervals fire next
  pc,
  todo,            \* the rules of this round that are not evaluated yet
  now,             \* the time the round took
  current,         \* the rule that is being evaluated
  \* history
  attempts,        \* per rule, the notifications, with what became of them
  edited,          \* rules changed since the round began
  belated,         \* per rule, the notifications since it was switched off
  misses,          \* rounds that could not read the rules, and restarts
  faults           \* how many faults there were

task == <<next_alert, next_retention, pc, todo, now, current>>
history == <<attempts, edited, belated, misses>>
vars == <<clock, rule, metric, alert_history, task, history, faults>>

Never == -1

\* The id of a deleted rule is not used again.
RuleRows ==
  [row : {"none", "there", "deleted"}, enabled : BOOLEAN,
   last_triggered_at : Nat \cup {Never}]

Attempts ==
  [now : Nat, metric : Values, failed : BOOLEAN, edited : BOOLEAN,
   status : {"waiting", "sent", "failed"}, stamped : BOOLEAN,
   entry : Nat,       \* the row of alert_history that shows it, 0 if there is none
   missed : BOOLEAN]  \* the row could not be written, or the task ended before

Entries == [rule : Rules, now : Nat, status : {"sent", "failed"}]

TypeOK ==
  /\ clock \in Nat
  /\ rule \in [Rules -> RuleRows]
  /\ metric \in [Rules -> Values]
  /\ alert_history \in Seq(Entries)
  /\ next_alert \in Nat
  /\ next_retention \in Nat
  /\ pc \in {"select", "purge", "fetch", "now", "rule", "query", "webhook",
             "history", "stamp"}
  /\ todo \in SUBSET (Rules \X (Nat \cup {Never}))
  /\ now \in Nat
  /\ current \in Rules
  /\ attempts \in [Rules -> Seq(Attempts)]
  /\ edited \in SUBSET Rules
  /\ belated \in [Rules -> Nat]
  /\ misses \in Nat
  /\ faults \in 0..MaxFaults

NoRow == [row |-> "none", enabled |-> FALSE, last_triggered_at |-> Never]

Fault(f) == f \in Faults /\ faults < MaxFaults /\ faults' = faults + 1

AnyRule == CHOOSE r \in Rules : TRUE

Init ==
  /\ clock = 0
  /\ rule = [r \in Rules |-> NoRow]
  /\ metric \in [Rules -> Values]
  /\ alert_history = <<>>
  /\ next_alert = 0
  /\ next_retention = 0
  /\ pc = "select"
  /\ todo = {}
  /\ now = 0
  /\ current = AnyRule
  /\ attempts = [r \in Rules |-> <<>>]
  /\ edited = {}
  /\ belated = [r \in Rules |-> 0]
  /\ misses = 0
  /\ faults = 0

-----------------------------------------------------------------------------
(* The loop: select is biased to the purge, and a tick that was missed fires *)
(* as soon as the loop is back.                                              *)

SelectPurge ==
  /\ pc = "select"
  /\ clock >= next_retention
  /\ next_retention' = next_retention + RetentionPeriod
  /\ pc' = "purge"
  /\ UNCHANGED <<clock, rule, metric, alert_history, next_alert, todo, now,
                 current, history, faults>>

PurgeEnds ==
  /\ pc = "purge"
  /\ pc' = "select"
  /\ UNCHANGED <<clock, rule, metric, alert_history, next_alert, next_retention,
                 todo, now, current, history, faults>>

SelectAlerts ==
  /\ pc = "select"
  /\ clock < next_retention
  /\ clock >= next_alert
  /\ next_alert' = next_alert + AlertPeriod
  /\ pc' = "fetch"
  /\ UNCHANGED <<clock, rule, metric, alert_history, next_retention, todo, now,
                 current, history, faults>>

-----------------------------------------------------------------------------
(* A round *)

EndRound ==
  /\ pc' = "select"
  /\ todo' = {}
  /\ now' = 0
  /\ current' = AnyRule
  /\ edited' = {}

There(r) == rule[r].row = "there"

EnabledRules == {r \in Rules : There(r) /\ rule[r].enabled}

\* Mutation: the query forgets its condition on enabled.
AllRules == {<<r, rule[r].last_triggered_at>> : r \in {q \in Rules : There(q)}}

\* The rows of a round, with the last_triggered_at they have now.
Fetched == {<<r, rule[r].last_triggered_at>> : r \in EnabledRules}

Fetch ==
  /\ pc = "fetch"
  /\ \/ /\ todo' = Fetched
        /\ pc' = "now"
        /\ UNCHANGED <<now, current, edited, misses, faults>>
     \/ Fault("fetch") /\ EndRound /\ misses' = misses + 1
  /\ UNCHANGED <<clock, rule, metric, alert_history, next_alert, next_retention,
                 attempts, belated>>

TakeNow ==
  /\ pc = "now"
  /\ now' = clock
  /\ pc' = "rule"
  /\ UNCHANGED <<clock, rule, metric, alert_history, next_alert, next_retention,
                 todo, current, history, faults>>

\* Mutation: a rule that was triggered once is never evaluated again.
CoolingForever(r, last) == last # Never

Cooling(r, last) == last # Never /\ now - last < Cooldown[r]

NextRule ==
  /\ pc = "rule"
  /\ \E d \in todo :
       /\ todo' = todo \ {d}
       /\ IF Cooling(d[1], d[2])
            THEN UNCHANGED <<pc, current>>
            ELSE pc' = "query" /\ current' = d[1]
  /\ UNCHANGED <<clock, rule, metric, alert_history, next_alert, next_retention,
                 now, history, faults>>

NoMoreRules ==
  /\ pc = "rule"
  /\ todo = {}
  /\ EndRound
  /\ UNCHANGED <<clock, rule, metric, alert_history, next_alert, next_retention,
                 attempts, belated, misses, faults>>

\* Mutation: the threshold itself triggers.
AtThreshold(r, v) ==
  IF ComparisonOf[r] = "lt" THEN v <= Threshold ELSE v >= Threshold

Triggered(r, v) ==
  IF ComparisonOf[r] = "lt" THEN v < Threshold ELSE v > Threshold

\* The query of the current rule.  One that fails counts 0; one of a rule that
\* was changed since the round began is compared with its old threshold.
Query ==
  LET r == current
      Answers(failed, v) ==
        IF Triggered(r, v)
          THEN /\ pc' = "webhook"
               /\ attempts' = [attempts EXCEPT ![r] =
                    Append(@, [now |-> now, metric |-> metric[r], failed |-> failed,
                               edited |-> r \in edited, status |-> "waiting",
                               stamped |-> FALSE, entry |-> 0, missed |-> FALSE])]
               /\ belated' = IF r \in EnabledRules THEN belated
                             ELSE [belated EXCEPT ![r] = @ + 1]
               /\ UNCHANGED current
          ELSE pc' = "rule" /\ current' = AnyRule /\ UNCHANGED <<attempts, belated>>
  IN /\ pc = "query"
     /\ \/ Answers(FALSE, metric[r]) /\ UNCHANGED faults
        \/ r \in edited /\ (\E v \in Values : Answers(FALSE, v)) /\ UNCHANGED faults
        \/ Fault("query") /\ Answers(TRUE, 0)
     /\ UNCHANGED <<clock, rule, metric, alert_history, next_alert,
                    next_retention, todo, now, edited, misses>>

\* The attempt that is under way is the last one of the current rule.
Attempt == attempts[current][Len(attempts[current])]

Note(attempt) ==
  attempts' = [attempts EXCEPT ![current][Len(attempts[current])] = attempt]

\* The receiver answers.  The client has no timeout: until then the task waits.
Webhook ==
  /\ pc = "webhook"
  /\ \/ Note([Attempt EXCEPT !.status = "sent"]) /\ UNCHANGED faults
     \/ Fault("webhook") /\ Note([Attempt EXCEPT !.status = "failed"])
  /\ pc' = "history"
  /\ UNCHANGED <<clock, rule, metric, alert_history, next_alert, next_retention,
                 todo, now, current, edited, belated, misses>>

\* Mutation: the entry does not tell a failed notification from one that was sent.
AlwaysSent(attempt) == "sent"

StatusOf(attempt) == attempt.status

\* Mutation: a notification that failed is not entered.
WriteHistoryOfSent ==
  /\ pc = "history"
  /\ IF Attempt.status = "sent"
       THEN /\ alert_history' = Append(alert_history,
                 [rule |-> current, now |-> now, status |-> StatusOf(Attempt)])
            /\ Note([Attempt EXCEPT !.entry = Len(alert_history) + 1])
       ELSE UNCHANGED <<alert_history, attempts>>
  /\ pc' = "stamp"
  /\ UNCHANGED <<clock, rule, metric, next_alert, next_retention, todo, now,
                 current, edited, belated, misses, faults>>

WriteHistory ==
  /\ pc = "history"
  /\ \/ /\ alert_history' = Append(alert_history,
             [rule |-> current, now |-> now, status |-> StatusOf(Attempt)])
        /\ Note([Attempt EXCEPT !.entry = Len(alert_history) + 1])
        /\ UNCHANGED faults
     \/ /\ Fault("history")
        /\ Note([Attempt EXCEPT !.missed = TRUE])
        /\ UNCHANGED alert_history
  /\ pc' = "stamp"
  /\ UNCHANGED <<clock, rule, metric, next_alert, next_retention, todo, now,
                 current, edited, belated, misses>>

\* Mutation: last_triggered_at is written only if the receiver took the
\* notification.
StampSent ==
  /\ pc = "stamp"
  /\ rule' = IF There(current) /\ Attempt.status = "sent"
               THEN [rule EXCEPT ![current].last_triggered_at = now] ELSE rule
  /\ Note([Attempt EXCEPT !.stamped = TRUE])
  /\ pc' = "rule"
  /\ current' = AnyRule
  /\ UNCHANGED <<clock, metric, alert_history, next_alert, next_retention, todo,
                 now, edited, belated, misses, faults>>

\* The UPDATE of last_triggered_at finds no row if the rule has been deleted.
Stamp ==
  /\ pc = "stamp"
  /\ \/ /\ rule' = IF There(current)
                     THEN [rule EXCEPT ![current].last_triggered_at = now] ELSE rule
        /\ Note([Attempt EXCEPT !.stamped = TRUE])
        /\ UNCHANGED faults
     \/ Fault("stamp") /\ UNCHANGED <<rule, attempts>>
  /\ pc' = "rule"
  /\ current' = AnyRule
  /\ UNCHANGED <<clock, metric, alert_history, next_alert, next_retention, todo,
                 now, edited, belated, misses>>

-----------------------------------------------------------------------------
(* The handlers *)

InRound == pc \notin {"select", "purge", "fetch"}

Create(r) ==
  /\ rule[r].row = "none"
  /\ \E enabled \in BOOLEAN :
       rule' = [rule EXCEPT ![r] =
                  [row |-> "there", enabled |-> enabled, last_triggered_at |-> Never]]
  /\ UNCHANGED <<clock, metric, alert_history, task, history, faults>>

\* An update changes enabled, the threshold, or both; not last_triggered_at.
Update(r) ==
  /\ There(r)
  /\ \E enabled \in BOOLEAN, v \in Values :
       /\ rule' = [rule EXCEPT ![r].enabled = enabled]
       /\ metric' = [metric EXCEPT ![r] = v]
       /\ belated' = IF enabled THEN [belated EXCEPT ![r] = 0] ELSE belated
  /\ edited' = IF InRound THEN edited \cup {r} ELSE edited
  /\ UNCHANGED <<clock, alert_history, task, attempts, misses, faults>>

Delete(r) ==
  /\ There(r)
  /\ rule' = [rule EXCEPT ![r] = [NoRow EXCEPT !.row = "deleted"]]
  /\ UNCHANGED <<clock, metric, alert_history, task, history, faults>>

-----------------------------------------------------------------------------
(* The environment *)

\* Events arrive, or leave the window of the rule.
Drift(r) ==
  /\ \E v \in Values : metric' = [metric EXCEPT ![r] = v]
  /\ UNCHANGED <<clock, rule, alert_history, task, history, faults>>

Tick ==
  /\ clock < LastMinute
  /\ clock' = clock + 1
  /\ UNCHANGED <<rule, metric, alert_history, task, history, faults>>

\* A new task; the first tick of an interval fires at once.
Restart ==
  /\ Fault("restart")
  /\ misses' = misses + 1
  /\ IF pc \in {"webhook", "history"} THEN Note([Attempt EXCEPT !.missed = TRUE])
     ELSE UNCHANGED attempts
  /\ EndRound
  /\ next_alert' = clock
  /\ next_retention' = clock
  /\ UNCHANGED <<clock, rule, metric, alert_history, belated>>

RoundStep ==
  \/ Fetch \/ TakeNow \/ NextRule \/ NoMoreRules \/ Query \/ WriteHistory \/ Stamp

LoopStep == SelectPurge \/ PurgeEnds \/ SelectAlerts

UserStep(r) == Create(r) \/ Update(r) \/ Delete(r)

Next ==
  \/ LoopStep \/ RoundStep \/ Webhook
  \/ \E r \in Rules : UserStep(r) \/ Drift(r)
  \/ Tick
  \/ Restart

Spec == Init /\ [][Next]_vars

\* Time passes, and the task runs whenever it has something to do.  Nothing
\* makes the receiver of a webhook answer.
FairSpec == Spec /\ WF_vars(Tick) /\ WF_vars(LoopStep) /\ WF_vars(RoundStep)

-----------------------------------------------------------------------------
(* Properties *)

\* Two notifications of a rule are at least its cooldown apart, however many
\* missed rounds are made up for at once and whether or not the receiver took
\* the first one; unless last_triggered_at could not be written after it.
CooldownKept ==
  \A r \in Rules : \A j \in DOMAIN attempts[r] : \A i \in 1..(j - 1) :
    attempts[r][i].stamped =>
      attempts[r][j].now - attempts[r][i].now >= Cooldown[r]

\* The notifications of a rule that have an entry.
Shown(r) == {i \in DOMAIN attempts[r] : attempts[r][i].entry # 0}

\* The history shows the notifications of a rule, in their order and with what
\* the receiver answered, and nothing else; one is missing only while it is
\* under way, or if its entry could not be written or the task ended before it
\* was (background.rs, evaluate_alerts_once: the history entry between the
\* webhook and the stamp).
HistoryHonest ==
  \A r \in Rules :
    /\ \A i \in Shown(r) :
         LET a == attempts[r][i]
         IN /\ a.entry \in DOMAIN alert_history
            /\ alert_history[a.entry] = [rule |-> r, now |-> a.now, status |-> a.status]
    /\ \A i, j \in Shown(r) : i < j => attempts[r][i].entry < attempts[r][j].entry
    /\ \A n \in DOMAIN alert_history : alert_history[n].rule = r =>
         \E i \in Shown(r) : attempts[r][i].entry = n
    /\ \A i \in DOMAIN attempts[r] \ Shown(r) :
         \/ attempts[r][i].missed
         \/ /\ pc \in {"webhook", "history"} /\ current = r
            /\ i = Len(attempts[r])

\* A rule is notified only when its metric has crossed its threshold.  The code
\* has two exceptions: a failed query counts as 0, which an "lt" rule takes for
\* an alarm, and a rule changed in the round is held to its old threshold.
AlarmExplained ==
  \A r \in Rules : \A i \in DOMAIN attempts[r] :
    LET a == attempts[r][i]
    IN \/ ComparisonOf[r] = "gt" /\ a.metric > Threshold
       \/ ComparisonOf[r] = "lt" /\ a.metric < Threshold
       \/ ComparisonOf[r] = "lt" /\ a.failed
       \/ a.edited

\* A rule that is switched off or deleted notifies at most once more, from the
\* round that had read it before: no later round, restart or missed tick brings
\* it back, nor does the notification that is under way repeat itself
\* (background.rs, evaluate_alerts_once: the rules are read once and then
\* evaluated one after the other, between awaits).
DisabledSilent == \A r \in Rules : belated[r] <= 1

\* The metric of an enabled rule has crossed its threshold.
Armed(r) ==
  /\ r \in EnabledRules
  /\ IF ComparisonOf[r] = "lt" THEN metric[r] < Threshold ELSE metric[r] > Threshold

Cool(r) ==
  rule[r].last_triggered_at # Never => clock - rule[r].last_triggered_at >= Cooldown[r]

\* The clock of the model has room for another round.
RoundAhead == clock + AlertPeriod <= LastMinute

\* A rule whose cooldown is over and whose metric stays across its threshold is
\* notified, unless a user changes the rule in the very round that would do it,
\* that round cannot read the rules, the process faults, or the task waits for
\* ever for the receiver of a webhook.
BreachNoticed ==
  \/ <>[](pc = "webhook")
  \/ \A r \in Rules : \A n \in 0..LastMinute, m \in 0..MaxFaults :
       (/\ Armed(r) /\ Cool(r) /\ RoundAhead /\ pc = "select"
        /\ Len(attempts[r]) = n /\ misses = m)
         ~> (Len(attempts[r]) > n \/ ~Armed(r) \/ r \in edited \/ misses > m)
=============================================================================
