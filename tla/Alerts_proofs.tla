---------------------------- MODULE Alerts_proofs ----------------------------
(***************************************************************************)
(* Theorems about Alerts, for any rules, cooldowns, periods and values,    *)
(* any faults, and a clock and a number of faults without bound.           *)
(***************************************************************************)
EXTENDS Alerts, SequenceTheorems, TLAPS

-----------------------------------------------------------------------------
(* The inductive invariants *)

Reporting == pc \in {"webhook", "history", "stamp"}
Busy == pc = "query" \/ Reporting

\* A notification that is under way is the last attempt of the current rule.
UnderWay ==
  Reporting =>
    /\ attempts[current] # <<>>
    /\ Attempt.now = now
    /\ ~Attempt.stamped
    /\ pc # "webhook" => Attempt.status # "waiting"

IInv == TypeOK /\ UnderWay

\* A rule is evaluated at most once in a round, and only after it was created.
OnceARound ==
  /\ \A d, e \in todo : d[1] = e[1] => d = e
  /\ Busy => \A d \in todo : d[1] # current
  /\ \A r \in Rules : rule[r].row = "none" =>
       attempts[r] = <<>> /\ (\A d \in todo : d[1] # r) /\ (Busy => current # r)

\* last tells of a notification at time t, or of a later one.
Covers(last, t) == last # Never /\ t <= last

\* Whatever the next evaluation of a rule goes by covers its stamped attempts;
\* the rule that passed is past its cooldown.
Covered ==
  \A r \in Rules : \A i \in DOMAIN attempts[r] : attempts[r][i].stamped =>
    LET t == attempts[r][i].now
    IN /\ There(r) => Covers(rule[r].last_triggered_at, t)
       /\ \A d \in todo : d[1] = r => Covers(d[2], t)
       /\ Busy /\ current = r => now - t >= Cooldown[r]

CInv == OnceARound /\ Covered /\ CooldownKept

\* A rule has notified belatedly only if this round has taken it already, or a
\* round before, and it is not enabled again.
SilentInv ==
  /\ DisabledSilent
  /\ \A r \in Rules : rule[r].row = "none" \/ r \in EnabledRules => belated[r] = 0
  /\ \A d \in todo : belated[d[1]] = 0
  /\ pc = "query" => belated[current] = 0

\* The two halves of HistoryHonest: the entries that there are, and those that
\* are missing.
Written ==
  \A r \in Rules :
    /\ \A i \in Shown(r) :
         /\ attempts[r][i].entry \in DOMAIN alert_history
         /\ alert_history[attempts[r][i].entry] =
              [rule |-> r, now |-> attempts[r][i].now, status |-> attempts[r][i].status]
    /\ \A i, j \in Shown(r) : i < j => attempts[r][i].entry < attempts[r][j].entry
    /\ \A n \in DOMAIN alert_history : alert_history[n].rule = r =>
         \E i \in Shown(r) : attempts[r][i].entry = n

Missing ==
  \A r \in Rules : \A i \in DOMAIN attempts[r] :
    \/ attempts[r][i].entry # 0
    \/ attempts[r][i].missed
    \/ pc \in {"webhook", "history"} /\ current = r /\ i = Len(attempts[r])

\* Besides the entries, what the next one goes by: the notification that is
\* under way has none yet.
HInv ==
  /\ Written
  /\ pc \in {"webhook", "history"} => Attempt.entry = 0

-----------------------------------------------------------------------------
(* The notifications *)

\* What becomes of the attempt that is under way changes nothing else.
LEMMA NoteKeeps ==
  ASSUME IInv, Reporting, NEW q \in Attempts, Note(q)
  PROVE  /\ attempts' \in [Rules -> Seq(Attempts)]
         /\ \A r \in Rules : r # current => attempts'[r] = attempts[r]
         /\ \A r \in Rules : DOMAIN attempts'[r] = DOMAIN attempts[r]
         /\ Len(attempts[current]) \in DOMAIN attempts[current]
         /\ Len(attempts'[current]) = Len(attempts[current])
         /\ \A i \in DOMAIN attempts[current] :
              attempts'[current][i] = IF i = Len(attempts[current]) THEN q
                                      ELSE attempts[current][i]
<1> DEFINE s == attempts[current]
           n == Len(s)
<1>1. s \in Seq(Attempts) /\ s # <<>> /\ current \in Rules
  BY DEF IInv, TypeOK, UnderWay
<1>2. n \in 1..Len(s)
  BY <1>1, EmptySeq
<1>3. /\ [s EXCEPT ![n] = q] \in Seq(Attempts)
      /\ Len([s EXCEPT ![n] = q]) = Len(s)
      /\ \A j \in 1..Len(s) : [s EXCEPT ![n] = q][j] = IF j = n THEN q ELSE s[j]
  BY <1>1, <1>2, ExceptSeq
<1>4. attempts' = [attempts EXCEPT ![current] = [s EXCEPT ![n] = q]]
  BY DEF Note
<1> DEFINE e == [s EXCEPT ![n] = q]
<1>5. e \in Seq(Attempts) /\ Len(e) = Len(s) /\ DOMAIN e = DOMAIN s
      /\ \A j \in DOMAIN s : e[j] = IF j = n THEN q ELSE s[j]
  BY <1>1, <1>3, LenProperties
<1>6. attempts' = [attempts EXCEPT ![current] = e]
  BY <1>4
<1> HIDE DEF e
<1>7. attempts \in [Rules -> Seq(Attempts)]
  BY DEF IInv, TypeOK
<1>8. attempts'[current] = e /\ \A r \in Rules : r # current => attempts'[r] = attempts[r]
  BY <1>1, <1>6, <1>7
<1>9. attempts' \in [Rules -> Seq(Attempts)]
  BY <1>1, <1>5, <1>6, <1>7
<1>10. n \in DOMAIN s
  BY <1>1, <1>2, LenProperties
<1> QED
  BY <1>1, <1>5, <1>8, <1>9, <1>10

LEMMA AppendKeeps ==
  ASSUME IInv, NEW a \in Attempts,
         attempts' = [attempts EXCEPT ![current] = Append(@, a)]
  PROVE  /\ attempts' \in [Rules -> Seq(Attempts)]
         /\ \A r \in Rules : r # current => attempts'[r] = attempts[r]
         /\ attempts'[current] # <<>>
         /\ attempts'[current][Len(attempts'[current])] = a
         /\ DOMAIN attempts[current] = 1..Len(attempts[current])
         /\ Len(attempts[current]) \in Nat
         /\ DOMAIN attempts'[current] = 1..(Len(attempts[current]) + 1)
         /\ \A i \in 1..(Len(attempts[current]) + 1) :
              attempts'[current][i] = IF i = Len(attempts[current]) + 1 THEN a
                                      ELSE attempts[current][i]
<1> DEFINE s == attempts[current]
           e == Append(s, a)
<1>1. s \in Seq(Attempts) /\ current \in Rules /\ attempts \in [Rules -> Seq(Attempts)]
  BY DEF IInv, TypeOK
<1>2. /\ e \in Seq(Attempts) /\ Len(e) = Len(s) + 1 /\ e[Len(e)] = a
      /\ \A i \in 1..Len(s) : e[i] = s[i]
  BY <1>1, AppendProperties
<1>3. DOMAIN e = 1..(Len(s) + 1) /\ DOMAIN s = 1..Len(s) /\ Len(s) \in Nat
  BY <1>1, <1>2, LenProperties
<1>4. \A i \in 1..(Len(s) + 1) : e[i] = IF i = Len(s) + 1 THEN a ELSE s[i]
  BY <1>2, <1>3
<1>5. attempts' = [attempts EXCEPT ![current] = e]
  OBVIOUS
<1>6. e # <<>>
  BY <1>2, <1>3, EmptySeq
<1> HIDE DEF e
<1> QED
  BY <1>1, <1>2, <1>3, <1>4, <1>5, <1>6

\* The attempt of the current rule, when its query answered or failed.
NewAttempt(failed) ==
  [now |-> now, metric |-> metric[current], failed |-> failed,
   edited |-> current \in edited, status |-> "waiting",
   stamped |-> FALSE, entry |-> 0, missed |-> FALSE]

LEMMA NewAttemptType ==
  ASSUME IInv, NEW failed \in BOOLEAN
  PROVE  NewAttempt(failed) \in Attempts
<1>1. (current \in edited) \in BOOLEAN
  OBVIOUS
<1> QED
  BY <1>1 DEF NewAttempt, Attempts, IInv, TypeOK

\* A query that answers is held to the threshold, unless the rule was edited.
LEMMA QueryEffect ==
  ASSUME IInv, Query
  PROVE  \/ pc' = "rule" /\ current' = AnyRule /\ UNCHANGED <<attempts, belated>>
         \/ \E failed \in BOOLEAN, v \in Values :
              /\ pc' = "webhook" /\ current' = current
              /\ belated' = IF current \in EnabledRules THEN belated
                            ELSE [belated EXCEPT ![current] = @ + 1]
              /\ attempts' = [attempts EXCEPT ![current] = Append(@, NewAttempt(failed))]
              /\ Triggered(current, v)
              /\ IF failed THEN v = 0 ELSE v = metric[current] \/ current \in edited
<1> DEFINE Answers(failed, v) ==
             IF Triggered(current, v)
               THEN /\ pc' = "webhook"
                    /\ attempts' = [attempts EXCEPT ![current] = Append(@, NewAttempt(failed))]
                    /\ belated' = IF current \in EnabledRules THEN belated
                                  ELSE [belated EXCEPT ![current] = @ + 1]
                    /\ UNCHANGED current
               ELSE pc' = "rule" /\ current' = AnyRule /\ UNCHANGED <<attempts, belated>>
<1>1. \/ Answers(FALSE, metric[current])
      \/ current \in edited /\ \E v \in Values : Answers(FALSE, v)
      \/ Answers(TRUE, 0)
  BY DEF Query, NewAttempt
<1>2. metric[current] \in Values /\ 0 \in Values
  BY ValueAssumption DEF IInv, TypeOK
<1>3. ASSUME NEW failed \in BOOLEAN, NEW v \in Values, Answers(failed, v),
             IF failed THEN v = 0 ELSE v = metric[current] \/ current \in edited
      PROVE  \/ pc' = "rule" /\ current' = AnyRule /\ UNCHANGED <<attempts, belated>>
             \/ \E f \in BOOLEAN, w \in Values :
                  /\ pc' = "webhook" /\ current' = current
                  /\ belated' = IF current \in EnabledRules THEN belated
                                ELSE [belated EXCEPT ![current] = @ + 1]
                  /\ attempts' = [attempts EXCEPT ![current] = Append(@, NewAttempt(f))]
                  /\ Triggered(current, w)
                  /\ IF f THEN w = 0 ELSE w = metric[current] \/ current \in edited
  <2>1. CASE Triggered(current, v)
    BY <1>3, <2>1
  <2>2. CASE ~Triggered(current, v)
    BY <1>3, <2>2
  <2> QED
    BY <2>1, <2>2
<1> HIDE DEF Answers
<1> QED
  BY <1>1, <1>2, <1>3

-----------------------------------------------------------------------------
(* Types *)

LEMMA AnyRuleType == AnyRule \in Rules
BY RuleAssumption DEF AnyRule

LEMMA InitInv == Init => IInv
<1> SUFFICES ASSUME Init PROVE IInv
  OBVIOUS
<1>1. NoRow \in RuleRows
  BY DEF NoRow, RuleRows
<1>2. TypeOK
  BY <1>1, AnyRuleType, ClockAssumption DEF Init, TypeOK
<1> QED
  BY <1>2 DEF IInv, UnderWay, Reporting, Init

LEMMA FaultType ==
  ASSUME IInv, NEW f, Fault(f)
  PROVE  faults' \in 0..MaxFaults
BY ClockAssumption DEF Fault, IInv, TypeOK

\* The steps of the loop, and those of a round but for the notification.
LEMMA LoopInv ==
  ASSUME IInv, LoopStep \/ Fetch \/ TakeNow \/ NextRule \/ NoMoreRules
  PROVE  IInv'
<1>1. UNCHANGED <<rule, metric, alert_history, attempts, clock>>
  BY DEF LoopStep, SelectPurge, PurgeEnds, SelectAlerts, Fetch, TakeNow, NextRule,
         NoMoreRules, history
<1>2. pc' \in {"select", "purge", "fetch", "now", "rule", "query"}
  BY DEF LoopStep, SelectPurge, PurgeEnds, SelectAlerts, Fetch, TakeNow, NextRule,
         NoMoreRules, EndRound
<1>3. /\ next_alert' \in Nat /\ next_retention' \in Nat /\ now' \in Nat
      /\ edited' \in SUBSET Rules /\ misses' \in Nat
  BY PeriodAssumption DEF IInv, TypeOK, LoopStep, SelectPurge, PurgeEnds, SelectAlerts,
         Fetch, TakeNow, NextRule, NoMoreRules, EndRound, history
<1>4. /\ todo' \in SUBSET (Rules \X (Nat \cup {Never}))
      /\ belated' \in [Rules -> Nat]
  BY DEF IInv, TypeOK, RuleRows, LoopStep, SelectPurge, PurgeEnds, SelectAlerts, Fetch,
         Fetched, EnabledRules, TakeNow, NextRule, NoMoreRules, EndRound, history
<1>5. current' \in Rules
  BY AnyRuleType DEF IInv, TypeOK, LoopStep, SelectPurge, PurgeEnds, SelectAlerts, Fetch,
         TakeNow, NextRule, NoMoreRules, EndRound
<1>6. faults' \in 0..MaxFaults
  BY FaultType DEF IInv, TypeOK, LoopStep, SelectPurge, PurgeEnds, SelectAlerts, Fetch,
         TakeNow, NextRule, NoMoreRules
<1> QED
  BY <1>1, <1>2, <1>3, <1>4, <1>5, <1>6 DEF IInv, TypeOK, UnderWay, Reporting

LEMMA QueryInv ==
  ASSUME IInv, Query
  PROVE  IInv'
<1>1. UNCHANGED <<clock, rule, metric, alert_history, next_alert, next_retention, todo, now,
                  edited, misses>>
  BY DEF Query
<1>2. faults' \in 0..MaxFaults /\ belated' \in [Rules -> Nat]
  BY FaultType, QueryEffect DEF Query, IInv, TypeOK
<1>3. CASE pc' = "rule" /\ current' = AnyRule /\ UNCHANGED attempts
  BY <1>1, <1>2, <1>3, AnyRuleType DEF IInv, TypeOK, UnderWay, Reporting
<1>4. ASSUME NEW failed \in BOOLEAN, pc' = "webhook", current' = current,
             attempts' = [attempts EXCEPT ![current] = Append(@, NewAttempt(failed))]
      PROVE  IInv'
  <2> DEFINE a == NewAttempt(failed)
  <2>1. a \in Attempts /\ a.now = now /\ ~a.stamped
    BY NewAttemptType DEF NewAttempt
  <2> HIDE DEF a
  <2>2. /\ attempts' \in [Rules -> Seq(Attempts)] /\ attempts'[current] # <<>>
        /\ attempts'[current][Len(attempts'[current])] = a
    BY <1>4, <2>1, AppendKeeps DEF a
  <2>3. UnderWay'
    BY <1>1, <1>4, <2>1, <2>2 DEF UnderWay, Reporting, Attempt
  <2>4. TypeOK'
    BY <1>1, <1>2, <1>4, <2>2 DEF IInv, TypeOK
  <2> QED
    BY <2>3, <2>4 DEF IInv
<1> QED
  BY <1>3, <1>4, QueryEffect

\* What a step does with the attempt that is under way.
Reported(q) ==
  /\ q \in Attempts /\ q.now = now /\ q.metric = Attempt.metric
  /\ q.failed = Attempt.failed /\ q.edited = Attempt.edited

LEMMA AttemptType ==
  ASSUME IInv, Reporting
  PROVE  Attempt \in Attempts /\ Attempt.now = now /\ ~Attempt.stamped
<1>1. attempts[current] \in Seq(Attempts) /\ attempts[current] # <<>>
  BY DEF IInv, TypeOK, UnderWay
<1>2. Len(attempts[current]) \in 1..Len(attempts[current])
  BY <1>1, EmptySeq
<1> QED
  BY <1>1, <1>2, ElementOfSeq DEF Attempt, IInv, UnderWay

\* That the entry is missing is noted and nothing else.
LEMMA MissedNote ==
  ASSUME IInv, Reporting
  PROVE  LET q == [Attempt EXCEPT !.missed = TRUE]
         IN /\ Reported(q) /\ ~q.stamped /\ q.missed
            /\ q.status = Attempt.status /\ q.entry = Attempt.entry
<1> DEFINE a == Attempt
<1>1. a \in Attempts /\ a.now = now /\ ~a.stamped
  BY AttemptType
<1> HIDE DEF a
<1>2. LET q == [a EXCEPT !.missed = TRUE]
      IN /\ q \in Attempts /\ q.now = now /\ q.metric = a.metric
         /\ q.failed = a.failed /\ q.edited = a.edited /\ ~q.stamped /\ q.missed
         /\ q.status = a.status /\ q.entry = a.entry
  BY <1>1 DEF Attempts
<1> QED
  BY <1>2 DEF Reported, a

\* The webhook, the history entry and the stamp leave a notification as it was
\* but for their own note on it.
LEMMA ReportEffect ==
  ASSUME IInv, Webhook \/ WriteHistory \/ Stamp
  PROVE  /\ Reporting
         /\ (pc = "stamp" /\ UNCHANGED attempts) \/ \E q \in Attempts :
              /\ Reported(q) /\ Note(q)
              /\ q.stamped => pc = "stamp"
              /\ pc = "webhook" => q.status # "waiting"
              /\ pc # "webhook" => q.status = Attempt.status
<1>0. Reporting
  BY DEF Webhook, WriteHistory, Stamp, Reporting
<1> DEFINE a == Attempt
<1>1. a \in Attempts /\ a.now = now /\ ~a.stamped
  BY <1>0, AttemptType
<1> HIDE DEF a
<1>2. ASSUME NEW status \in {"sent", "failed"}
      PROVE  LET q == [a EXCEPT !.status = status]
             IN /\ q \in Attempts /\ q.now = now /\ q.metric = a.metric
                /\ q.failed = a.failed /\ q.edited = a.edited /\ ~q.stamped
                /\ q.status = status
  BY <1>1 DEF Attempts
<1>3. LET q == [a EXCEPT !.entry = Len(alert_history) + 1]
      IN /\ q \in Attempts /\ q.now = now /\ q.metric = a.metric
         /\ q.failed = a.failed /\ q.edited = a.edited /\ ~q.stamped
         /\ q.status = a.status
  BY <1>1 DEF Attempts
<1>4. LET q == [a EXCEPT !.stamped = TRUE]
      IN /\ q \in Attempts /\ q.now = now /\ q.metric = a.metric
         /\ q.failed = a.failed /\ q.edited = a.edited
         /\ q.status = a.status
  BY <1>1 DEF Attempts
<1>5. CASE Webhook
  <2>1. PICK status \in {"sent", "failed"} : Note([a EXCEPT !.status = status])
    BY <1>5 DEF Webhook, a
  <2> DEFINE q == [a EXCEPT !.status = status]
  <2>2. Note(q) /\ Reported(q) /\ ~q.stamped /\ q.status # "waiting" /\ pc = "webhook"
    BY <1>2, <1>5, <2>1 DEF Webhook, Reported, a
  <2> QED
    BY <1>0, <2>2 DEF Reported
<1>6. CASE WriteHistory
  <2> DEFINE q == [a EXCEPT !.entry = Len(alert_history) + 1]
             m == [a EXCEPT !.missed = TRUE]
  <2>1. Note(q) \/ Note(m)
    BY <1>6 DEF WriteHistory, a
  <2>2. Reported(q) /\ ~q.stamped /\ q.status = a.status /\ pc = "history"
    BY <1>3, <1>6 DEF WriteHistory, Reported, a
  <2>3. Reported(m) /\ ~m.stamped /\ m.status = a.status
    BY <1>0, MissedNote DEF a
  <2> QED
    BY <1>0, <2>1, <2>2, <2>3 DEF Reported, a
<1>7. CASE Stamp
  <2> DEFINE q == [a EXCEPT !.stamped = TRUE]
  <2>1. UNCHANGED attempts \/ Note(q)
    BY <1>7 DEF Stamp, a
  <2>2. Reported(q) /\ q.status = a.status /\ pc = "stamp"
    BY <1>4, <1>7 DEF Stamp, Reported, a
  <2> QED
    BY <1>0, <2>1, <2>2 DEF Reported, a
<1> QED
  BY <1>5, <1>6, <1>7

LEMMA ReportInv ==
  ASSUME IInv, Webhook \/ WriteHistory \/ Stamp
  PROVE  IInv'
<1>0. Reporting /\ Attempt \in Attempts
  BY ReportEffect, AttemptType
<1>1. UNCHANGED <<clock, metric, next_alert, next_retention, todo, now, edited, belated, misses>>
  BY DEF Webhook, WriteHistory, Stamp
<1>2. faults' \in 0..MaxFaults
  BY FaultType DEF Webhook, WriteHistory, Stamp, IInv, TypeOK
<1>3. rule' \in [Rules -> RuleRows]
  <2>1. CASE Stamp
    <3>1. CASE UNCHANGED rule
      BY <3>1 DEF IInv, TypeOK
    <3>2. CASE rule' = [rule EXCEPT ![current].last_triggered_at = now]
      BY <3>2 DEF IInv, TypeOK, RuleRows
    <3> QED
      BY <2>1, <3>1, <3>2 DEF Stamp
  <2>2. CASE Webhook \/ WriteHistory
    BY <2>2 DEF Webhook, WriteHistory, IInv, TypeOK
  <2> QED
    BY <2>1, <2>2
<1>4. alert_history' \in Seq(Entries)
  <2>1. CASE WriteHistory
    <3>1. pc = "history" /\ Attempt.status \in {"sent", "failed"}
      BY <1>0, <2>1 DEF WriteHistory, IInv, UnderWay, Attempts
    <3> DEFINE e == [rule |-> current, now |-> now, status |-> StatusOf(Attempt)]
    <3>2. e \in Entries
      BY <3>1 DEF Entries, StatusOf, IInv, TypeOK
    <3>3. alert_history' = Append(alert_history, e) \/ UNCHANGED alert_history
      BY <2>1 DEF WriteHistory
    <3> HIDE DEF e
    <3>4. alert_history \in Seq(Entries)
      BY DEF IInv, TypeOK
    <3> HIDE DEF IInv, Entries
    <3>5. Append(alert_history, e) \in Seq(Entries)
      BY <3>2, <3>4, AppendProperties
    <3> QED
      BY <3>3, <3>4, <3>5
  <2>2. CASE Webhook \/ Stamp
    BY <2>2 DEF Webhook, Stamp, IInv, TypeOK
  <2> QED
    BY <2>1, <2>2
<1>5. attempts' \in [Rules -> Seq(Attempts)]
  <2>1. CASE UNCHANGED attempts
    BY <2>1 DEF IInv, TypeOK
  <2>2. ASSUME NEW q \in Attempts, Note(q)
        PROVE  attempts' \in [Rules -> Seq(Attempts)]
    BY <1>0, <2>2, NoteKeeps
  <2> QED
    BY <2>1, <2>2, ReportEffect
<1>6. pc' \in {"history", "stamp", "rule"} /\ current' \in Rules
      /\ (pc' = "history" => pc = "webhook") /\ (pc' = "stamp" => pc = "history")
      /\ (pc' # "rule" => current' = current)
  BY AnyRuleType DEF Webhook, WriteHistory, Stamp, IInv, TypeOK
<1>7. TypeOK'
  BY <1>1, <1>2, <1>3, <1>4, <1>5, <1>6 DEF IInv, TypeOK
<1>8. ASSUME pc' # "rule"
      PROVE  UnderWay'
  <2>1. CASE pc = "stamp" /\ UNCHANGED attempts
    BY <1>6, <1>8, <2>1
  <2>2. ASSUME NEW q \in Attempts, Reported(q), Note(q), q.stamped => pc = "stamp",
               pc = "webhook" => q.status # "waiting",
               pc # "webhook" => q.status = Attempt.status
        PROVE  UnderWay'
    <3>1. Attempt' = q
      BY <1>0, <1>6, <1>8, <2>2, NoteKeeps DEF Attempt
    <3>2. attempts'[current'] # <<>>
      BY <1>0, <1>6, <1>8, <2>2, NoteKeeps, EmptySeq DEF IInv, TypeOK
    <3>3. q.now = now' /\ ~q.stamped /\ q.status # "waiting"
      BY <1>1, <1>6, <1>8, <2>2 DEF Reported, IInv, UnderWay, Reporting
    <3> QED
      BY <3>1, <3>2, <3>3 DEF UnderWay
  <2> QED
    BY <2>1, <2>2, ReportEffect
<1>9. CASE pc' = "rule"
  BY <1>7, <1>9 DEF IInv, UnderWay, Reporting
<1> QED
  BY <1>7, <1>8, <1>9 DEF IInv

\* A restart leaves no round, and notes the entry that was not written.
LEMMA RestartEffect ==
  ASSUME IInv, Restart
  PROVE  /\ pc' = "select" /\ todo' = {} /\ now' = 0 /\ current' = AnyRule
         /\ UNCHANGED <<clock, rule, metric, alert_history, belated>>
         /\ \/ pc \notin {"webhook", "history"} /\ UNCHANGED attempts
            \/ /\ pc \in {"webhook", "history"} /\ Reporting
               /\ \E q \in Attempts :
                    /\ Reported(q) /\ Note(q) /\ ~q.stamped /\ q.missed
                    /\ q.status = Attempt.status /\ q.entry = Attempt.entry
<1>1. /\ pc' = "select" /\ todo' = {} /\ now' = 0 /\ current' = AnyRule
      /\ UNCHANGED <<clock, rule, metric, alert_history, belated>>
  BY DEF Restart, EndRound
<1>2. CASE pc \in {"webhook", "history"}
  <2> DEFINE q == [Attempt EXCEPT !.missed = TRUE]
  <2>1. Reporting /\ Note(q)
    BY <1>2 DEF Restart, Reporting
  <2>2. /\ Reported(q) /\ ~q.stamped /\ q.missed
        /\ q.status = Attempt.status /\ q.entry = Attempt.entry
    BY <2>1, MissedNote
  <2> HIDE DEF q
  <2>3. q \in Attempts
    BY <2>2 DEF Reported
  <2> QED
    BY <1>1, <1>2, <2>1, <2>2, <2>3
<1>3. CASE pc \notin {"webhook", "history"}
  BY <1>1, <1>3 DEF Restart
<1> QED
  BY <1>2, <1>3

LEMMA RestartInv ==
  ASSUME IInv, Restart
  PROVE  IInv'
<1>1. attempts' \in [Rules -> Seq(Attempts)]
  BY RestartEffect, NoteKeeps DEF IInv, TypeOK
<1>2. /\ next_alert' \in Nat /\ next_retention' \in Nat /\ misses' \in Nat
      /\ edited' \in SUBSET Rules /\ faults' \in 0..MaxFaults
  BY FaultType DEF Restart, EndRound, IInv, TypeOK
<1>3. /\ pc' = "select" /\ todo' = {} /\ now' = 0 /\ current' = AnyRule
      /\ UNCHANGED <<clock, rule, metric, alert_history, belated>>
  BY RestartEffect
<1>4. TypeOK'
  BY <1>1, <1>2, <1>3, AnyRuleType DEF IInv, TypeOK
<1> QED
  BY <1>3, <1>4 DEF IInv, UnderWay, Reporting

\* The handlers, and what happens around the task.
LEMMA UserInv ==
  ASSUME IInv, NEW r \in Rules, UserStep(r) \/ Drift(r) \/ Tick
  PROVE  IInv'
<1>1. UNCHANGED <<task, attempts, alert_history, misses, faults>>
  BY DEF UserStep, Create, Update, Delete, Drift, Tick, history
<1>2. /\ rule' \in [Rules -> RuleRows] /\ metric' \in [Rules -> Values]
      /\ belated' \in [Rules -> Nat] /\ edited' \in SUBSET Rules /\ clock' \in Nat
  <2>1. CASE Create(r)
    BY <2>1 DEF Create, IInv, TypeOK, RuleRows, history
  <2>2. CASE Update(r)
    <3>1. PICK enabled \in BOOLEAN, v \in Values :
            /\ rule' = [rule EXCEPT ![r].enabled = enabled]
            /\ metric' = [metric EXCEPT ![r] = v]
            /\ belated' = IF enabled THEN [belated EXCEPT ![r] = 0] ELSE belated
      BY <2>2 DEF Update
    <3>2. [rule[r] EXCEPT !.enabled = enabled] \in RuleRows
      BY DEF IInv, TypeOK, RuleRows
    <3> QED
      BY <2>2, <3>1, <3>2 DEF Update, IInv, TypeOK
  <2>3. CASE Delete(r)
    <3> DEFINE gone == [NoRow EXCEPT !.row = "deleted"]
    <3>1. gone \in RuleRows
      BY DEF NoRow, RuleRows
    <3>2. rule' = [rule EXCEPT ![r] = gone] /\ UNCHANGED <<metric, belated, edited, clock>>
      BY <2>3 DEF Delete, history
    <3> HIDE DEF gone
    <3> QED
      BY <3>1, <3>2 DEF IInv, TypeOK
  <2>4. CASE Drift(r)
    BY <2>4 DEF Drift, IInv, TypeOK, history
  <2>5. CASE Tick
    BY <2>5 DEF Tick, IInv, TypeOK, history
  <2> QED
    BY <2>1, <2>2, <2>3, <2>4, <2>5 DEF UserStep
<1>3. TypeOK'
  BY <1>1, <1>2 DEF IInv, TypeOK, task
<1>4. UnderWay'
  BY <1>1 DEF IInv, UnderWay, Attempt, Reporting, task
<1> QED
  BY <1>3, <1>4 DEF IInv

LEMMA NextInv == IInv /\ [Next]_vars => IInv'
<1> SUFFICES ASSUME IInv, [Next]_vars PROVE IInv'
  OBVIOUS
<1>1. CASE LoopStep \/ RoundStep \/ Restart \/ Webhook
  BY <1>1, LoopInv, QueryInv, ReportInv, RestartInv DEF RoundStep
<1>2. CASE (\E r \in Rules : UserStep(r) \/ Drift(r)) \/ Tick
  BY <1>2, UserInv, AnyRuleType
<1>3. CASE UNCHANGED vars
  BY <1>3 DEF vars, IInv, TypeOK, UnderWay, Attempt, Reporting, task, history
<1> QED
  BY <1>1, <1>2, <1>3 DEF Next

\* The rows, the task and its history keep their shape: in particular an entry
\* of alert_history is only written for a notification whose receiver has
\* answered (background.rs, evaluate_alerts_once).
THEOREM TypeCorrect == Spec => []TypeOK
<1>1. IInv => TypeOK
  BY DEF IInv
<1> QED
  BY InitInv, NextInv, <1>1, PTL DEF Spec

-----------------------------------------------------------------------------
(* Alarms *)

\* Only the query begins a notification.
LEMMA AttemptsChange ==
  ASSUME [Next]_vars
  PROVE  UNCHANGED attempts \/ Query \/ Webhook \/ WriteHistory \/ Stamp \/ Restart
BY DEF Next, LoopStep, RoundStep, UserStep, SelectPurge, PurgeEnds, SelectAlerts, Fetch,
       TakeNow, NextRule, NoMoreRules, Create, Update, Delete, Drift, Tick, vars,
       history

Alarm(r, a) ==
  \/ ComparisonOf[r] = "gt" /\ a.metric > Threshold
  \/ ComparisonOf[r] = "lt" /\ a.metric < Threshold
  \/ ComparisonOf[r] = "lt" /\ a.failed
  \/ a.edited

LEMMA InitAlarm == Init => AlarmExplained
<1> SUFFICES ASSUME Init PROVE AlarmExplained
  OBVIOUS
<1>1. \A r \in Rules : attempts[r] = <<>>
  BY DEF Init
<1> QED
  BY <1>1, EmptySeq DEF AlarmExplained

\* A query that alarms without cause has failed, or was of an edited rule.
LEMMA NewAlarm ==
  ASSUME IInv, NEW failed \in BOOLEAN, NEW v \in Values, Triggered(current, v),
         IF failed THEN v = 0 ELSE v = metric[current] \/ current \in edited
  PROVE  Alarm(current, NewAttempt(failed))
<1>1. ComparisonOf[current] \in {"lt", "gt"}
  BY ComparisonAssumption DEF IInv, TypeOK
<1>2. /\ NewAttempt(failed).metric = metric[current]
      /\ NewAttempt(failed).failed = failed
      /\ NewAttempt(failed).edited = (current \in edited)
  BY DEF NewAttempt
<1>3. CASE failed
  <2>1. v = 0
    BY <1>3
  <2>2. ComparisonOf[current] = "lt"
    BY <1>1, <2>1 DEF Triggered, Threshold
  <2> QED
    BY <1>2, <1>3, <2>2 DEF Alarm
<1>4. CASE ~failed /\ v = metric[current]
  BY <1>1, <1>2, <1>4 DEF Alarm, Triggered
<1>5. CASE current \in edited
  BY <1>2, <1>5 DEF Alarm
<1> QED
  BY <1>3, <1>4, <1>5

LEMMA NextAlarm == IInv /\ AlarmExplained /\ [Next]_vars => AlarmExplained'
<1> SUFFICES ASSUME IInv, AlarmExplained, [Next]_vars,
                    NEW r \in Rules, NEW i \in DOMAIN attempts'[r]
             PROVE  Alarm(r, attempts'[r][i])
  BY DEF AlarmExplained, Alarm
<1>0. \A k \in DOMAIN attempts[r] : Alarm(r, attempts[r][k])
  BY DEF AlarmExplained, Alarm
<1>1. CASE UNCHANGED attempts
  BY <1>0, <1>1
<1>2. ASSUME NEW failed \in BOOLEAN, NEW v \in Values,
             attempts' = [attempts EXCEPT ![current] = Append(@, NewAttempt(failed))],
             Triggered(current, v),
             IF failed THEN v = 0 ELSE v = metric[current] \/ current \in edited
      PROVE  Alarm(r, attempts'[r][i])
  <2> DEFINE a == NewAttempt(failed)
  <2>1. a \in Attempts /\ Alarm(current, a)
    BY <1>2, NewAlarm, NewAttemptType
  <2> HIDE DEF a
  <2>2. attempts' = [attempts EXCEPT ![current] = Append(@, a)]
    BY <1>2 DEF a
  <2>3. CASE r # current
    BY <1>0, <2>1, <2>2, <2>3, AppendKeeps
  <2>4. CASE r = current
    <3>1. /\ i \in 1..(Len(attempts[r]) + 1) /\ DOMAIN attempts[r] = 1..Len(attempts[r])
          /\ Len(attempts[r]) \in Nat
          /\ attempts'[r][i] = IF i = Len(attempts[r]) + 1 THEN a ELSE attempts[r][i]
      BY <2>1, <2>2, <2>4, AppendKeeps
    <3> HIDE DEF Alarm
    <3>2. CASE i = Len(attempts[r]) + 1
      BY <2>1, <2>4, <3>1, <3>2
    <3>3. CASE i # Len(attempts[r]) + 1
      BY <1>0, <3>1, <3>3
    <3> QED
      BY <3>2, <3>3
  <2> QED
    BY <2>3, <2>4
<1>3. ASSUME Reporting, NEW q \in Attempts, Reported(q), Note(q)
      PROVE  Alarm(r, attempts'[r][i])
  <2>1. CASE r # current
    BY <1>0, <1>3, <2>1, NoteKeeps
  <2>2. CASE r = current
    <3>1. /\ i \in DOMAIN attempts[r] /\ Len(attempts[r]) \in DOMAIN attempts[r]
          /\ attempts'[r][i] = IF i = Len(attempts[r]) THEN q ELSE attempts[r][i]
      BY <1>3, <2>2, NoteKeeps
    <3>2. Alarm(r, Attempt)
      BY <1>0, <2>2, <3>1 DEF Attempt
    <3>3. Alarm(r, q)
      BY <1>3, <3>2 DEF Alarm, Reported
    <3> QED
      BY <1>0, <3>1, <3>3
  <2> QED
    BY <2>1, <2>2
<1> QED
  BY <1>1, <1>2, <1>3, AttemptsChange, QueryEffect, ReportEffect, RestartEffect

\* A rule is notified only when its metric has crossed its threshold, or its
\* query failed (an "lt" rule takes that for 0), or a user changed the rule while
\* the round was running (background.rs, evaluate_alerts_once).
THEOREM AlarmsAreExplained == Spec => []AlarmExplained
BY InitInv, NextInv, InitAlarm, NextAlarm, PTL DEF Spec

-----------------------------------------------------------------------------
(* Cooldown *)

LEMMA InitCool == Init => CInv
<1> SUFFICES ASSUME Init PROVE CInv
  OBVIOUS
<1>1. /\ \A r \in Rules : attempts[r] = <<>> /\ DOMAIN attempts[r] = {}
      /\ todo = {} /\ ~Busy
  BY EmptySeq DEF Init, Busy, Reporting
<1> QED
  BY <1>1 DEF CInv, OnceARound, Covered, CooldownKept

LEMMA AttemptTime ==
  ASSUME IInv, NEW r \in Rules, NEW i \in DOMAIN attempts[r]
  PROVE  attempts[r][i].now \in Nat
<1>1. attempts[r] \in Seq(Attempts)
  BY DEF IInv, TypeOK
<1>2. attempts[r][i] \in Attempts
  BY <1>1, ElementOfSeq
<1> QED
  BY <1>2 DEF Attempts

\* Steps before, between and after the evaluations: what a round reads of the
\* rules covers their notifications.
LEMMA LoopCool ==
  ASSUME IInv, CInv, LoopStep \/ Fetch \/ TakeNow \/ NoMoreRules
  PROVE  CInv'
<1>1. UNCHANGED <<rule, attempts>>
  BY DEF LoopStep, SelectPurge, PurgeEnds, SelectAlerts, Fetch, TakeNow, NoMoreRules,
         history
<1>2. ~Busy'
  BY DEF LoopStep, SelectPurge, PurgeEnds, SelectAlerts, Fetch, TakeNow, NoMoreRules,
         EndRound, Busy, Reporting
<1>3. todo' = todo \/ todo' = {} \/ todo' = Fetched
  BY DEF LoopStep, SelectPurge, PurgeEnds, SelectAlerts, Fetch, TakeNow, NoMoreRules,
         EndRound
<1>4. OnceARound'
  BY <1>1, <1>2, <1>3 DEF CInv, OnceARound, Fetched, EnabledRules, There
<1>5. Covered'
  BY <1>1, <1>2, <1>3 DEF CInv, Covered, Fetched, EnabledRules, There
<1> QED
  BY <1>1, <1>4, <1>5 DEF CInv, CooldownKept

\* A rule that is taken out of the round is not met again in it, and one that is
\* not cooling is past its cooldown.
LEMMA NextRuleCool ==
  ASSUME IInv, CInv, NextRule
  PROVE  CInv'
<1>1. UNCHANGED <<rule, attempts, now>> /\ pc = "rule"
  BY DEF NextRule, history
<1>2. PICK d \in todo :
        /\ todo' = todo \ {d}
        /\ \/ UNCHANGED <<pc, current>>
           \/ ~Cooling(d[1], d[2]) /\ pc' = "query" /\ current' = d[1]
  BY DEF NextRule
<1>3. CASE UNCHANGED <<pc, current>>
  <2>1. ~Busy'
    BY <1>1, <1>3 DEF Busy, Reporting
  <2> QED
    BY <1>1, <1>2, <2>1 DEF CInv, OnceARound, Covered, CooldownKept, There
<1>4. CASE ~Cooling(d[1], d[2]) /\ pc' = "query" /\ current' = d[1]
  <2>1. d[1] \in Rules /\ d[2] \in Nat \cup {Never} /\ now \in Nat
    BY DEF IInv, TypeOK
  <2>2. OnceARound'
    BY <1>1, <1>2, <1>4 DEF CInv, OnceARound
  <2>3. ASSUME NEW i \in DOMAIN attempts[d[1]], attempts[d[1]][i].stamped
        PROVE  now - attempts[d[1]][i].now >= Cooldown[d[1]]
    <3>1. Covers(d[2], attempts[d[1]][i].now)
      BY <2>1, <2>3 DEF CInv, Covered
    <3>2. attempts[d[1]][i].now \in Nat
      BY <2>1, AttemptTime
    <3>3. Cooldown[d[1]] \in Nat
      BY <2>1, CooldownAssumption
    <3>4. d[2] \in Nat /\ attempts[d[1]][i].now <= d[2]
      BY <2>1, <3>1 DEF Covers
    <3>5. ~(now - d[2] < Cooldown[d[1]])
      BY <1>4, <3>1 DEF Cooling, Covers
    <3> QED
      BY <2>1, <3>2, <3>3, <3>4, <3>5
  <2>4. Covered'
    BY <1>1, <1>2, <1>4, <2>3 DEF CInv, Covered, There
  <2> QED
    BY <1>1, <2>2, <2>4 DEF CInv, CooldownKept
<1> QED
  BY <1>2, <1>3, <1>4

\* A new notification comes after the cooldown of those before.
LEMMA QueryCool ==
  ASSUME IInv, CInv, Query
  PROVE  CInv'
<1>1. UNCHANGED <<rule, todo, now>> /\ pc = "query" /\ current \in Rules
  BY DEF Query, IInv, TypeOK
<1>2. CASE pc' = "rule" /\ UNCHANGED attempts
  <2>1. ~Busy'
    BY <1>2 DEF Busy, Reporting
  <2> QED
    BY <1>1, <1>2, <2>1 DEF CInv, OnceARound, Covered, CooldownKept, There
<1>3. ASSUME NEW failed \in BOOLEAN, pc' = "webhook", current' = current,
             attempts' = [attempts EXCEPT ![current] = Append(@, NewAttempt(failed))]
      PROVE  CInv'
  <2> DEFINE a == NewAttempt(failed)
             n == Len(attempts[current])
  <2>1. a \in Attempts /\ a.now = now /\ ~a.stamped
    BY NewAttemptType DEF NewAttempt
  <2> HIDE DEF a
  <2>2. /\ \A r \in Rules : r # current => attempts'[r] = attempts[r]
        /\ DOMAIN attempts[current] = 1..n /\ n \in Nat
        /\ DOMAIN attempts'[current] = 1..(n + 1)
        /\ \A i \in 1..(n + 1) :
             attempts'[current][i] = IF i = n + 1 THEN a ELSE attempts[current][i]
    BY <1>3, <2>1, AppendKeeps DEF a
  <2> HIDE DEF n
  <2>3. \A i \in 1..n : attempts[current][i].stamped
          => now - attempts[current][i].now >= Cooldown[current]
    BY <1>1, <2>2 DEF CInv, Covered, Busy
  <2>4. rule[current].row # "none"
    BY <1>1 DEF CInv, OnceARound, Busy
  <2>5. OnceARound'
    BY <1>1, <1>3, <2>2, <2>4 DEF CInv, OnceARound, Busy
  <2>6. ASSUME NEW r \in Rules, NEW i \in DOMAIN attempts'[r], attempts'[r][i].stamped
        PROVE  i \in DOMAIN attempts[r] /\ attempts'[r][i] = attempts[r][i]
    <3>1. CASE r # current
      BY <2>2, <2>6, <3>1
    <3>2. CASE r = current
      BY <2>1, <2>2, <2>6, <3>2
    <3> QED
      BY <3>1, <3>2
  <2>7. Covered'
    BY <1>1, <1>3, <2>6 DEF CInv, Covered, Busy, There
  <2>8. ASSUME NEW r \in Rules, NEW j \in DOMAIN attempts'[r], NEW i \in 1..(j - 1),
               attempts'[r][i].stamped
        PROVE  attempts'[r][j].now - attempts'[r][i].now >= Cooldown[r]
    <3>1. CASE r # current
      BY <2>2, <2>8, <3>1 DEF CInv, CooldownKept
    <3>2. CASE r = current /\ j = n + 1
      BY <2>1, <2>2, <2>3, <2>8, <3>2
    <3>3. CASE r = current /\ j # n + 1
      <4>1. j \in 1..n /\ i \in 1..n
        BY <2>2, <3>3
      <4> QED
        BY <2>2, <2>8, <3>3, <4>1 DEF CInv, CooldownKept
    <3> QED
      BY <3>1, <3>2, <3>3
  <2> QED
    BY <2>5, <2>7, <2>8 DEF CInv, CooldownKept
<1> QED
  BY <1>2, <1>3, QueryEffect

\* The stamp of a notification is as late as any before.
LEMMA ReportCool ==
  ASSUME IInv, CInv, Webhook \/ WriteHistory \/ Stamp
  PROVE  CInv'
<1> DEFINE n == Len(attempts[current])
<1>0. Reporting /\ Busy /\ current \in Rules /\ now \in Nat
  BY ReportEffect DEF Busy, IInv, TypeOK
<1>1. UNCHANGED <<todo, now>> /\ (pc' # "rule" => UNCHANGED current) /\ (Busy' => pc' # "rule")
  BY DEF Webhook, WriteHistory, Stamp, Busy, Reporting
<1>2. CASE UNCHANGED <<rule, attempts>>
  BY <1>0, <1>1, <1>2 DEF CInv, OnceARound, Covered, CooldownKept, There
<1>3. ASSUME NEW q \in Attempts, Note(q), q.now = now,
             \/ UNCHANGED rule /\ ~q.stamped
             \/ ~Busy' /\ rule' = IF There(current)
                                    THEN [rule EXCEPT ![current].last_triggered_at = now]
                                    ELSE rule
      PROVE  CInv'
  <2>1. /\ \A r \in Rules : r # current => attempts'[r] = attempts[r]
        /\ \A r \in Rules : DOMAIN attempts'[r] = DOMAIN attempts[r]
        /\ n \in DOMAIN attempts[current]
        /\ \A i \in DOMAIN attempts[current] :
             attempts'[current][i] = IF i = n THEN q ELSE attempts[current][i]
        /\ attempts[current] \in Seq(Attempts)
    BY <1>0, <1>3, NoteKeeps DEF IInv, TypeOK
  <2>2. attempts[current][n].now = now
    BY <1>0 DEF IInv, UnderWay, Attempt
  <2>3. DOMAIN attempts[current] = 1..n /\ n \in Nat
    BY <2>1, LenProperties
  <2> HIDE DEF n
  <2>4. /\ \A r \in Rules : rule'[r].row = rule[r].row
        /\ \A r \in Rules : r # current => rule'[r] = rule[r]
        /\ ~UNCHANGED rule /\ There(current) => rule'[current].last_triggered_at = now
    <3>1. CASE rule' = rule
      BY <3>1
    <3>2. CASE rule' = [rule EXCEPT ![current].last_triggered_at = now]
      <4>1. rule \in [Rules -> RuleRows] /\ rule[current] \in RuleRows
        BY <1>0 DEF IInv, TypeOK
      <4>2. rule' = [rule EXCEPT ![current] = [rule[current] EXCEPT !.last_triggered_at = now]]
        BY <3>2
      <4>3. /\ \A r \in Rules : r # current => rule'[r] = rule[r]
            /\ rule'[current] = [rule[current] EXCEPT !.last_triggered_at = now]
        BY <1>0, <4>1, <4>2
      <4>4. /\ rule'[current].row = rule[current].row
            /\ rule'[current].last_triggered_at = now
        BY <4>1, <4>3 DEF RuleRows
      <4> QED
        BY <4>3, <4>4
    <3> QED
      BY <1>3, <3>1, <3>2
  <2>5. OnceARound'
    BY <1>0, <1>1, <2>1, <2>3, <2>4, EmptySeq DEF CInv, OnceARound, Busy
  <2>6. ASSUME NEW r \in Rules, NEW i \in DOMAIN attempts[r]
        PROVE  /\ attempts'[r][i].now = attempts[r][i].now
               /\ \/ r = current /\ i = n /\ attempts'[r][i] = q
                  \/ attempts'[r][i] = attempts[r][i]
    <3>1. CASE r # current
      BY <2>1, <3>1
    <3>2. CASE r = current
      BY <1>3, <2>1, <2>2, <3>2
    <3> QED
      BY <3>1, <3>2
  <2>7. CooldownKept'
    <3> SUFFICES ASSUME NEW r \in Rules, NEW j \in DOMAIN attempts[r],
                        NEW i \in 1..(j - 1), attempts'[r][i].stamped
                 PROVE  attempts'[r][j].now - attempts'[r][i].now >= Cooldown[r]
      BY <2>1 DEF CooldownKept
    <3>1. i \in DOMAIN attempts[r] /\ (r = current => i # n)
      <4>1. attempts[r] \in Seq(Attempts)
        BY DEF IInv, TypeOK
      <4>2. DOMAIN attempts[r] = 1..Len(attempts[r]) /\ Len(attempts[r]) \in Nat
        BY <4>1, LenProperties
      <4>3. i \in DOMAIN attempts[r] /\ j \in 1..Len(attempts[r])
        BY <4>2
      <4>4. r = current => i # n
        BY <2>3, <4>2
      <4> QED
        BY <4>3, <4>4
    <3>2. attempts[r][i].stamped
      BY <2>6, <3>1
    <3> QED
      BY <2>6, <3>1, <3>2 DEF CInv, CooldownKept
  <2>8. ASSUME NEW r \in Rules, NEW i \in DOMAIN attempts[r], attempts'[r][i].stamped,
               NEW d \in todo, d[1] = r
        PROVE  Covers(d[2], attempts'[r][i].now)
    <3>1. r # current
      BY <1>0, <2>8 DEF CInv, OnceARound
    <3> QED
      BY <2>6, <2>8, <3>1 DEF CInv, Covered
  <2>9. ASSUME UNCHANGED rule, ~q.stamped
        PROVE  Covered'
    <3>1. ASSUME NEW r \in Rules, NEW i \in DOMAIN attempts[r], attempts'[r][i].stamped
          PROVE  attempts'[r][i] = attempts[r][i]
      BY <2>6, <2>9, <3>1
    <3> QED
      BY <1>0, <1>1, <2>1, <2>8, <2>9, <3>1 DEF CInv, Covered, There
  <2>10. ASSUME ~Busy', rule' = IF There(current)
                                  THEN [rule EXCEPT ![current].last_triggered_at = now]
                                  ELSE rule
         PROVE  Covered'
    <3>1. ASSUME NEW r \in Rules, NEW i \in DOMAIN attempts[r], attempts'[r][i].stamped,
                 There(r)
          PROVE  Covers(rule'[r].last_triggered_at, attempts'[r][i].now)
      <4>1. CASE r # current
        BY <2>4, <2>6, <3>1, <4>1 DEF CInv, Covered
      <4>2. CASE r = current
        <5>1. rule'[r].last_triggered_at = now
          BY <1>0, <2>10, <3>1, <4>2 DEF IInv, TypeOK, RuleRows
        <5>2. attempts'[r][i].now <= now
          <6>1. CASE i = n
            BY <1>0, <2>2, <2>6, <4>2, <6>1
          <6>2. CASE i # n
            <7>1. attempts[r][i].stamped
              BY <2>6, <3>1, <6>2
            <7>2. now - attempts[r][i].now >= Cooldown[r]
              BY <1>0, <4>2, <7>1 DEF CInv, Covered
            <7>3. Cooldown[r] \in Nat /\ attempts[r][i].now \in Nat
              BY CooldownAssumption, AttemptTime
            <7> QED
              BY <1>0, <2>6, <7>2, <7>3
          <6> QED
            BY <6>1, <6>2
        <5>3. now # Never
          BY <1>0 DEF Never
        <5> QED
          BY <5>1, <5>2, <5>3 DEF Covers
      <4> QED
        BY <4>1, <4>2
    <3>2. \A r \in Rules : There(r)' <=> There(r)
      BY <2>4 DEF There
    <3> QED
      BY <1>1, <2>1, <2>8, <2>10, <3>1, <3>2 DEF Covered, There
  <2> QED
    BY <1>3, <2>5, <2>7, <2>9, <2>10 DEF CInv
<1>4. CASE Webhook \/ WriteHistory
  <2>1. UNCHANGED rule /\ pc # "stamp"
    BY <1>4 DEF Webhook, WriteHistory
  <2> QED
    BY <1>3, <2>1, ReportEffect DEF Reported
<1>5. CASE Stamp
  <2> DEFINE a == Attempt
             q == [a EXCEPT !.stamped = TRUE]
  <2>1. \/ UNCHANGED <<rule, attempts>>
        \/ /\ Note(q)
           /\ rule' = IF There(current)
                        THEN [rule EXCEPT ![current].last_triggered_at = now] ELSE rule
    BY <1>5 DEF Stamp
  <2>2. a \in Attempts /\ a.now = now
    BY <1>0, AttemptType
  <2> HIDE DEF a
  <2>3. q \in Attempts /\ q.now = now
    BY <2>2 DEF Attempts
  <2>4. ~Busy'
    BY <1>5 DEF Stamp, Busy, Reporting
  <2> HIDE DEF q
  <2> QED
    BY <1>2, <1>3, <2>1, <2>3, <2>4
<1> QED
  BY <1>4, <1>5

\* What a restart notes of the notification under way does not stamp it.
LEMMA RestartCool ==
  ASSUME IInv, CInv, Restart
  PROVE  CInv'
<1> DEFINE n == Len(attempts[current])
<1>1. UNCHANGED rule /\ todo' = {} /\ ~Busy'
  BY RestartEffect DEF Busy, Reporting
<1>2. /\ \A r \in Rules : DOMAIN attempts'[r] = DOMAIN attempts[r]
      /\ \A r \in Rules : \A i \in DOMAIN attempts[r] :
           /\ attempts'[r][i].now = attempts[r][i].now
           /\ attempts'[r][i].stamped => attempts[r][i].stamped
  <2>1. CASE UNCHANGED attempts
    BY <2>1
  <2>2. ASSUME Reporting, NEW q \in Attempts, q.now = now, Note(q), ~q.stamped
        PROVE  /\ \A r \in Rules : DOMAIN attempts'[r] = DOMAIN attempts[r]
               /\ \A r \in Rules : \A i \in DOMAIN attempts[r] :
                    /\ attempts'[r][i].now = attempts[r][i].now
                    /\ attempts'[r][i].stamped => attempts[r][i].stamped
    <3>1. /\ \A r \in Rules : r # current => attempts'[r] = attempts[r]
          /\ \A r \in Rules : DOMAIN attempts'[r] = DOMAIN attempts[r]
          /\ \A i \in DOMAIN attempts[current] :
               attempts'[current][i] = IF i = n THEN q ELSE attempts[current][i]
      BY <2>2, NoteKeeps
    <3>2. attempts[current][n].now = now
      BY <2>2 DEF IInv, UnderWay, Attempt
    <3> HIDE DEF n
    <3> QED
      BY <2>2, <3>1, <3>2
  <2> QED
    BY <2>1, <2>2, RestartEffect DEF Reported
<1>3. \A r \in Rules : attempts[r] = <<>> => attempts'[r] = <<>>
  <2> SUFFICES ASSUME NEW r \in Rules, attempts[r] = <<>> PROVE attempts'[r] = <<>>
    OBVIOUS
  <2>1. attempts'[r] \in Seq(Attempts)
    BY RestartInv DEF IInv, TypeOK
  <2>2. DOMAIN attempts'[r] = {}
    BY <1>2, EmptySeq
  <2>3. DOMAIN attempts'[r] = 1..Len(attempts'[r]) /\ Len(attempts'[r]) \in Nat
    BY <2>1, LenProperties
  <2>4. Len(attempts'[r]) = 0
    <3>1. CASE Len(attempts'[r]) > 0
      <4>1. 1 \in 1..Len(attempts'[r])
        BY <2>3, <3>1
      <4> QED
        BY <2>2, <2>3, <4>1
    <3> QED
      BY <2>3, <3>1
  <2> QED
    BY <2>1, <2>4, EmptySeq
<1>4. OnceARound'
  BY <1>1, <1>3 DEF CInv, OnceARound
<1>5. Covered'
  BY <1>1, <1>2 DEF CInv, Covered, There
<1>6. CooldownKept'
  <2> SUFFICES ASSUME NEW r \in Rules, NEW j \in DOMAIN attempts[r], NEW i \in 1..(j - 1),
                      attempts'[r][i].stamped
               PROVE  attempts'[r][j].now - attempts'[r][i].now >= Cooldown[r]
    BY <1>2 DEF CooldownKept
  <2>1. i \in DOMAIN attempts[r]
    <3>1. attempts[r] \in Seq(Attempts)
      BY DEF IInv, TypeOK
    <3>2. DOMAIN attempts[r] = 1..Len(attempts[r]) /\ Len(attempts[r]) \in Nat
      BY <3>1, LenProperties
    <3> QED
      BY <3>2
  <2> QED
    BY <1>2, <2>1 DEF CInv, CooldownKept
<1> QED
  BY <1>4, <1>5, <1>6 DEF CInv

\* A new rule has no past, and an update keeps last_triggered_at.
LEMMA UserCool ==
  ASSUME IInv, CInv, NEW r \in Rules, UserStep(r) \/ Drift(r) \/ Tick
  PROVE  CInv'
<1>1. UNCHANGED <<task, attempts>>
  BY DEF UserStep, Create, Update, Delete, Drift, Tick, history
<1>2. \A p \in Rules : \/ rule'[p] = rule[p]
                       \/ rule[p].row = "none" /\ rule'[p].row = "there"
                       \/ /\ rule[p].row = "there" /\ rule'[p].row = "there"
                          /\ rule'[p].last_triggered_at = rule[p].last_triggered_at
                       \/ rule[p].row = "there" /\ rule'[p].row = "deleted"
  BY DEF UserStep, Create, Update, Delete, Drift, Tick, There, NoRow, IInv, TypeOK, RuleRows
<1>3. UNCHANGED <<todo, now, current, Busy>>
  BY <1>1 DEF task, Busy, Reporting
<1>4. OnceARound'
  BY <1>1, <1>2, <1>3 DEF CInv, OnceARound
<1>5. \A p \in Rules : rule[p].row = "none" => DOMAIN attempts[p] = {}
  BY EmptySeq DEF CInv, OnceARound
<1>6. Covered'
  BY <1>1, <1>2, <1>3, <1>5 DEF CInv, Covered, There
<1> QED
  BY <1>1, <1>4, <1>6 DEF CInv, CooldownKept

LEMMA NextCool == IInv /\ CInv /\ [Next]_vars => CInv'
<1> SUFFICES ASSUME IInv, CInv, [Next]_vars PROVE CInv'
  OBVIOUS
<1>1. CASE LoopStep \/ RoundStep \/ Restart \/ Webhook
  BY <1>1, LoopCool, NextRuleCool, QueryCool, ReportCool, RestartCool DEF RoundStep
<1>2. CASE (\E r \in Rules : UserStep(r) \/ Drift(r)) \/ Tick
  BY <1>2, UserCool, AnyRuleType
<1>3. CASE UNCHANGED vars
  BY <1>3 DEF vars, task, history, CInv, OnceARound, Covered, CooldownKept, Busy, Reporting,
              There
<1> QED
  BY <1>1, <1>2, <1>3 DEF Next

\* Two notifications of a rule are at least its cooldown apart, whichever rounds
\* were missed and made up for, deleted or changed rules, restarts and failures
\* came between, except after a stamp that could not be written (background.rs,
\* evaluate_alerts_once, "cooldown").
THEOREM CooldownsAreKept == Spec => []CooldownKept
<1>1. CInv => CooldownKept
  BY DEF CInv
<1> QED
  BY <1>1, InitInv, NextInv, InitCool, NextCool, PTL DEF Spec

-----------------------------------------------------------------------------
(* Rules that are not enabled *)

LEMMA InitSilent == Init => SilentInv
BY DEF Init, SilentInv, DisabledSilent

\* Only the query of a rule counts a belated notification, and only the fetch of
\* a round puts a rule up for one.
LEMMA NextSilent == IInv /\ CInv /\ SilentInv /\ [Next]_vars => SilentInv'
<1> SUFFICES ASSUME IInv, CInv, SilentInv, [Next]_vars PROVE SilentInv'
  OBVIOUS
<1>0. \A r \in Rules : belated[r] \in Nat
  BY DEF IInv, TypeOK
<1>1. CASE LoopStep \/ TakeNow \/ NoMoreRules \/ Restart
  <2>1. UNCHANGED <<rule, belated>> /\ todo' \subseteq todo /\ pc' # "query"
    BY <1>1 DEF LoopStep, SelectPurge, PurgeEnds, SelectAlerts, TakeNow, NoMoreRules,
                Restart, EndRound, history
  <2> QED
    BY <2>1 DEF SilentInv, DisabledSilent, EnabledRules, There
<1>2. CASE Fetch
  <2>1. /\ UNCHANGED <<rule, belated>> /\ pc' # "query"
        /\ todo' = {} \/ todo' = Fetched
    BY <1>2 DEF Fetch, EndRound
  <2>2. \A d \in todo' : d[1] \in EnabledRules
    BY <2>1 DEF Fetched
  <2> QED
    BY <2>1, <2>2 DEF SilentInv, DisabledSilent, EnabledRules, There
<1>3. CASE NextRule
  <2>1. PICK d \in todo :
          /\ todo' = todo \ {d}
          /\ UNCHANGED <<pc, current>> \/ (pc' = "query" /\ current' = d[1])
    BY <1>3 DEF NextRule
  <2>2. UNCHANGED <<rule, belated>>
    BY <1>3 DEF NextRule, history
  <2> QED
    BY <2>1, <2>2 DEF SilentInv, DisabledSilent, EnabledRules, There
<1>4. CASE Query
  <2>1. /\ UNCHANGED <<rule, todo>> /\ pc = "query" /\ current \in Rules
        /\ belated \in [Rules -> Nat]
    BY <1>4 DEF Query, IInv, TypeOK
  <2>2. pc' # "query"
    BY <1>4, QueryEffect
  <2>3. \/ UNCHANGED belated
        \/ current \notin EnabledRules /\ belated' = [belated EXCEPT ![current] = @ + 1]
    BY <1>4, QueryEffect
  <2>4. CASE UNCHANGED belated
    BY <2>1, <2>2, <2>4 DEF SilentInv, DisabledSilent, EnabledRules, There
  <2>5. CASE current \notin EnabledRules /\ belated' = [belated EXCEPT ![current] = @ + 1]
    <3>1. belated[current] = 0
      BY <2>1 DEF SilentInv
    <3>2. \A r \in Rules : belated'[r] = IF r = current THEN 1 ELSE belated[r]
      BY <2>1, <2>5, <3>1
    <3>3. DisabledSilent'
      BY <3>2 DEF SilentInv, DisabledSilent
    <3>4. rule[current].row # "none" /\ \A d \in todo : d[1] # current
      BY <2>1 DEF CInv, OnceARound, Busy
    <3>5. \A d \in todo : d[1] \in Rules
      BY DEF IInv, TypeOK
    <3> QED
      BY <2>1, <2>2, <2>5, <3>2, <3>3, <3>4, <3>5 DEF SilentInv, EnabledRules, There
  <2> QED
    BY <2>3, <2>4, <2>5
<1>5. CASE Webhook \/ WriteHistory \/ Stamp
  <2>1. UNCHANGED <<todo, belated>> /\ pc' # "query"
    BY <1>5 DEF Webhook, WriteHistory, Stamp
  <2>2. \A r \in Rules : rule'[r].row = rule[r].row /\ rule'[r].enabled = rule[r].enabled
    <3>1. \/ UNCHANGED rule
          \/ rule' = [rule EXCEPT ![current] = [rule[current] EXCEPT !.last_triggered_at = now]]
      BY <1>5 DEF Webhook, WriteHistory, Stamp
    <3>2. current \in Rules /\ rule \in [Rules -> RuleRows] /\ rule[current] \in RuleRows
      BY DEF IInv, TypeOK
    <3> DEFINE row == [rule[current] EXCEPT !.last_triggered_at = now]
    <3>3. row.row = rule[current].row /\ row.enabled = rule[current].enabled
      BY <3>2 DEF RuleRows
    <3> HIDE DEF row
    <3>4. UNCHANGED rule \/ rule' = [rule EXCEPT ![current] = row]
      BY <3>1 DEF row
    <3> QED
      BY <3>2, <3>3, <3>4
  <2> QED
    BY <2>1, <2>2 DEF SilentInv, DisabledSilent, EnabledRules, There
<1>6. ASSUME NEW p \in Rules, UserStep(p) \/ Drift(p) \/ Tick
      PROVE  SilentInv'
  <2>1. UNCHANGED <<todo, pc, current>>
    BY <1>6 DEF UserStep, Create, Update, Delete, Drift, Tick, task
  <2>2. \A r \in Rules : belated'[r] = belated[r] \/ belated'[r] = 0
    BY <1>6 DEF UserStep, Create, Update, Delete, Drift, Tick, history, IInv, TypeOK
  <2>3. \A r \in Rules : rule'[r].row = "none" => rule[r].row = "none"
    <3>1. CASE Create(p)
      <4>1. \A r \in Rules : r # p => rule'[r] = rule[r]
        BY <3>1 DEF Create, IInv, TypeOK
      <4> QED
        BY <3>1, <4>1 DEF Create
    <3>2. CASE Update(p)
      <4>1. PICK enabled \in BOOLEAN :
              rule' = [rule EXCEPT ![p] = [rule[p] EXCEPT !.enabled = enabled]]
        BY <3>2 DEF Update
      <4>2. rule[p] \in RuleRows /\ rule \in [Rules -> RuleRows]
        BY DEF IInv, TypeOK
      <4> DEFINE row == [rule[p] EXCEPT !.enabled = enabled]
      <4>3. row.row = rule[p].row
        BY <4>2 DEF RuleRows
      <4> HIDE DEF row
      <4>4. rule' = [rule EXCEPT ![p] = row]
        BY <4>1 DEF row
      <4> QED
        BY <4>2, <4>3, <4>4
    <3>3. CASE Delete(p)
      <4> DEFINE gone == [NoRow EXCEPT !.row = "deleted"]
      <4>1. gone.row = "deleted"
        BY DEF NoRow
      <4>2. rule' = [rule EXCEPT ![p] = gone]
        BY <3>3 DEF Delete
      <4> HIDE DEF gone
      <4> QED
        BY <4>1, <4>2 DEF IInv, TypeOK
    <3>4. CASE Drift(p) \/ Tick
      BY <3>4 DEF Drift, Tick
    <3> QED
      BY <1>6, <3>1, <3>2, <3>3, <3>4 DEF UserStep
  <2>4. ASSUME NEW r \in Rules, rule'[r].row = "there", rule'[r].enabled
        PROVE  belated'[r] = 0
    <3>1. CASE Update(p)
      <4>1. PICK enabled \in BOOLEAN :
              /\ rule' = [rule EXCEPT ![p].enabled = enabled]
              /\ belated' = IF enabled THEN [belated EXCEPT ![p] = 0] ELSE belated
        BY <3>1 DEF Update
      <4>2. CASE r # p
        BY <2>2, <2>4, <4>1, <4>2 DEF SilentInv, EnabledRules, There, IInv, TypeOK
      <4>3. CASE r = p
        <5>1. rule' = [rule EXCEPT ![p] = [rule[p] EXCEPT !.enabled = enabled]]
          BY <4>1
        <5>2. rule[p] \in RuleRows /\ rule \in [Rules -> RuleRows]
          BY DEF IInv, TypeOK
        <5>3. [rule[p] EXCEPT !.enabled = enabled].enabled = enabled
          BY <5>2 DEF RuleRows
        <5>4. enabled
          BY <2>4, <4>3, <5>1, <5>2, <5>3
        <5> QED
          BY <4>1, <4>3, <5>4 DEF IInv, TypeOK
      <4> QED
        BY <4>2, <4>3
    <3>2. CASE Create(p)
      <4>1. UNCHANGED belated /\ rule[p].row = "none"
        BY <3>2 DEF Create, history
      <4>2. \A q \in Rules : q # p => rule'[q] = rule[q]
        BY <3>2 DEF Create, IInv, TypeOK
      <4> QED
        BY <2>4, <4>1, <4>2 DEF SilentInv, EnabledRules, There
    <3>3. CASE Delete(p)
      <4>1. UNCHANGED belated /\ rule' = [rule EXCEPT ![p] = [NoRow EXCEPT !.row = "deleted"]]
        BY <3>3 DEF Delete, history
      <4> DEFINE gone == [NoRow EXCEPT !.row = "deleted"]
      <4>2. gone.row = "deleted"
        BY DEF NoRow
      <4> HIDE DEF gone
      <4>3. r # p /\ rule'[r] = rule[r]
        BY <2>4, <4>1, <4>2 DEF gone, IInv, TypeOK
      <4> QED
        BY <2>4, <4>1, <4>3 DEF SilentInv, EnabledRules, There
    <3>4. CASE Drift(p) \/ Tick
      BY <2>4, <3>4 DEF Drift, Tick, history, SilentInv, EnabledRules, There
    <3> QED
      BY <1>6, <3>1, <3>2, <3>3, <3>4 DEF UserStep
  <2>5. \A d \in todo : d[1] \in Rules
    BY DEF IInv, TypeOK
  <2>6. \A r \in Rules : belated'[r] <= 1
    BY <1>0, <2>2 DEF SilentInv, DisabledSilent
  <2>7. current \in Rules
    BY DEF IInv, TypeOK
  <2> QED
    BY <2>1, <2>2, <2>3, <2>4, <2>5, <2>6, <2>7
       DEF SilentInv, DisabledSilent, EnabledRules, There
<1>7. CASE UNCHANGED vars
  BY <1>7 DEF vars, task, history, SilentInv, DisabledSilent, EnabledRules, There
<1> QED
  BY <1>1, <1>2, <1>3, <1>4, <1>5, <1>6, <1>7, AnyRuleType DEF Next, RoundStep

\* A rule that was disabled or deleted notifies once more at most: a round that
\* had read it evaluates it a single time, and no other reads it, whatever the
\* users change meanwhile and however often the task restarts (background.rs,
\* evaluate_alerts_once, "WHERE enabled" and the loop over the rows it returned).
THEOREM DisabledAreSilent == Spec => []DisabledSilent
<1>1. SilentInv => DisabledSilent
  BY DEF SilentInv
<1> QED
  BY <1>1, InitInv, NextInv, InitCool, NextCool, InitSilent, NextSilent, PTL DEF Spec

-----------------------------------------------------------------------------
(* The history *)

LEMMA InitHistory == Init => HInv
<1> SUFFICES ASSUME Init PROVE HInv
  OBVIOUS
<1>1. \A r \in Rules : attempts[r] = <<>>
  BY DEF Init
<1>2. alert_history = <<>> /\ pc = "select"
  BY DEF Init
<1>3. DOMAIN alert_history = {} /\ \A r \in Rules : Shown(r) = {}
  BY <1>1, <1>2 DEF Shown
<1> QED
  BY <1>2, <1>3 DEF HInv, Written

\* A step that leaves the two logs alone.
LEMMA LogsStay ==
  ASSUME HInv, UNCHANGED <<alert_history, attempts>>
  PROVE  Written'
BY DEF HInv, Written, Shown

\* A notification begins without an entry.
LEMMA QueryHistory ==
  ASSUME IInv, HInv, Query
  PROVE  HInv'
<1>1. UNCHANGED alert_history
  BY DEF Query
<1>2. CASE pc' = "rule" /\ UNCHANGED attempts
  BY <1>1, <1>2, LogsStay DEF HInv
<1>3. ASSUME NEW failed \in BOOLEAN, pc' = "webhook", current' = current,
             attempts' = [attempts EXCEPT ![current] = Append(@, NewAttempt(failed))]
      PROVE  HInv'
  <2> DEFINE a == NewAttempt(failed)
             n == Len(attempts[current])
  <2>1. a \in Attempts /\ a.entry = 0
    BY NewAttemptType DEF NewAttempt
  <2> HIDE DEF a
  <2>2. /\ \A r \in Rules : r # current => attempts'[r] = attempts[r]
        /\ attempts'[current][Len(attempts'[current])] = a
        /\ DOMAIN attempts[current] = 1..n /\ n \in Nat
        /\ DOMAIN attempts'[current] = 1..(n + 1)
        /\ \A i \in 1..(n + 1) :
             attempts'[current][i] = IF i = n + 1 THEN a ELSE attempts[current][i]
    BY <1>3, <2>1, AppendKeeps DEF a
  <2> HIDE DEF n
  <2>3. ASSUME NEW r \in Rules
        PROVE  Shown(r)' = Shown(r) /\ \A i \in Shown(r) : attempts'[r][i] = attempts[r][i]
    <3>1. CASE r # current
      BY <2>2, <3>1 DEF Shown
    <3>2. CASE r = current
      BY <2>1, <2>2, <3>2 DEF Shown
    <3> QED
      BY <3>1, <3>2
  <2>4. Written'
    BY <1>1, <2>3 DEF HInv, Written
  <2>5. Attempt'.entry = 0
    BY <1>3, <2>1, <2>2 DEF Attempt
  <2> QED
    BY <2>4, <2>5 DEF HInv
<1> QED
  BY <1>2, <1>3, QueryEffect

\* The answer of the receiver and the stamp touch no notification that has an
\* entry but to stamp it.
LEMMA NoteHistory ==
  ASSUME IInv, HInv, Reporting, NEW q \in Attempts, Note(q), UNCHANGED alert_history,
         q.entry = Attempt.entry, q.now = Attempt.now,
         q.entry = 0 \/ q.status = Attempt.status
  PROVE  Written'
<1> DEFINE n == Len(attempts[current])
<1>1. /\ \A r \in Rules : r # current => attempts'[r] = attempts[r]
      /\ \A r \in Rules : DOMAIN attempts'[r] = DOMAIN attempts[r]
      /\ \A i \in DOMAIN attempts[current] :
           attempts'[current][i] = IF i = n THEN q ELSE attempts[current][i]
  BY NoteKeeps
<1>2. q.entry = attempts[current][n].entry /\ q.now = attempts[current][n].now
      /\ (q.entry = 0 \/ q.status = attempts[current][n].status)
  BY DEF Attempt
<1> HIDE DEF n
<1>3. ASSUME NEW r \in Rules
      PROVE  /\ Shown(r)' = Shown(r)
             /\ \A i \in Shown(r) : /\ attempts'[r][i].entry = attempts[r][i].entry
                                    /\ attempts'[r][i].now = attempts[r][i].now
                                    /\ attempts'[r][i].status = attempts[r][i].status
  <2>1. CASE r # current
    BY <1>1, <2>1 DEF Shown
  <2>2. CASE r = current
    BY <1>1, <1>2, <2>2 DEF Shown
  <2> QED
    BY <2>1, <2>2
<1> QED
  BY <1>3 DEF HInv, Written

\* A new entry is the last one, and it is that of the last notification of its
\* rule, which had none.
LEMMA EntryHistory ==
  ASSUME IInv, HInv, pc = "history",
         alert_history' = Append(alert_history,
           [rule |-> current, now |-> now, status |-> Attempt.status]),
         Note([Attempt EXCEPT !.entry = Len(alert_history) + 1])
  PROVE  Written'
<1> DEFINE a == Attempt
           q == [a EXCEPT !.entry = Len(alert_history) + 1]
           e == [rule |-> current, now |-> now, status |-> a.status]
           n == Len(attempts[current])
           m == Len(alert_history)
<1>1. Reporting /\ current \in Rules
  BY DEF Reporting, IInv, TypeOK
<1>2. a \in Attempts /\ a.now = now /\ a.entry = 0 /\ a.status # "waiting"
  BY <1>1, AttemptType DEF HInv, IInv, UnderWay
<1>3. a = attempts[current][n]
  BY DEF Attempt
<1> HIDE DEF a
<1>4. e \in Entries
  BY <1>1, <1>2 DEF Attempts, Entries, IInv, TypeOK
<1>5. alert_history \in Seq(Entries) /\ m \in Nat /\ DOMAIN alert_history = 1..m
  BY DEF IInv, TypeOK
<1>6. q \in Attempts /\ q.now = now /\ q.entry = m + 1 /\ q.status = a.status
  BY <1>2, <1>5 DEF Attempts
<1>7. alert_history' = Append(alert_history, e) /\ Note(q)
  BY DEF a
<1>8. /\ e.rule = current /\ e = [rule |-> current, now |-> q.now, status |-> q.status]
  BY <1>6
<1> HIDE DEF q, e
<1>9. /\ DOMAIN alert_history' = 1..(m + 1)
      /\ \A j \in 1..(m + 1) :
           alert_history'[j] = IF j = m + 1 THEN e ELSE alert_history[j]
  <2>1. /\ Append(alert_history, e) \in Seq(Entries)
        /\ Len(Append(alert_history, e)) = m + 1
        /\ \A j \in 1..m : Append(alert_history, e)[j] = alert_history[j]
        /\ Append(alert_history, e)[m + 1] = e
    BY <1>4, <1>5, AppendProperties
  <2> DEFINE h == Append(alert_history, e)
  <2>2. DOMAIN h = 1..Len(h)
    BY <2>1, LenProperties
  <2>3. DOMAIN h = 1..(m + 1)
        /\ \A j \in 1..(m + 1) : h[j] = IF j = m + 1 THEN e ELSE alert_history[j]
    BY <1>5, <2>1, <2>2
  <2> HIDE DEF h
  <2>4. alert_history' = h
    BY <1>7 DEF h
  <2> QED
    BY <2>3, <2>4
<1>10. /\ \A r \in Rules : r # current => attempts'[r] = attempts[r]
       /\ \A r \in Rules : DOMAIN attempts'[r] = DOMAIN attempts[r]
       /\ n \in DOMAIN attempts[current]
       /\ \A i \in DOMAIN attempts[current] :
            attempts'[current][i] = IF i = n THEN q ELSE attempts[current][i]
  BY <1>1, <1>6, <1>7, NoteKeeps
<1>11. DOMAIN attempts[current] = 1..n /\ n \in Nat
  <2>1. attempts[current] \in Seq(Attempts)
    BY <1>1 DEF IInv, TypeOK
  <2> QED
    BY <2>1, LenProperties
<1>12. \A r \in Rules : \A i \in Shown(r) : attempts[r][i].entry \in 1..m
  BY <1>5 DEF HInv, Written
<1> HIDE DEF n, m
<1>13. \A r \in Rules : r = current => n \notin Shown(r) /\ Shown(r)' = Shown(r) \cup {n}
  BY <1>2, <1>3, <1>5, <1>6, <1>10 DEF Shown
<1>14. \A r \in Rules : r # current => Shown(r)' = Shown(r)
  BY <1>10 DEF Shown
<1>15. ASSUME NEW r \in Rules, NEW i \in Shown(r)
       PROVE  i \in DOMAIN attempts[r] /\ attempts'[r][i] = attempts[r][i]
  BY <1>10, <1>13 DEF Shown
<1>16. attempts'[current][n] = q
  BY <1>10
<1>17. ASSUME NEW r \in Rules, NEW i \in Shown(r)'
       PROVE  /\ attempts'[r][i].entry \in DOMAIN alert_history'
              /\ alert_history'[attempts'[r][i].entry] =
                   [rule |-> r, now |-> attempts'[r][i].now, status |-> attempts'[r][i].status]
  <2>1. CASE r = current /\ i = n
    BY <1>5, <1>6, <1>8, <1>9, <1>16, <2>1
  <2>2. CASE ~(r = current /\ i = n)
    <3>1. i \in Shown(r)
      BY <1>13, <1>14, <1>17, <2>2
    <3>2. /\ attempts[r][i].entry \in 1..m
          /\ alert_history[attempts[r][i].entry] =
               [rule |-> r, now |-> attempts[r][i].now, status |-> attempts[r][i].status]
      BY <1>12, <3>1 DEF HInv, Written
    <3> QED
      BY <1>5, <1>9, <1>15, <3>1, <3>2
  <2> QED
    BY <2>1, <2>2
<1>18. ASSUME NEW r \in Rules, NEW i \in Shown(r)', NEW j \in Shown(r)', i < j
       PROVE  attempts'[r][i].entry < attempts'[r][j].entry
  <2>1. CASE r = current /\ j = n
    <3>1. i \in Shown(r)
      BY <1>11, <1>13, <1>18, <2>1
    <3>2. attempts[r][i].entry \in 1..m
      BY <1>12, <3>1
    <3> QED
      BY <1>5, <1>6, <1>15, <1>16, <2>1, <3>1, <3>2
  <2>2. CASE r = current /\ i = n
    <3>1. j \in 1..n
      BY <1>10, <1>11, <1>18, <2>2 DEF Shown
    <3> QED
      BY <1>11, <1>18, <2>2, <3>1
  <2>3. CASE ~(r = current /\ (i = n \/ j = n))
    <3>1. i \in Shown(r) /\ j \in Shown(r)
      BY <1>13, <1>14, <1>18, <2>3
    <3>2. attempts[r][i].entry < attempts[r][j].entry
      BY <1>18, <3>1 DEF HInv, Written
    <3> QED
      BY <1>15, <3>1, <3>2
  <2> QED
    BY <2>1, <2>2, <2>3
<1>19. ASSUME NEW r \in Rules, NEW k \in DOMAIN alert_history', alert_history'[k].rule = r
       PROVE  \E i \in Shown(r)' : attempts'[r][i].entry = k
  <2>1. CASE k = m + 1
    <3>1. r = current
      BY <1>8, <1>9, <1>19, <2>1
    <3> QED
      BY <1>6, <1>13, <1>16, <2>1, <3>1
  <2>2. CASE k # m + 1
    <3>1. k \in DOMAIN alert_history /\ alert_history[k].rule = r
      BY <1>5, <1>9, <1>19, <2>2
    <3>2. PICK i \in Shown(r) : attempts[r][i].entry = k
      BY <3>1 DEF HInv, Written
    <3> QED
      BY <1>13, <1>14, <1>15, <3>2
  <2> QED
    BY <2>1, <2>2
<1> QED
  BY <1>17, <1>18, <1>19 DEF Written

\* An entry that is written lengthens the history.
LEMMA EntryChanges ==
  ASSUME IInv, pc = "history"
  PROVE  Append(alert_history, [rule |-> current, now |-> now,
                                status |-> StatusOf(Attempt)]) # alert_history
<1>1. Reporting
  BY DEF Reporting
<1> DEFINE e == [rule |-> current, now |-> now, status |-> StatusOf(Attempt)]
<1>2. e \in Entries
  BY <1>1, AttemptType DEF IInv, TypeOK, UnderWay, StatusOf, Entries, Attempts
<1>3. alert_history \in Seq(Entries)
  BY DEF IInv, TypeOK
<1> HIDE DEF e
<1>4. Len(Append(alert_history, e)) = Len(alert_history) + 1 /\ Len(alert_history) \in Nat
  BY <1>2, <1>3, AppendProperties, LenProperties
<1> QED
  BY <1>4 DEF e

\* The steps of a report: the entry is written between the answer and the stamp.
LEMMA ReportHistory ==
  ASSUME IInv, HInv, Webhook \/ WriteHistory \/ Stamp
  PROVE  HInv'
<1> DEFINE a == Attempt
<1>0. Reporting /\ current \in Rules
  BY ReportEffect DEF IInv, TypeOK
<1>1. a \in Attempts
  BY <1>0, AttemptType
<1>2. pc \in {"webhook", "history"} => a.entry = 0
  BY DEF HInv
<1>3. CASE Webhook
  <2>1. pc = "webhook" /\ pc' = "history" /\ UNCHANGED <<alert_history, current>>
    BY <1>3 DEF Webhook
  <2>2. PICK status \in {"sent", "failed"} : Note([a EXCEPT !.status = status])
    BY <1>3 DEF Webhook
  <2> DEFINE q == [a EXCEPT !.status = status]
  <2> HIDE DEF a
  <2>3. q \in Attempts /\ q.entry = a.entry /\ q.now = a.now /\ q.entry = 0
    BY <1>1, <1>2, <2>1 DEF Attempts
  <2>4. Note(q)
    BY <2>2
  <2> HIDE DEF q
  <2>5. Written'
    BY <1>0, <2>1, <2>3, <2>4, NoteHistory DEF a
  <2>6. Attempt' = q
    BY <1>0, <2>1, <2>3, <2>4, NoteKeeps DEF Attempt
  <2> QED
    BY <2>3, <2>5, <2>6 DEF HInv
<1>4. CASE WriteHistory
  <2>1. pc = "history" /\ pc' = "stamp"
    BY <1>4 DEF WriteHistory
  <2>2. CASE UNCHANGED alert_history
    <3> DEFINE q == [a EXCEPT !.missed = TRUE]
    <3>1. Note(q)
      BY <1>4, <2>2, EntryChanges DEF WriteHistory
    <3> HIDE DEF a
    <3>2. q \in Attempts /\ q.entry = a.entry /\ q.now = a.now /\ q.entry = 0
      BY <1>1, <1>2, <2>1 DEF Attempts
    <3> HIDE DEF q
    <3> QED
      BY <1>0, <2>1, <2>2, <3>1, <3>2, NoteHistory DEF HInv, a
  <2>3. CASE ~UNCHANGED alert_history
    <3>1. /\ alert_history' = Append(alert_history,
               [rule |-> current, now |-> now, status |-> Attempt.status])
          /\ Note([Attempt EXCEPT !.entry = Len(alert_history) + 1])
      BY <1>4, <2>3 DEF WriteHistory, StatusOf
    <3> QED
      BY <2>1, <3>1, EntryHistory DEF HInv
  <2> QED
    BY <2>2, <2>3
<1>5. CASE Stamp
  <2>1. pc' = "rule" /\ UNCHANGED alert_history
    BY <1>5 DEF Stamp
  <2>2. CASE UNCHANGED attempts
    BY <2>1, <2>2, LogsStay DEF HInv
  <2>3. CASE Note([a EXCEPT !.stamped = TRUE])
    <3> DEFINE q == [a EXCEPT !.stamped = TRUE]
    <3> HIDE DEF a
    <3>1. /\ q \in Attempts /\ q.entry = a.entry /\ q.now = a.now /\ q.status = a.status
      BY <1>1 DEF Attempts
    <3>2. Note(q)
      BY <2>3
    <3> HIDE DEF q
    <3>3. Written'
      BY <1>0, <2>1, <3>1, <3>2, NoteHistory DEF a
    <3> QED
      BY <2>1, <3>3 DEF HInv
  <2> QED
    BY <1>5, <2>2, <2>3 DEF Stamp
<1> QED
  BY <1>3, <1>4, <1>5

\* The restart leaves the entries alone.
LEMMA RestartHistory ==
  ASSUME IInv, HInv, Restart
  PROVE  HInv'
<1>1. pc' = "select" /\ UNCHANGED alert_history
  BY RestartEffect
<1>2. CASE UNCHANGED attempts
  BY <1>1, <1>2, LogsStay DEF HInv
<1>3. ASSUME pc \in {"webhook", "history"}, Reporting, NEW q \in Attempts, Reported(q),
             Note(q), q.entry = Attempt.entry
      PROVE  HInv'
  <2>1. q.now = Attempt.now /\ q.entry = 0
    BY <1>3, AttemptType DEF Reported, HInv
  <2> QED
    BY <1>1, <1>3, <2>1, NoteHistory DEF HInv
<1> QED
  BY <1>2, <1>3, RestartEffect

LEMMA NextHistory == IInv /\ HInv /\ [Next]_vars => HInv'
<1> SUFFICES ASSUME IInv, HInv, [Next]_vars PROVE HInv'
  OBVIOUS
<1>1. CASE LoopStep \/ Fetch \/ TakeNow \/ NextRule \/ NoMoreRules
  <2>1. UNCHANGED <<alert_history, attempts>>
    BY <1>1 DEF LoopStep, SelectPurge, PurgeEnds, SelectAlerts, Fetch, TakeNow, NextRule,
                NoMoreRules, history
  <2>2. pc' \notin {"webhook", "history"}
    BY <1>1 DEF LoopStep, SelectPurge, PurgeEnds, SelectAlerts, Fetch, TakeNow, NextRule,
                NoMoreRules, EndRound
  <2> QED
    BY <2>1, <2>2, LogsStay DEF HInv
<1>2. CASE \/ (\E r \in Rules : UserStep(r) \/ Drift(r)) \/ Tick \/ UNCHANGED vars
  <2>1. UNCHANGED <<alert_history, attempts, pc, current>>
    BY <1>2 DEF UserStep, Create, Update, Delete, Drift, Tick, task, history, vars
  <2> QED
    BY <2>1, LogsStay DEF HInv, Attempt
<1> QED
  BY <1>1, <1>2, QueryHistory, ReportHistory, RestartHistory DEF Next, RoundStep

\* A notification stays without an entry only if that was noted.
LEMMA NoteMissing ==
  ASSUME IInv, Missing, Reporting, NEW q \in Attempts, Note(q),
         \/ q.entry # 0
         \/ q.missed
         \/ pc' \in {"webhook", "history"} /\ current' = current
  PROVE  Missing'
<1> DEFINE n == Len(attempts[current])
<1>1. /\ \A r \in Rules : r # current => attempts'[r] = attempts[r]
      /\ \A r \in Rules : DOMAIN attempts'[r] = DOMAIN attempts[r]
      /\ Len(attempts'[current]) = n
      /\ \A i \in DOMAIN attempts[current] :
           attempts'[current][i] = IF i = n THEN q ELSE attempts[current][i]
  BY NoteKeeps
<1> HIDE DEF n
<1> SUFFICES ASSUME NEW r \in Rules, NEW i \in DOMAIN attempts[r]
             PROVE  \/ attempts'[r][i].entry # 0
                    \/ attempts'[r][i].missed
                    \/ /\ pc' \in {"webhook", "history"} /\ current' = r
                       /\ i = Len(attempts'[r])
  BY <1>1 DEF Missing
<1>2. CASE r # current
  BY <1>1, <1>2 DEF Missing
<1>3. CASE r = current /\ i = n
  BY <1>1, <1>3
<1>4. CASE r = current /\ i # n
  BY <1>1, <1>4 DEF Missing, n
<1> QED
  BY <1>2, <1>3, <1>4

LEMMA InitMissing == Init => Missing
<1> SUFFICES ASSUME Init PROVE Missing
  OBVIOUS
<1>1. \A r \in Rules : attempts[r] = <<>>
  BY DEF Init
<1> QED
  BY <1>1, EmptySeq DEF Missing

LEMMA NextMissing == IInv /\ Missing /\ [Next]_vars => Missing'
<1> SUFFICES ASSUME IInv, Missing, [Next]_vars PROVE Missing'
  OBVIOUS
<1> DEFINE a == Attempt
<1>0. Reporting => a \in Attempts
  BY AttemptType
<1>1. CASE LoopStep \/ Fetch \/ TakeNow \/ NextRule \/ NoMoreRules
  <2>1. UNCHANGED attempts /\ pc \notin {"webhook", "history"}
    BY <1>1 DEF LoopStep, SelectPurge, PurgeEnds, SelectAlerts, Fetch, TakeNow, NextRule,
                NoMoreRules, history
  <2> QED
    BY <2>1 DEF Missing
<1>2. CASE Query
  <2>1. pc = "query"
    BY <1>2 DEF Query
  <2>2. CASE UNCHANGED attempts
    BY <2>1, <2>2 DEF Missing
  <2>3. ASSUME NEW failed \in BOOLEAN, pc' = "webhook", current' = current,
               attempts' = [attempts EXCEPT ![current] = Append(@, NewAttempt(failed))]
        PROVE  Missing'
    <3> DEFINE b == NewAttempt(failed)
               n == Len(attempts[current])
    <3>1. b \in Attempts
      BY NewAttemptType
    <3> HIDE DEF b
    <3>2. /\ \A r \in Rules : r # current => attempts'[r] = attempts[r]
          /\ attempts' \in [Rules -> Seq(Attempts)]
          /\ DOMAIN attempts[current] = 1..n /\ n \in Nat
          /\ DOMAIN attempts'[current] = 1..(n + 1)
          /\ \A i \in 1..(n + 1) :
               attempts'[current][i] = IF i = n + 1 THEN b ELSE attempts[current][i]
      BY <2>3, <3>1, AppendKeeps DEF b
    <3> HIDE DEF n
    <3>3. Len(attempts'[current]) = n + 1
      <4>1. attempts'[current] \in Seq(Attempts) /\ current \in Rules
        BY <3>2 DEF IInv, TypeOK
      <4>2. DOMAIN attempts'[current] = 1..Len(attempts'[current])
            /\ Len(attempts'[current]) \in Nat
        BY <4>1, LenProperties
      <4> QED
        BY <3>2, <4>2
    <3> SUFFICES ASSUME NEW r \in Rules, NEW i \in DOMAIN attempts'[r]
                 PROVE  \/ attempts'[r][i].entry # 0
                        \/ attempts'[r][i].missed
                        \/ current' = r /\ i = Len(attempts'[r])
      BY <2>3 DEF Missing
    <3>4. CASE r # current
      BY <2>1, <3>2, <3>4 DEF Missing
    <3>5. CASE r = current /\ i = n + 1
      BY <2>3, <3>3, <3>5
    <3>6. CASE r = current /\ i # n + 1
      <4>1. i \in DOMAIN attempts[r] /\ attempts'[r][i] = attempts[r][i]
        BY <3>2, <3>6
      <4> QED
        BY <2>1, <4>1 DEF Missing
    <3> QED
      BY <3>4, <3>5, <3>6
  <2> QED
    BY <1>2, <2>2, <2>3, QueryEffect
<1>3. CASE Webhook
  <2>1. pc' = "history" /\ current' = current /\ Reporting
    BY <1>3 DEF Webhook, Reporting
  <2> QED
    BY <1>3, <2>1, ReportEffect, NoteMissing DEF Webhook
<1>4. CASE WriteHistory
  <2>1. Reporting
    BY <1>4 DEF WriteHistory, Reporting
  <2>2. \/ Note([a EXCEPT !.entry = Len(alert_history) + 1])
        \/ Note([a EXCEPT !.missed = TRUE])
    BY <1>4 DEF WriteHistory
  <2> HIDE DEF a
  <2>3. Len(alert_history) \in Nat
    BY DEF IInv, TypeOK
  <2>4. LET q == [a EXCEPT !.entry = Len(alert_history) + 1]
        IN q \in Attempts /\ q.entry # 0
    BY <1>0, <2>1, <2>3 DEF Attempts
  <2>5. LET q == [a EXCEPT !.missed = TRUE]
        IN q \in Attempts /\ q.missed
    BY <1>0, <2>1 DEF Attempts
  <2> QED
    BY <2>1, <2>2, <2>4, <2>5, NoteMissing
<1>5. CASE Stamp
  <2>1. Reporting /\ pc = "stamp"
    BY <1>5 DEF Stamp, Reporting
  <2>2. UNCHANGED attempts \/ Note([a EXCEPT !.stamped = TRUE])
    BY <1>5 DEF Stamp
  <2>3. a.entry # 0 \/ a.missed
    <3>1. attempts[current] \in Seq(Attempts) /\ attempts[current] # <<>> /\ current \in Rules
      BY <2>1 DEF IInv, TypeOK, UnderWay
    <3>2. Len(attempts[current]) \in DOMAIN attempts[current]
      BY <3>1, EmptySeq, LenProperties
    <3> QED
      BY <2>1, <3>1, <3>2 DEF Missing, Attempt
  <2> HIDE DEF a
  <2>4. LET q == [a EXCEPT !.stamped = TRUE]
        IN q \in Attempts /\ (q.entry # 0 \/ q.missed)
    BY <1>0, <2>1, <2>3 DEF Attempts
  <2>5. CASE UNCHANGED attempts
    BY <2>1, <2>5 DEF Missing
  <2> QED
    BY <2>1, <2>2, <2>4, <2>5, NoteMissing
<1>6. CASE Restart
  BY <1>6, RestartEffect, NoteMissing DEF Missing
<1>7. CASE (\E r \in Rules : UserStep(r) \/ Drift(r)) \/ Tick \/ UNCHANGED vars
  <2>1. UNCHANGED <<attempts, pc, current>>
    BY <1>7 DEF UserStep, Create, Update, Delete, Drift, Tick, task, history, vars
  <2> QED
    BY <2>1 DEF Missing
<1> QED
  BY <1>1, <1>2, <1>3, <1>4, <1>5, <1>6, <1>7 DEF Next, RoundStep

\* The history of a rule shows its notifications in their order, with what the
\* receiver answered, and no other entry; one that it does not show is under way,
\* or its entry could not be written or the task ended first (background.rs,
\* evaluate_alerts_once, the insert of alert_history after send_webhook).
THEOREM HistoryIsHonest == Spec => []HistoryHonest
<1>1. Written /\ Missing => HistoryHonest
  BY DEF Written, Missing, HistoryHonest, Shown
<1>2. HInv /\ Missing => HistoryHonest
  BY <1>1 DEF HInv
<1> QED
  BY <1>2, InitInv, NextInv, InitHistory, NextHistory, InitMissing, NextMissing,
     PTL DEF Spec
=============================================================================
