-------------------------- MODULE BulkImport_proofs --------------------------
(***************************************************************************)
(* Theorems about BulkImport: type correctness, and that an import stores  *)
(* all rows its parser took from the input or none, whatever fails and     *)
(* whatever the other imports do.                                          *)
(***************************************************************************)
EXTENDS BulkImport, FiniteSetTheorems, TLAPS

SessionRows(i) == {k \in 1..MaxRows : <<i, k>> \in session}

FullRows(i, S) == {k \in S : input[i].rows[k] = "full"}

\* What an import knows of its transaction: a healthy one holds exactly the
\* parsed rows that are done, and the tables hold its rows if and only if it
\* committed.
TransactionInv(i) ==
  /\ pc[i] \in {"idle", "begin"} =>
       aborted[i] = FALSE /\ tx_event[i] = {} /\ tx_session[i] = {}
  /\ pc[i] = "begin" => todo[i] = Parsed(i)
  /\ pc[i] = "row" => todo[i] \subseteq Parsed(i)
  /\ pc[i] = "row" /\ ~aborted[i] =>
       /\ tx_event[i] = Parsed(i) \ todo[i]
       /\ tx_session[i] = FullRows(i, tx_event[i])
  /\ commit[i] # "none" => pc[i] = "done"

TablesInv(i) ==
  /\ commit[i] # "done" => StoredRows(i) = {} /\ SessionRows(i) = {}
  /\ commit[i] = "done" =>
       /\ StoredRows(i) = Parsed(i)
       /\ SessionRows(i) = FullRows(i, Parsed(i))

\* An import that reports rows has come to its commit.
ReportInv(i) ==
  /\ answer[i] # "none" => pc[i] = "done"
  /\ answer[i] = "ok" /\ imported[i] # 0 =>
       /\ imported[i] = Cardinality(Parsed(i))
       /\ \/ commit[i] = "done"
          \/ aborted[i]
          \/ commit[i] = "refused" /\ Format(i) \in {"plausible", "api"}

ImportInv(i) == TransactionInv(i) /\ TablesInv(i) /\ ReportInv(i)

IInv == TypeOK /\ \A i \in Imports : ImportInv(i)

-----------------------------------------------------------------------------
(* Type correctness *)

\* The input of an import is a sequence of at most MaxRows rows.
LEMMA InputRows ==
  ASSUME TypeOK, NEW i \in Imports
  PROVE  /\ Count(i) \in 0..MaxRows
         /\ Parsed(i) \subseteq 1..MaxRows
         /\ Cardinality(Parsed(i)) \in 0..MaxRows
         /\ Format(i) \in FormatNames
PROOF
<1>1. input[i] \in Inputs
  BY DEF TypeOK
<1>2. input[i].rows \in UNION {[1..n -> RowClasses] : n \in 0..MaxRows}
  BY <1>1 DEF Inputs
<1>3. PICK n \in 0..MaxRows : input[i].rows \in [1..n -> RowClasses]
  BY <1>2
<1>4. n \in Nat /\ Len(input[i].rows) = n
  BY <1>3, RowsAssumption
<1>5. Format(i) \in FormatNames
  BY <1>1, FormatAssumption DEF Inputs, Format
<1>6. Count(i) \in 0..MaxRows
  BY <1>4 DEF Count
<1>7. Parsed(i) \subseteq 1..MaxRows
  BY <1>6, RowsAssumption DEF Parsed
<1>8. Cardinality(Parsed(i)) \in 0..MaxRows
  <2>1. IsFiniteSet(1..MaxRows) /\ Cardinality(1..MaxRows) = MaxRows
    BY FS_Interval, RowsAssumption
  <2>2. IsFiniteSet(Parsed(i)) /\ Cardinality(Parsed(i)) <= MaxRows
    BY <1>7, <2>1, FS_Subset
  <2>3. Cardinality(Parsed(i)) \in Nat
    BY <2>2, FS_CardinalityType
  <2> QED
    BY <2>2, <2>3, RowsAssumption
<1> QED
  BY <1>5, <1>6, <1>7, <1>8

LEMMA TypeInit == Init => TypeOK
PROOF
<1> SUFFICES ASSUME Init PROVE TypeOK
  OBVIOUS
<1>1. 0 \in 0..MaxRows
  BY RowsAssumption
<1> QED
  BY <1>1 DEF Init, TypeOK, Rows

LEMMA SucceedType ==
  ASSUME TypeOK, NEW i \in Imports, NEW count \in 0..MaxRows, Succeed(i, count)
  PROVE  /\ pc' \in [Imports -> {"idle", "begin", "row", "done", "gone"}]
         /\ answer' \in [Imports -> {"none", "ok", "error"}]
         /\ imported' \in [Imports -> 0..MaxRows]
PROOF
  BY DEF TypeOK, Succeed

LEMMA FailType ==
  ASSUME TypeOK, NEW i \in Imports, Fail(i)
  PROVE  /\ pc' \in [Imports -> {"idle", "begin", "row", "done", "gone"}]
         /\ answer' \in [Imports -> {"none", "ok", "error"}]
         /\ imported' \in [Imports -> 0..MaxRows]
PROOF
<1>1. 0 \in 0..MaxRows
  BY RowsAssumption
<1>2. CASE Format(i) = "plausible"
  BY <1>1, <1>2, SucceedType DEF Fail
<1>3. CASE Format(i) # "plausible"
  BY <1>3 DEF Fail, TypeOK
<1> QED
  BY <1>2, <1>3

LEMMA PublishType ==
  ASSUME TypeOK, NEW i \in Imports, Publish(i)
  PROVE  /\ website_event' \in SUBSET Rows
         /\ session' \in SUBSET Rows
         /\ commit' \in [Imports -> {"none", "begin_refused", "refused", "done"}]
PROOF
<1>1. tx_event[i] \subseteq 1..MaxRows /\ tx_session[i] \subseteq 1..MaxRows
  BY DEF TypeOK
<1> QED
  BY <1>1 DEF Publish, TypeOK, Rows

LEMMA TypeStep == TypeOK /\ [Next]_vars => TypeOK'
PROOF
<1> SUFFICES ASSUME TypeOK, [Next]_vars PROVE TypeOK'
  OBVIOUS
<1>z. 0 \in 0..MaxRows
  BY RowsAssumption
<1>1. CASE UNCHANGED vars
  BY <1>1 DEF vars, db, tx, reply, TypeOK
<1>2. ASSUME NEW i \in Imports, Step(i) PROVE TypeOK'
  <2>n. Cardinality(Parsed(i)) \in 0..MaxRows /\ Parsed(i) \in SUBSET (1..MaxRows)
    BY InputRows
  <2>1. CASE Reject(i)
    BY <2>1, FailType DEF Reject, db, tx, TypeOK
  <2>2. CASE Accept(i)
    <3>1. CASE Format(i) # "api" /\ Parsed(i) = {}
      BY <2>2, <3>1, <1>z, SucceedType DEF Accept, db, TypeOK
    <3>2. CASE ~(Format(i) # "api" /\ Parsed(i) = {})
      BY <2>2, <3>2, <2>n DEF Accept, db, reply, TypeOK
    <3> QED
      BY <3>1, <3>2
  <2>3. CASE Begin(i)
    BY <2>3 DEF Begin, db, tx, reply, TypeOK
  <2>4. CASE BeginRefused(i)
    <3>1. /\ pc' \in [Imports -> {"idle", "begin", "row", "done", "gone"}]
          /\ answer' \in [Imports -> {"none", "ok", "error"}]
          /\ imported' \in [Imports -> 0..MaxRows]
      BY <2>4, <1>z, SucceedType, FailType DEF BeginRefused
    <3> QED
      BY <2>4, <3>1 DEF BeginRefused, db, tx, TypeOK
  <2>5. CASE InsertRow(i)
    <3>1. PICK k \in todo[i] :
            /\ tx_event' = [tx_event EXCEPT ![i] = @ \cup {k}]
            /\ tx_session' = [tx_session EXCEPT ![i] =
                                IF input[i].rows[k] = "full" THEN @ \cup {k} ELSE @]
            /\ todo' = [todo EXCEPT ![i] = @ \ {k}]
      BY <2>5 DEF InsertRow
    <3>2. todo[i] \in SUBSET (1..MaxRows) /\ k \in 1..MaxRows
      BY DEF TypeOK
    <3>3. /\ tx_event[i] \cup {k} \in SUBSET (1..MaxRows)
          /\ tx_session[i] \cup {k} \in SUBSET (1..MaxRows)
          /\ tx_session[i] \in SUBSET (1..MaxRows)
          /\ todo[i] \ {k} \in SUBSET (1..MaxRows)
      BY <3>2 DEF TypeOK
    <3> QED
      BY <2>5, <3>1, <3>3 DEF InsertRow, db, reply, TypeOK
  <2>6. CASE FailRow(i)
    <3>1. PICK k \in todo[i] : todo' = [todo EXCEPT ![i] = @ \ {k}]
      BY <2>6 DEF FailRow
    <3>2. todo[i] \ {k} \in SUBSET (1..MaxRows)
      BY DEF TypeOK
    <3> QED
      BY <2>6, <3>1, <3>2 DEF FailRow, db, reply, TypeOK
  <2>7. CASE Commit(i)
    <3>1. /\ website_event' \in SUBSET Rows
          /\ session' \in SUBSET Rows
          /\ commit' \in [Imports -> {"none", "begin_refused", "refused", "done"}]
      BY <2>7, PublishType DEF Commit, db, TypeOK
    <3> QED
      BY <2>7, <3>1, <2>n, SucceedType DEF Commit, tx, TypeOK
  <2>8. CASE CommitError(i)
    <3>1. /\ website_event' \in SUBSET Rows
          /\ session' \in SUBSET Rows
          /\ commit' \in [Imports -> {"none", "begin_refused", "refused", "done"}]
      BY <2>8, PublishType DEF CommitError, db, TypeOK
    <3>2. /\ pc' \in [Imports -> {"idle", "begin", "row", "done", "gone"}]
          /\ answer' \in [Imports -> {"none", "ok", "error"}]
          /\ imported' \in [Imports -> 0..MaxRows]
      BY <2>8, <2>n, SucceedType, FailType DEF CommitError
    <3> QED
      BY <2>8, <3>1, <3>2 DEF CommitError, tx, TypeOK
  <2>9. CASE Exit(i)
    BY <2>9 DEF Exit, db, tx, reply, TypeOK
  <2> QED
    BY <1>2, <2>1, <2>2, <2>3, <2>4, <2>5, <2>6, <2>7, <2>8, <2>9 DEF Step
<1> QED
  BY <1>1, <1>2 DEF Next

\* The variables of the imports keep their types.
THEOREM TypeCorrect == Spec => []TypeOK
PROOF
  BY TypeInit, TypeStep, PTL DEF Spec

-----------------------------------------------------------------------------
(* The inductive invariant *)

LEMMA InvInit == Init => \A i \in Imports : ImportInv(i)
PROOF
  BY DEF Init, ImportInv, TransactionInv, TablesInv, ReportInv, StoredRows, SessionRows

\* What the invariant of an import reads.
Own(i) ==
  <<input[i], pc[i], todo[i], aborted[i], tx_event[i], tx_session[i],
    answer[i], imported[i], commit[i], StoredRows(i), SessionRows(i)>>

LEMMA InvFrame ==
  ASSUME NEW i \in Imports, ImportInv(i), UNCHANGED Own(i), UNCHANGED input
  PROVE  ImportInv(i)'
PROOF
<1>1. /\ pc'[i] = pc[i] /\ todo'[i] = todo[i] /\ aborted'[i] = aborted[i]
      /\ tx_event'[i] = tx_event[i] /\ tx_session'[i] = tx_session[i]
      /\ answer'[i] = answer[i] /\ imported'[i] = imported[i] /\ commit'[i] = commit[i]
      /\ StoredRows(i)' = StoredRows(i) /\ SessionRows(i)' = SessionRows(i)
  BY DEF Own
<1>2. TransactionInv(i)'
  BY <1>1 DEF ImportInv, TransactionInv, Parsed, Count, FullRows
<1>3. TablesInv(i)'
  BY <1>1 DEF ImportInv, TablesInv, Parsed, Count, FullRows
<1>4. ReportInv(i)'
  BY <1>1 DEF ImportInv, ReportInv, Parsed, Count, Format
<1> QED
  BY <1>2, <1>3, <1>4 DEF ImportInv

\* A commit publishes the rows of its import, and of no other.
LEMMA PublishRows ==
  ASSUME TypeOK, NEW i \in Imports, Publish(i), NEW j \in Imports
  PROVE  /\ j = i => /\ StoredRows(j)' = StoredRows(j) \cup tx_event[i]
                     /\ SessionRows(j)' = SessionRows(j) \cup tx_session[i]
         /\ j # i => /\ StoredRows(j)' = StoredRows(j)
                     /\ SessionRows(j)' = SessionRows(j)
PROOF
<1>1. tx_event[i] \subseteq 1..MaxRows /\ tx_session[i] \subseteq 1..MaxRows
  BY DEF TypeOK
<1> QED
  BY <1>1 DEF Publish, StoredRows, SessionRows

LEMMA TablesFrame ==
  ASSUME UNCHANGED db, NEW j \in Imports
  PROVE  StoredRows(j)' = StoredRows(j) /\ SessionRows(j)' = SessionRows(j)
PROOF
  BY DEF db, StoredRows, SessionRows

\* A step of one import leaves the others as they are.
LEMMA OthersFrame ==
  ASSUME TypeOK, NEW i \in Imports, Step(i), NEW j \in Imports, j # i
  PROVE  UNCHANGED Own(j) /\ UNCHANGED input
PROOF
<1>1. CASE Reject(i)
  BY <1>1, TablesFrame DEF Reject, Fail, Succeed, tx, Own, TypeOK
<1>2. CASE Accept(i)
  BY <1>2, TablesFrame DEF Accept, Succeed, reply, Own, TypeOK
<1>3. CASE Begin(i)
  BY <1>3, TablesFrame DEF Begin, tx, reply, Own, TypeOK
<1>4. CASE BeginRefused(i)
  BY <1>4, TablesFrame DEF BeginRefused, Fail, Succeed, tx, Own, TypeOK
<1>5. CASE InsertRow(i)
  BY <1>5, TablesFrame DEF InsertRow, reply, Own, TypeOK
<1>6. CASE FailRow(i)
  BY <1>6, TablesFrame DEF FailRow, reply, Own, TypeOK
<1>7. CASE Commit(i)
  <2>1. StoredRows(j)' = StoredRows(j) /\ SessionRows(j)' = SessionRows(j)
    BY <1>7, TablesFrame, PublishRows DEF Commit
  <2>2. commit'[j] = commit[j]
    BY <1>7 DEF Commit, Publish, TypeOK
  <2> QED
    BY <1>7, <2>1, <2>2 DEF Commit, Succeed, tx, Own, TypeOK
<1>8. CASE CommitError(i)
  <2>1. StoredRows(j)' = StoredRows(j) /\ SessionRows(j)' = SessionRows(j)
    BY <1>8, TablesFrame, PublishRows DEF CommitError
  <2>2. commit'[j] = commit[j]
    BY <1>8 DEF CommitError, Publish, TypeOK
  <2>3. /\ pc'[j] = pc[j] /\ answer'[j] = answer[j] /\ imported'[j] = imported[j]
    BY <1>8 DEF CommitError, Succeed, Fail, TypeOK
  <2> QED
    BY <1>8, <2>1, <2>2, <2>3 DEF CommitError, tx, Own
<1>9. CASE Exit(i)
  BY <1>9, TablesFrame DEF Exit, tx, reply, Own, TypeOK
<1> QED
  BY <1>1, <1>2, <1>3, <1>4, <1>5, <1>6, <1>7, <1>8, <1>9 DEF Step

LEMMA BeforeStart ==
  ASSUME TypeOK, NEW i \in Imports, ImportInv(i),
         Reject(i) \/ Accept(i) \/ Begin(i) \/ BeginRefused(i) \/ Exit(i)
  PROVE  ImportInv(i)'
PROOF
<1> USE DEF ImportInv
<1>1. StoredRows(i)' = StoredRows(i) /\ SessionRows(i)' = SessionRows(i)
  BY TablesFrame DEF Reject, Accept, Begin, BeginRefused, Exit
<1>2. /\ input' = input /\ Parsed(i)' = Parsed(i) /\ Format(i)' = Format(i)
      /\ aborted' = aborted /\ tx_event' = tx_event /\ tx_session' = tx_session
  BY DEF Reject, Accept, Begin, BeginRefused, Exit, Parsed, Count, Format, tx
<1>3. commit'[i] = IF BeginRefused(i) THEN "begin_refused" ELSE commit[i]
  BY DEF Reject, Accept, Begin, BeginRefused, Exit, TypeOK
<1>4. /\ pc'[i] \in {"begin", "row", "done", "gone"}
      /\ pc'[i] = "row" => pc[i] = "begin"
      /\ pc'[i] = "begin" => pc[i] = "idle"
      /\ BeginRefused(i) => pc'[i] = "done"
      /\ pc[i] # "done"
  BY DEF Reject, Accept, Begin, BeginRefused, Exit, Succeed, Fail, TypeOK
<1>5. TransactionInv(i)'
  <2>1. pc'[i] \in {"begin", "row"} =>
          aborted[i] = FALSE /\ tx_event[i] = {} /\ tx_session[i] = {}
    BY <1>4 DEF TransactionInv
  <2>2. pc'[i] = "begin" => todo'[i] = Parsed(i)
    BY DEF Reject, Accept, Begin, BeginRefused, Exit, Succeed, Fail, TypeOK
  <2>3. pc'[i] = "row" => todo'[i] = Parsed(i)
    <3> SUFFICES ASSUME pc'[i] = "row" PROVE todo'[i] = Parsed(i)
      OBVIOUS
    <3>1. pc[i] = "begin" /\ todo[i] = Parsed(i)
      BY <1>4 DEF TransactionInv
    <3>2. UNCHANGED todo
      BY <3>1 DEF Reject, Accept, Begin, BeginRefused, Exit, tx
    <3> QED
      BY <3>1, <3>2
  <2>4. commit'[i] # "none" => pc'[i] = "done"
    BY <1>3, <1>4 DEF TransactionInv
  <2>5. pc'[i] # "idle"
    BY <1>4
  <2> QED
    BY <1>2, <2>1, <2>2, <2>3, <2>4, <2>5 DEF TransactionInv, FullRows
<1>6. TablesInv(i)'
  <2>1. commit[i] = "none" /\ commit'[i] # "done"
    BY <1>3, <1>4 DEF TransactionInv, TypeOK
  <2> QED
    BY <1>1, <2>1 DEF TablesInv
<1>7. ReportInv(i)'
  <2>1. answer[i] = "none"
    BY <1>4 DEF ReportInv, TypeOK
  <2>2. /\ answer'[i] # "none" => pc'[i] = "done"
        /\ answer'[i] = "ok" => imported'[i] = 0
    BY <2>1 DEF Reject, Accept, Begin, BeginRefused, Exit, Succeed, Fail, reply, TypeOK
  <2> QED
    BY <2>2 DEF ReportInv
<1> QED
  BY <1>5, <1>6, <1>7

LEMMA RowStep ==
  ASSUME TypeOK, NEW i \in Imports, ImportInv(i), InsertRow(i) \/ FailRow(i)
  PROVE  ImportInv(i)'
PROOF
<1> USE DEF ImportInv
<1>1. StoredRows(i)' = StoredRows(i) /\ SessionRows(i)' = SessionRows(i)
  BY TablesFrame DEF InsertRow, FailRow
<1>2. /\ input' = input /\ pc' = pc /\ commit' = commit /\ UNCHANGED reply
      /\ Parsed(i)' = Parsed(i) /\ Format(i)' = Format(i) /\ pc[i] = "row"
  BY DEF InsertRow, FailRow, Parsed, Count, Format
<1>3. todo'[i] \subseteq todo[i] /\ todo[i] \subseteq Parsed(i)
  BY <1>2 DEF InsertRow, FailRow, TypeOK, TransactionInv
<1>4. ~aborted'[i] =>
        /\ tx_event'[i] = Parsed(i) \ todo'[i]
        /\ tx_session'[i] = {k \in tx_event'[i] : input[i].rows[k] = "full"}
  <2> SUFFICES ASSUME ~aborted'[i]
               PROVE  /\ tx_event'[i] = Parsed(i) \ todo'[i]
                      /\ tx_session'[i] = {k \in tx_event'[i] : input[i].rows[k] = "full"}
    OBVIOUS
  <2>1. InsertRow(i) /\ ~aborted[i]
    BY DEF InsertRow, FailRow, TypeOK
  <2>2. /\ tx_event[i] = Parsed(i) \ todo[i]
        /\ tx_session[i] = {k \in tx_event[i] : input[i].rows[k] = "full"}
    BY <1>2, <2>1 DEF TransactionInv, FullRows
  <2>3. PICK k \in todo[i] :
          /\ tx_event'[i] = tx_event[i] \cup {k}
          /\ tx_session'[i] = IF input[i].rows[k] = "full" THEN tx_session[i] \cup {k}
                              ELSE tx_session[i]
          /\ todo'[i] = todo[i] \ {k}
    BY <2>1 DEF InsertRow, TypeOK
  <2> QED
    BY <1>3, <2>2, <2>3
<1>5. TransactionInv(i)'
  <2>1. commit'[i] = "none" /\ pc'[i] = "row"
    BY <1>2 DEF TransactionInv
  <2> QED
    BY <1>2, <1>3, <1>4, <2>1 DEF TransactionInv, FullRows
<1>6. TablesInv(i)'
  BY <1>1, <1>2 DEF TablesInv, FullRows, TransactionInv
<1>7. ReportInv(i)'
  BY <1>2 DEF ReportInv, reply
<1> QED
  BY <1>5, <1>6, <1>7

LEMMA CommitStep ==
  ASSUME TypeOK, NEW i \in Imports, ImportInv(i), Commit(i) \/ CommitError(i)
  PROVE  ImportInv(i)'
PROOF
<1> USE DEF ImportInv
<1>1. /\ input' = input /\ UNCHANGED tx /\ pc[i] = "row" /\ todo[i] = {}
      /\ Parsed(i)' = Parsed(i) /\ Format(i)' = Format(i)
  BY DEF Commit, CommitError, Parsed, Count, Format
<1>2. pc'[i] = "done"
  BY DEF Commit, CommitError, Succeed, Fail, TypeOK
<1>3. ~aborted[i] => tx_event[i] = Parsed(i) /\ tx_session[i] = FullRows(i, Parsed(i))
  BY <1>1 DEF TransactionInv
<1>4. commit[i] = "none"
  BY <1>1 DEF TransactionInv
<1>5. StoredRows(i) = {} /\ SessionRows(i) = {}
  BY <1>4 DEF TablesInv
<1>6. \/ commit'[i] = "done" /\ Publish(i) /\ ~aborted[i]
      \/ commit'[i] = "none" /\ UNCHANGED db /\ aborted[i] /\ Commit(i)
      \/ commit'[i] = "refused" /\ UNCHANGED db /\ CommitError(i)
  BY <1>4 DEF Commit, CommitError, Publish, TypeOK
<1>7. TransactionInv(i)'
  BY <1>2 DEF TransactionInv
<1>8. TablesInv(i)'
  <2>1. CASE commit'[i] = "done" /\ Publish(i) /\ ~aborted[i]
    <3>1. tx_event[i] = Parsed(i) /\ tx_session[i] = FullRows(i, Parsed(i))
      BY <1>3, <2>1
    <3>2. /\ StoredRows(i)' = tx_event[i]
          /\ SessionRows(i)' = tx_session[i]
      BY <1>5, <2>1, PublishRows
    <3>3. FullRows(i, Parsed(i))' = FullRows(i, Parsed(i))
      BY <1>1 DEF FullRows
    <3> QED
      BY <1>1, <2>1, <3>1, <3>2, <3>3 DEF TablesInv
  <2>2. CASE commit'[i] # "done" /\ UNCHANGED db
    BY <1>5, <2>2, TablesFrame DEF TablesInv
  <2> QED
    BY <1>6, <2>1, <2>2
<1>9. ReportInv(i)'
  <2>1. answer[i] = "none"
    BY <1>1 DEF ReportInv
  <2>2. CASE Commit(i)
    <3>1. imported'[i] = Cardinality(Parsed(i))
      BY <2>2 DEF Commit, Succeed, TypeOK
    <3>2. commit'[i] = "done" \/ aborted'[i]
      BY <1>1, <1>4, <2>2 DEF Commit, Publish, tx, TypeOK
    <3> QED
      BY <1>1, <1>2, <3>1, <3>2 DEF ReportInv
  <2>3. CASE CommitError(i)
    <3>1. commit'[i] \in {"done", "refused"}
      BY <2>3 DEF CommitError, Publish, TypeOK
    <3>2. CASE Format(i) = "umami"
      <4>1. answer'[i] = "error"
        BY <2>3, <3>2 DEF CommitError, Fail, TypeOK
      <4> QED
        BY <1>2, <4>1 DEF ReportInv
    <3>3. CASE Format(i) # "umami"
      <4>1. imported'[i] = Cardinality(Parsed(i)) /\ Format(i) \in {"plausible", "api"}
        BY <2>3, <3>3, InputRows DEF CommitError, Succeed, TypeOK, FormatNames
      <4> QED
        BY <1>1, <1>2, <3>1, <4>1 DEF ReportInv
    <3> QED
      BY <3>2, <3>3
  <2> QED
    BY <2>2, <2>3
<1> QED
  BY <1>7, <1>8, <1>9

LEMMA InvStep ==
  IInv /\ [Next]_vars => \A i \in Imports : ImportInv(i)'
PROOF
<1> SUFFICES ASSUME IInv, [Next]_vars, NEW j \in Imports PROVE ImportInv(j)'
  OBVIOUS
<1>1. CASE UNCHANGED vars
  <2>1. UNCHANGED Own(j) /\ UNCHANGED input
    BY <1>1, TablesFrame DEF vars, tx, reply, Own
  <2> QED
    BY <2>1, InvFrame DEF IInv
<1>2. ASSUME NEW i \in Imports, Step(i) PROVE ImportInv(j)'
  <2>1. CASE j # i
    BY <1>2, <2>1, OthersFrame, InvFrame DEF IInv
  <2>2. CASE j = i
    BY <1>2, <2>2, BeforeStart, RowStep, CommitStep DEF IInv, Step
  <2> QED
    BY <2>1, <2>2
<1> QED
  BY <1>1, <1>2 DEF Next

LEMMA InvAlways == Spec => []IInv
PROOF
<1>1. Init => IInv
  BY TypeInit, InvInit DEF IInv
<1>2. IInv /\ [Next]_vars => IInv'
  BY TypeStep, InvStep DEF IInv
<1> QED
  BY <1>1, <1>2, PTL DEF Spec

-----------------------------------------------------------------------------
(* Theorems *)

\* Every import stores all rows that its parser took from the input, with their
\* session rows, or none: at any time, for any number of imports and lines, under
\* every fault.  Which lines the parser takes is part of the statement (Parsed):
\* all items of a JSON array, and the lines of a CSV file that reach the column
\* of the page.
THEOREM ParsedRowsAreAtomic == Spec => []AllOrNothing
PROOF
<1>1. IInv => AllOrNothing
  <2> SUFFICES ASSUME IInv, NEW i \in Imports
               PROVE  \/ StoredRows(i) = {} /\ SessionRows(i) = {}
                      \/ /\ StoredRows(i) = Parsed(i)
                         /\ \A k \in Parsed(i) :
                              input[i].rows[k] = "full" => <<i, k>> \in session
    BY DEF AllOrNothing, SessionRows
  <2>1. TablesInv(i)
    BY DEF IInv, ImportInv
  <2>2. CASE commit[i] # "done"
    BY <2>1, <2>2 DEF TablesInv
  <2>3. CASE commit[i] = "done"
    <3>1. \A k \in Parsed(i) :
            input[i].rows[k] = "full" => <<i, k>> \in session
      BY <2>1, <2>3 DEF TablesInv, SessionRows, FullRows
    <3> QED
      BY <2>1, <2>3, <3>1 DEF TablesInv
  <2> QED
    BY <2>2, <2>3
<1> QED
  BY <1>1, InvAlways, PTL

\* An import that reports rows it did not store met a refused row, or is one of
\* the two that do not look at the result of their commit.
THEOREM SilentLossIsExplained == Spec => []SilentLossExplained
PROOF
<1>1. IInv => SilentLossExplained
  <2> SUFFICES ASSUME IInv, NEW i \in Imports,
                      answer[i] = "ok", imported[i] # 0, StoredRows(i) = {}
               PROVE  \/ aborted[i]
                      \/ commit[i] = "refused" /\ Format(i) \in {"plausible", "api"}
    BY DEF SilentLossExplained
  <2>1. ReportInv(i) /\ TablesInv(i)
    BY DEF IInv, ImportInv
  <2>2. Parsed(i) # {}
    BY <2>1, FS_EmptySet DEF ReportInv
  <2>3. commit[i] # "done"
    BY <2>1, <2>2 DEF TablesInv
  <2> QED
    BY <2>1, <2>3 DEF ReportInv
<1> QED
  BY <1>1, InvAlways, PTL

\* An import that fails has stored nothing, unless PostgreSQL did commit.
THEOREM ErrorsMeanNothing == Spec => []ErrorMeansNothing
PROOF
<1>1. IInv => ErrorMeansNothing
  BY DEF IInv, ImportInv, TablesInv, ErrorMeansNothing
<1> QED
  BY <1>1, InvAlways, PTL
=============================================================================
