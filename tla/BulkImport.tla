------------------------------ MODULE BulkImport ------------------------------
(***************************************************************************)
(* The three bulk imports of Kombu: kombu import-plausible, kombu          *)
(* import-umami and POST /api/websites/:id/import.  Each writes all rows   *)
(* its parser took from the input in one transaction and swallows the      *)
(* error of every statement; they differ in the errors they report.        *)
(*                                                                         *)
(* The command line imports chunk their loop by 1,000 rows, but the chunks *)
(* share the transaction, so a chunk is no step of its own here.           *)
(***************************************************************************)
EXTENDS Naturals, Sequences, Functions, FiniteSets

CONSTANTS
  Imports,    \* identities of the imports
  Formats,    \* the imports of this instance use these
  MaxRows,    \* the longest input; bounds the model
  ApiLimit,   \* the longest input the HTTP endpoint accepts
  Faults      \* the environment faults of this instance

FormatNames == {"plausible", "umami", "api"}

\* event: only a website_event row; full: a session row as well; wide_*: a value
\* that its column of that table does not hold; short: a line of a CSV file that
\* ends before the column of the page.
RowClasses == {"event", "full", "wide_session", "wide_event", "short"}

\*   begin, statement  PostgreSQL refuses the call
\*   commit            it refuses the commit, and the transaction is rolled back
\*   reply             it commits, but the connection is lost before it says so
\*   exit              the process ends
FaultClasses == {"begin", "statement", "commit", "reply", "exit"}

ASSUME FormatAssumption == Formats \subseteq FormatNames
ASSUME RowsAssumption == MaxRows \in Nat /\ ApiLimit \in Nat
ASSUME FaultAssumption == Faults \subseteq FaultClasses

\* Every row of a Plausible export has a session row, and only CSV has lines.
Inputs ==
  {f \in [format : Formats, parses : BOOLEAN,
          rows : UNION {[1..n -> RowClasses] : n \in 0..MaxRows}] :
     IF f.format = "plausible" THEN "event" \notin Range(f.rows)
                               ELSE "short" \notin Range(f.rows)}

VARIABLES
  input,          \* what each import was given
  website_event,  \* the rows in the table, as <<import, row>>
  session,        \* the same for the session table
  pc,
  todo,           \* the rows the import has still to write
  aborted,        \* whether PostgreSQL has aborted the transaction
  tx_event,       \* the rows of the open transaction
  tx_session,
  answer,         \* what the operator or client is told: "none", "error", "ok"
  imported,       \* the number of rows it is told were imported
  commit          \* history: what became of the transaction

db == <<website_event, session>>
tx == <<todo, aborted, tx_event, tx_session>>
reply == <<answer, imported>>
vars == <<input, db, pc, tx, reply, commit>>

Rows == Imports \X (1..MaxRows)

TypeOK ==
  /\ input \in [Imports -> Inputs]
  /\ website_event \in SUBSET Rows
  /\ session \in SUBSET Rows
  /\ pc \in [Imports -> {"idle", "begin", "row", "done", "gone"}]
  /\ todo \in [Imports -> SUBSET (1..MaxRows)]
  /\ aborted \in [Imports -> BOOLEAN]
  /\ tx_event \in [Imports -> SUBSET (1..MaxRows)]
  /\ tx_session \in [Imports -> SUBSET (1..MaxRows)]
  /\ answer \in [Imports -> {"none", "ok", "error"}]
  /\ imported \in [Imports -> 0..MaxRows]
  /\ commit \in [Imports -> {"none", "begin_refused", "refused", "done"}]

Format(i) == input[i].format
Count(i) == Len(input[i].rows)

\* What the parser makes of the input: a short line is skipped without a word.
Parsed(i) == {k \in 1..Count(i) : input[i].rows[k] # "short"}

Init ==
  /\ input \in [Imports -> Inputs]
  /\ website_event = {}
  /\ session = {}
  /\ pc = [i \in Imports |-> "idle"]
  /\ todo = [i \in Imports |-> {}]
  /\ aborted = [i \in Imports |-> FALSE]
  /\ tx_event = [i \in Imports |-> {}]
  /\ tx_session = [i \in Imports |-> {}]
  /\ answer = [i \in Imports |-> "none"]
  /\ imported = [i \in Imports |-> 0]
  /\ commit = [i \in Imports |-> "none"]

-----------------------------------------------------------------------------
(* An import *)

Succeed(i, count) ==
  /\ pc' = [pc EXCEPT ![i] = "done"]
  /\ answer' = [answer EXCEPT ![i] = "ok"]
  /\ imported' = [imported EXCEPT ![i] = count]

\* main.rs turns an error of import-plausible into "imported 0 events".
Fail(i) ==
  IF Format(i) = "plausible"
    THEN Succeed(i, 0)
    ELSE /\ pc' = [pc EXCEPT ![i] = "done"]
         /\ answer' = [answer EXCEPT ![i] = "error"]
         /\ UNCHANGED imported

\* The input is parsed as a whole before anything is written; one without its
\* header or its array is refused.
Reject(i) ==
  /\ pc[i] = "idle"
  /\ \/ ~input[i].parses
     \/ Format(i) = "api" /\ Count(i) > ApiLimit
  /\ Fail(i)
  /\ UNCHANGED <<input, db, tx, commit>>

\* A command line import of no rows ends here, one of only short lines among
\* them; the endpoint goes on.
Accept(i) ==
  /\ pc[i] = "idle"
  /\ input[i].parses
  /\ Format(i) = "api" => Count(i) <= ApiLimit
  /\ IF Format(i) # "api" /\ Parsed(i) = {}
       THEN Succeed(i, 0) /\ UNCHANGED todo
       ELSE /\ pc' = [pc EXCEPT ![i] = "begin"]
            /\ todo' = [todo EXCEPT ![i] = Parsed(i)]
            /\ UNCHANGED reply
  /\ UNCHANGED <<input, db, aborted, tx_event, tx_session, commit>>

Begin(i) ==
  /\ pc[i] = "begin"
  /\ pc' = [pc EXCEPT ![i] = "row"]
  /\ UNCHANGED <<input, db, tx, reply, commit>>

\* The endpoint answers {"success": true, "imported": 0}.
BeginRefused(i) ==
  /\ "begin" \in Faults
  /\ pc[i] = "begin"
  /\ commit' = [commit EXCEPT ![i] = "begin_refused"]
  /\ IF Format(i) = "api" THEN Succeed(i, 0) ELSE Fail(i)
  /\ UNCHANGED <<input, db, tx>>

IsNext(i, k) == k \in todo[i] /\ \A l \in todo[i] : k <= l

\* Mutation: the statements are executed on the pool, outside the transaction.
InsertRowOnPool(i) ==
  /\ pc[i] = "row"
  /\ \E k \in todo[i] :
       /\ IsNext(i, k)
       /\ input[i].rows[k] \in {"event", "full"}
       /\ website_event' = website_event \cup {<<i, k>>}
       /\ session' = IF input[i].rows[k] = "full" THEN session \cup {<<i, k>>}
                     ELSE session
       /\ todo' = [todo EXCEPT ![i] = @ \ {k}]
  /\ UNCHANGED <<input, pc, aborted, tx_event, tx_session, reply, commit>>

\* The statements of the next row.
InsertRow(i) ==
  /\ pc[i] = "row"
  /\ ~aborted[i]
  /\ \E k \in todo[i] :
       /\ IsNext(i, k)
       /\ input[i].rows[k] \in {"event", "full"}
       /\ tx_event' = [tx_event EXCEPT ![i] = @ \cup {k}]
       /\ tx_session' = [tx_session EXCEPT ![i] =
                           IF input[i].rows[k] = "full" THEN @ \cup {k} ELSE @]
       /\ todo' = [todo EXCEPT ![i] = @ \ {k}]
  /\ UNCHANGED <<input, db, pc, aborted, reply, commit>>

\* One of them fails, which the loop does not notice; it counts the row and
\* goes on, and PostgreSQL refuses everything up to the end of the transaction.
FailRow(i) ==
  /\ pc[i] = "row"
  /\ \E k \in todo[i] :
       /\ IsNext(i, k)
       /\ \/ aborted[i]
          \/ input[i].rows[k] \in {"wide_session", "wide_event"}
          \/ "statement" \in Faults
       /\ todo' = [todo EXCEPT ![i] = @ \ {k}]
  /\ aborted' = [aborted EXCEPT ![i] = TRUE]
  /\ UNCHANGED <<input, db, pc, tx_event, tx_session, reply, commit>>

\* Mutation: the session rows were inserted on a connection of their own.
PublishEventsOnly(i) ==
  /\ website_event' = website_event \cup ({i} \X tx_event[i])
  /\ UNCHANGED session
  /\ commit' = [commit EXCEPT ![i] = "done"]

\* The rows of the transaction become visible together.
Publish(i) ==
  /\ website_event' = website_event \cup ({i} \X tx_event[i])
  /\ session' = session \cup ({i} \X tx_session[i])
  /\ commit' = [commit EXCEPT ![i] = "done"]

\* PostgreSQL answers the commit of an aborted transaction with a rollback,
\* which is not an error for the import.
Commit(i) ==
  /\ pc[i] = "row"
  /\ todo[i] = {}
  /\ IF aborted[i]
       THEN UNCHANGED <<db, commit>>
       ELSE Publish(i)
  /\ Succeed(i, Cardinality(Parsed(i)))
  /\ UNCHANGED <<input, tx>>

\* Mutation: import-umami ignores the error of its commit.
CommitErrorIgnored(i) ==
  /\ pc[i] = "row"
  /\ todo[i] = {}
  /\ \/ "commit" \in Faults /\ commit' = [commit EXCEPT ![i] = "refused"]
                            /\ UNCHANGED db
     \/ "reply" \in Faults /\ ~aborted[i] /\ Publish(i)
  /\ Succeed(i, Cardinality(Parsed(i)))
  /\ UNCHANGED <<input, tx>>

\* The commit returns an error, whether or not PostgreSQL did commit.  Only
\* import-umami looks at it.
CommitError(i) ==
  /\ pc[i] = "row"
  /\ todo[i] = {}
  /\ \/ "commit" \in Faults /\ commit' = [commit EXCEPT ![i] = "refused"]
                            /\ UNCHANGED db
     \/ "reply" \in Faults /\ ~aborted[i] /\ Publish(i)
  /\ IF Format(i) = "umami" THEN Fail(i) ELSE Succeed(i, Cardinality(Parsed(i)))
  /\ UNCHANGED <<input, tx>>

\* The process ends before the commit: PostgreSQL rolls the transaction back.
Exit(i) ==
  /\ "exit" \in Faults
  /\ pc[i] \in {"begin", "row"}
  /\ pc' = [pc EXCEPT ![i] = "gone"]
  /\ UNCHANGED <<input, db, tx, reply, commit>>

Step(i) ==
  \/ Reject(i) \/ Accept(i) \/ Begin(i) \/ BeginRefused(i) \/ InsertRow(i)
  \/ FailRow(i) \/ Commit(i) \/ CommitError(i) \/ Exit(i)

Next == \E i \in Imports : Step(i)

Spec == Init /\ [][Next]_vars

-----------------------------------------------------------------------------
(* Properties *)

StoredRows(i) == {k \in 1..MaxRows : <<i, k>> \in website_event}

\* An import stores all rows that its parser took from the input, with their
\* session rows, or none: one bad row, an exit or a lost connection never leaves
\* half of them behind, however many chunks of 1,000 rows there are (plausible.rs,
\* import_plausible_csv; umami.rs, import_umami_json; import_events).  A line
\* that parse_plausible_csv skips is no row: it is neither stored nor counted
\* nor told.
AllOrNothing ==
  \A i \in Imports :
    \/ StoredRows(i) = {} /\ {k \in 1..MaxRows : <<i, k>> \in session} = {}
    \/ /\ StoredRows(i) = Parsed(i)
       /\ \A k \in Parsed(i) : input[i].rows[k] = "full" => <<i, k>> \in session

\* An import that reports rows it did not store has met a row that PostgreSQL
\* refused, or is one of those that do not look at their commit.
SilentLossExplained ==
  \A i \in Imports :
    answer[i] = "ok" /\ imported[i] # 0 /\ StoredRows(i) = {} =>
      \/ aborted[i]
      \/ commit[i] = "refused" /\ Format(i) \in {"plausible", "api"}

\* An error means that nothing was stored, so that the import can be repeated
\* without storing its input twice; the exception is a commit that PostgreSQL
\* did make and whose answer was lost.
ErrorMeansNothing ==
  \A i \in Imports :
    answer[i] = "error" /\ commit[i] # "done" => StoredRows(i) = {}

\* docs/migration-from-plausible.md:90: an import that is rolled back says so
\* "with a detailed error message".
RollbackReported ==
  \A i \in Imports :
    Format(i) = "plausible" /\ pc[i] = "done" /\ aborted[i] => answer[i] = "error"
=============================================================================
