--------------------------- MODULE EventDelivery ---------------------------
(***************************************************************************)
(* What the ingest path of Kombu promises, without handlers, caches,       *)
(* workers or transactions: an accepted event waits in the lane its        *)
(* session hashes to, a prefix of a lane becomes visible in one step and   *)
(* in order, and an event that is dropped is never stored later.           *)
(*                                                                         *)
(* IngestPipeline implements this module (property DeliveryRefined there). *)
(***************************************************************************)
EXTENDS Naturals, Sequences, Functions

CONSTANTS
  Events,   \* identities of the collect requests
  Lanes     \* the shards of the ingest queue

VARIABLES
  lane,     \* the lane of each event; it never changes
  pending,  \* per lane, the accepted events that are not settled, in order
  stored,   \* the rows of website_event, in the order they became visible
  lost      \* events the service took over and dropped

vars == <<lane, pending, stored, lost>>

TypeOK ==
  /\ lane \in [Events -> Lanes]
  /\ pending \in [Lanes -> Seq(Events)]
  /\ stored \in Seq(Events)
  /\ lost \in SUBSET Events

Init ==
  /\ lane \in [Events -> Lanes]
  /\ pending = [l \in Lanes |-> <<>>]
  /\ stored = <<>>
  /\ lost = {}

\* Events the service has already taken over.
Taken == lost \cup Range(stored) \cup UNION {Range(pending[l]) : l \in Lanes}

Accept(e) ==
  /\ e \notin Taken
  /\ pending' = [pending EXCEPT ![lane[e]] = Append(@, e)]
  /\ UNCHANGED <<lane, stored, lost>>

\* The lane is full: the event is dropped although its sender is answered.
Refuse(e) ==
  /\ e \notin Taken
  /\ lost' = lost \cup {e}
  /\ UNCHANGED <<lane, pending, stored>>

\* The first n events of a lane become visible together.
Flush(l, n) ==
  /\ stored' = stored \o SubSeq(pending[l], 1, n)
  /\ pending' = [pending EXCEPT ![l] = SubSeq(@, n + 1, Len(@))]
  /\ UNCHANGED <<lane, lost>>

\* The first n events of a lane are dropped together.
Drop(l, n) ==
  /\ lost' = lost \cup {pending[l][i] : i \in 1..n}
  /\ pending' = [pending EXCEPT ![l] = SubSeq(@, n + 1, Len(@))]
  /\ UNCHANGED <<lane, stored>>

\* The process ends: what is pending goes, with some requests it was serving.
LoseAll(served) ==
  /\ served \cap Taken = {}
  /\ lost' = lost \cup served \cup UNION {Range(pending[l]) : l \in Lanes}
  /\ pending' = [l \in Lanes |-> <<>>]
  /\ UNCHANGED <<lane, stored>>

Next ==
  \/ \E e \in Events : Accept(e)
  \/ \E e \in Events : Refuse(e)
  \/ \E l \in Lanes : \E n \in 1..Len(pending[l]) : Flush(l, n)
  \/ \E l \in Lanes : \E n \in 1..Len(pending[l]) : Drop(l, n)
  \/ \E served \in SUBSET Events : LoseAll(served)

Spec == Init /\ [][Next]_vars
=============================================================================
