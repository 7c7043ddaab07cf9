----------------------------- MODULE RateLimiter -----------------------------
(***************************************************************************)
(* The fixed-window limiter of the Kombu service, for one key, and the     *)
(* collect handlers that ask it: send asks once, batch asks once for       *)
(* itself and once more for each of its items.                             *)
(*                                                                         *)
(* The cache of windows is shared by all threads of the runtime.  A check  *)
(* takes the time, reads the window and writes it back in three steps that *)
(* nothing makes one: it has no await, so on one thread no other check     *)
(* comes between them, on several any other may.                           *)
(***************************************************************************)
EXTENDS Integers, FiniteSets

CONSTANTS
  Calls,       \* identities of the HTTP calls
  MaxItems,    \* the longest batch a call carries; bounds the model
  Settings,    \* the deployments of this instance
  Window,      \* seconds of a window
  LastSecond   \* the end of the clock; bounds the model

\*   limit     COLLECT_RATE_LIMIT
\*   threads   threads of the runtime: checks that run at the same time
\*   evicting  whether the cache ever drops the window of this key
Deployments == [limit : Nat, threads : Nat \ {0}, evicting : BOOLEAN]

ASSUME ItemsAssumption == MaxItems \in Nat
ASSUME SettingAssumption == Settings \subseteq Deployments
ASSUME WindowAssumption == Window \in Nat \ {0}
ASSUME ClockAssumption == LastSecond \in Nat

VARIABLES
  clock,     \* seconds
  setting,   \* the deployment
  window,    \* the cache entry of the key
  items,     \* per call, the items of its batch; a send has none
  pc, item,  \* per call, its place and the number of checks behind it
  now,       \* the time the running check has taken
  seen,      \* the window the running check has read
  reply,     \* what the call answered
  admitted   \* history: the checks that were let through

vars == <<clock, setting, window, items, pc, item, now, seen, reply, admitted>>

limit == setting.limit

\* A window that exists counts at least one request.
NoWindow == [count |-> 0, start |-> 0]

Windows == [count : Nat, start : Nat]

Admissions == [call : Calls, item : Nat, now : Nat, start : Nat]

TypeOK ==
  /\ clock \in Nat
  /\ setting \in Settings
  /\ window \in Windows
  /\ items \in [Calls -> 0..MaxItems]
  /\ pc \in [Calls -> {"ready", "read", "decide", "done"}]
  /\ item \in [Calls -> Nat]
  /\ now \in [Calls -> Nat]
  /\ seen \in [Calls -> Windows]
  /\ reply \in [Calls -> {"none", "ok", "refused"}]
  /\ admitted \in SUBSET Admissions

Init ==
  /\ clock = 0
  /\ setting \in Settings
  /\ window = NoWindow
  /\ items \in [Calls -> 0..MaxItems]
  /\ pc = [c \in Calls |-> "ready"]
  /\ item = [c \in Calls |-> 0]
  /\ now = [c \in Calls |-> 0]
  /\ seen = [c \in Calls |-> NoWindow]
  /\ reply = [c \in Calls |-> "none"]
  /\ admitted = {}

-----------------------------------------------------------------------------
(* One check *)

Checking == {c \in Calls : pc[c] \in {"read", "decide"}}

\* The check is over; the call has more items to check, or answers.
Continue(c) ==
  /\ item' = [item EXCEPT ![c] = @ + 1]
  /\ IF item[c] < items[c]
       THEN pc' = [pc EXCEPT ![c] = "ready"] /\ UNCHANGED reply
       ELSE /\ pc' = [pc EXCEPT ![c] = "done"]
            /\ reply' = [reply EXCEPT ![c] = "ok"]

\* A limit of 0 turns the limiter off: it neither reads nor counts.
Unlimited(c) ==
  /\ pc[c] = "ready"
  /\ limit = 0
  /\ Continue(c)
  /\ UNCHANGED <<clock, setting, window, items, now, seen, admitted>>

TakeTime(c) ==
  /\ pc[c] = "ready"
  /\ limit # 0
  /\ Cardinality(Checking) < setting.threads
  /\ now' = [now EXCEPT ![c] = clock]
  /\ pc' = [pc EXCEPT ![c] = "read"]
  /\ UNCHANGED <<clock, setting, window, items, item, seen, reply, admitted>>

ReadWindow(c) ==
  /\ pc[c] = "read"
  /\ seen' = [seen EXCEPT ![c] = window]
  /\ pc' = [pc EXCEPT ![c] = "decide"]
  /\ UNCHANGED <<clock, setting, window, items, item, now, reply, admitted>>

\* Mutation: the window ends with the second it started in.
ExpiredNextSecond(c) == now[c] # seen[c].start

\* The window the check read has ended.  Another thread may have started it
\* after this check took its time: the difference may be negative.
Expired(c) == now[c] - seen[c].start >= Window

\* Mutation: one request too many.
RoomForOneMore(c) == seen[c].count <= limit

\* Mutation: one request too few.
RoomButOne(c) == seen[c].count + 1 < limit

Room(c) == seen[c].count < limit

\* The request is let through and counted in window w.
Admit(c, w) ==
  /\ window' = w
  /\ admitted' = admitted \cup
       {[call |-> c, item |-> item[c], now |-> now[c], start |-> w.start]}
  /\ Continue(c)
  /\ UNCHANGED <<clock, setting, items, now, seen>>

OpenWindow(c) ==
  /\ pc[c] = "decide"
  /\ seen[c] = NoWindow \/ Expired(c)
  /\ Admit(c, [count |-> 1, start |-> now[c]])

CountRequest(c) ==
  /\ pc[c] = "decide"
  /\ seen[c] # NoWindow /\ ~Expired(c)
  /\ Room(c)
  /\ Admit(c, [count |-> seen[c].count + 1, start |-> seen[c].start])

\* What the caller does with a refusal: the call's own check ends it with 429,
\* while batch ignores the refusal of an item and goes on.
TurnAway(c) ==
  IF item[c] = 0
    THEN /\ pc' = [pc EXCEPT ![c] = "done"]
         /\ reply' = [reply EXCEPT ![c] = "refused"]
         /\ UNCHANGED item
    ELSE Continue(c)

\* Mutation: a refused request is counted as well.
RefuseAndCount(c) ==
  /\ pc[c] = "decide"
  /\ seen[c] # NoWindow /\ ~Expired(c)
  /\ ~Room(c)
  /\ TurnAway(c)
  /\ window' = [count |-> seen[c].count + 1, start |-> seen[c].start]
  /\ UNCHANGED <<clock, setting, items, now, seen, admitted>>

Refuse(c) ==
  /\ pc[c] = "decide"
  /\ seen[c] # NoWindow /\ ~Expired(c)
  /\ ~Room(c)
  /\ TurnAway(c)
  /\ UNCHANGED <<clock, setting, window, items, now, seen, admitted>>

Check(c) ==
  \/ Unlimited(c) \/ TakeTime(c) \/ ReadWindow(c)
  \/ OpenWindow(c) \/ CountRequest(c) \/ Refuse(c)

-----------------------------------------------------------------------------
(* The environment *)

Tick ==
  /\ clock < LastSecond
  /\ clock' = clock + 1
  /\ UNCHANGED <<setting, window, items, pc, item, now, seen, reply, admitted>>

\* The cache holds 500,000 keys and drops one when it is full.
Evict ==
  /\ setting.evicting
  /\ window # NoWindow
  /\ window' = NoWindow
  /\ UNCHANGED <<clock, setting, items, pc, item, now, seen, reply, admitted>>

Next == (\E c \in Calls : Check(c)) \/ Tick \/ Evict

Spec == Init /\ [][Next]_vars

-----------------------------------------------------------------------------
(* Properties *)

AdmittedIn(t) == {a \in admitted : a.start = t}

AdmittedDuring(seconds) == {a \in admitted : a.now \in seconds}

\* A window never counts more requests than were let through in it, whatever
\* the threads overwrite: lost counts, never invented ones.
CountHonest ==
  window # NoWindow => window.count <= Cardinality(AdmittedIn(window.start))

\* A request is refused only when the limit was let through in the window that
\* refuses it, even by a check that decides on a window it read long ago.
RefusalJustified ==
  [][\A c \in Calls :
       pc[c] = "decide" /\ pc'[c] # "decide" /\ admitted' = admitted
       => Cardinality(AdmittedIn(seen[c].start)) >= limit]_vars

\* One thread, and a cache that keeps its window.
Serial == setting.threads = 1 /\ ~setting.evicting

\* No window lets more than the limit through where the checks run one after
\* another, for sends and for batches that ask again for each item; and no
\* minute more than twice the limit, by the two windows it can touch.
WindowBound ==
  Serial /\ limit # 0 =>
    \A t \in 0..LastSecond :
      /\ Cardinality(AdmittedIn(t)) <= limit
      /\ Cardinality(AdmittedDuring(t..(t + Window - 1))) <= 2 * limit

\* docs/deployment.md:503, COLLECT_RATE_LIMIT is the "Maximum allowed event
\* ingestion requests per minute per IP": no window lets more through.
DocumentedLimit ==
  limit # 0 => \A t \in 0..LastSecond : Cardinality(AdmittedIn(t)) <= limit
=============================================================================
