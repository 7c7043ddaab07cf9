------------------------------ MODULE Recorder ------------------------------
(***************************************************************************)
(* Session replay: the recorder script in each tab of a visitor            *)
(* (recorder/index.js), which cuts the events of the page into numbered    *)
(* chunks, the handler that stores a chunk (app/api/record/route.ts), and  *)
(* the reader that puts the replay of a visit together again               *)
(* (replays/[replayId]/route.ts, lib/replay.ts).                           *)
(*                                                                         *)
(* Time is counted in half seconds: a chunk is numbered by the second, an  *)
(* event is stamped more finely.                                           *)
(***************************************************************************)
EXTENDS Naturals, FiniteSets, SequencesExt

CONSTANTS
  Tabs,         \* the pages the visitor opens, each with its own recorder
  Visits,       \* the visits its tokens may name
  NoToken,
  Sizes,        \* the sizes of events
  SnapshotSizes,\* the sizes of full snapshots
  PayloadLimit, \* REPLAY_MAX_PAYLOAD_SIZE
  FlushCount,   \* REPLAY_FLUSH_EVENT_COUNT
  MaxDuration,  \* maxDuration of the recorder's configuration
  LastTick,     \* bound: the clock
  MaxEffort     \* bound, see RecorderNext

ASSUME RecorderAssumption ==
  /\ NoToken \notin Visits
  /\ Sizes \cup SnapshotSizes \subseteq Nat \ {0}
  /\ {PayloadLimit, FlushCount} \subseteq Nat \ {0}
  /\ {MaxDuration, LastTick, MaxEffort} \subseteq Nat

VARIABLES
  time,
  token,            \* the tracker's token in each tab: the visit it names
  phase,            \* of the recorder of each tab
  replayBuffer,
  replayLastChunkIndex,
  replayStartTime,
  emitted,          \* history: the events each tab has recorded
  recorderEnabled,  \* the owner's switch
  posted,           \* chunks on their way, or lost on it
  session_replay,   \* the table
  upsets            \* token changes and switches so far

tabVars == <<phase, replayBuffer, replayLastChunkIndex, replayStartTime, emitted>>
recorderVars == <<time, token, tabVars, recorderEnabled, posted, session_replay, upsets>>

Upset == upsets' = upsets + 1

RecorderInit ==
  /\ time = 0
  /\ token = [t \in Tabs |-> NoToken]
  /\ phase = [t \in Tabs |-> "open"]
  /\ replayBuffer = [t \in Tabs |-> <<>>]
  /\ replayLastChunkIndex = [t \in Tabs |-> 0]
  /\ replayStartTime = [t \in Tabs |-> 0]
  /\ emitted = [t \in Tabs |-> <<>>]
  /\ recorderEnabled = TRUE
  /\ posted = {}
  /\ session_replay = {}
  /\ upsets = 0

-----------------------------------------------------------------------------
(* Chunks *)

Second == time \div 2
Later(a, b) == IF a > b THEN a ELSE b

TooLarge(events) == FoldLeft(LAMBDA sum, e : sum + e.size, 0, events) > PayloadLimit

\* getReplayEventFragments: an event alone too large is cut into numbered parts.
Parts(e) == (e.size + PayloadLimit - 1) \div PayloadLimit
Fragments(e) == [i \in 1..Parts(e) |-> [event |-> e, part |-> i]]

\* sendReplayEvents: a snapshot travels alone, a fragment too; the chunks a call
\* makes of the events it is given.
Closed(acc) == IF acc.chunk = <<>> THEN acc.chunks ELSE Append(acc.chunks, acc.chunk)

AddEvent(acc, e) ==
  IF e.type = "full" \/ TooLarge(<<e>>)
  THEN [chunk |-> <<>>,
        chunks |-> Closed(acc) \o [i \in 1..Parts(e) |-> <<Fragments(e)[i]>>]]
  ELSE IF TooLarge(Append([i \in DOMAIN acc.chunk |-> acc.chunk[i].event], e))
  THEN [chunk |-> Fragments(e), chunks |-> Closed(acc)]
  ELSE [acc EXCEPT !.chunk = @ \o Fragments(e)]

ChunksOf(events) ==
  LET added[i \in 0..Len(events)] ==
        IF i = 0 THEN [chunk |-> <<>>, chunks |-> <<>>]
        ELSE AddEvent(added[i - 1], events[i])
  IN Closed(added[Len(events)])

\* Mutation: the numbers of the chunks after the first are not remembered.
NumberForgotten(t, acc, batch) ==
  LET first == Later(Second, acc.last + 1)
      chunks == ChunksOf(batch)
  IN IF batch = <<>> THEN acc
     ELSE [last |-> first,
           sent |-> acc.sent \cup
             {[tab |-> t, visit |-> v, index |-> first + i - 1, items |-> chunks[i]]
              : i \in DOMAIN chunks, v \in {token[t]} \ {NoToken}}]

\* getReplayChunkIndex numbers the first chunk of a batch, by the clock but past
\* the last number used; the others of the batch follow it.  Without a token
\* nothing is sent, but the numbers are used up.
Number(t, acc, batch) ==
  LET first == Later(Second, acc.last + 1)
      chunks == ChunksOf(batch)
  IN IF batch = <<>> THEN acc
     ELSE [last |-> first + Len(chunks) - 1,
           sent |-> acc.sent \cup
             {[tab |-> t, visit |-> v, index |-> first + i - 1, items |-> chunks[i]]
              : i \in DOMAIN chunks, v \in {token[t]} \ {NoToken}}]

\* What is sent at once, in one batch after the other.
Numbered(t, batch, next) ==
  Number(t, Number(t, [last |-> replayLastChunkIndex[t], sent |-> {}], batch), next)

Send(t, batch, next) ==
  LET acc == Numbered(t, batch, next)
  IN /\ replayLastChunkIndex' = [replayLastChunkIndex EXCEPT ![t] = acc.last]
     /\ posted' = posted \cup acc.sent

-----------------------------------------------------------------------------
(* A tab *)

\* An answer to the tracker of the tab brings its first token.
FirstAnswer(t) ==
  /\ phase[t] \in {"waiting", "recording"} /\ token[t] = NoToken
  /\ \E v \in Visits : token' = [token EXCEPT ![t] = v]
  /\ UNCHANGED <<time, tabVars, recorderEnabled, posted, session_replay, upsets>>

\* A later answer names another visit, or is no token at all; identify drops it.
LaterAnswer(t) ==
  /\ phase[t] = "recording" /\ token[t] # NoToken
  /\ \E v \in (Visits \cup {NoToken}) \ {token[t]} : token' = [token EXCEPT ![t] = v]
  /\ Upset
  /\ UNCHANGED <<time, tabVars, recorderEnabled, posted, session_replay>>

\* bootstrap: the configuration is fetched once.
Bootstrap(t) ==
  /\ phase[t] = "open"
  /\ phase' = [phase EXCEPT ![t] = IF recorderEnabled THEN "waiting" ELSE "off"]
  /\ UNCHANGED <<time, token, replayBuffer, replayLastChunkIndex, replayStartTime, emitted,
                 recorderEnabled, posted, session_replay, upsets>>

\* waitForSession gives up after 51 looks for a token.
GiveUp(t) ==
  /\ phase[t] = "waiting" /\ token[t] = NoToken
  /\ phase' = [phase EXCEPT ![t] = "off"]
  /\ UNCHANGED <<time, token, replayBuffer, replayLastChunkIndex, replayStartTime, emitted,
                 recorderEnabled, posted, session_replay, upsets>>

EventsSoFar == FoldSet(LAMBDA t, n : n + Len(emitted[t]), 0, Tabs)

\* rrweb records a page as a meta event and a full snapshot, then increments.
Event(t, n, type, size) == [tab |-> t, n |-> n, type |-> type, size |-> size, at |-> time]

\* Mutation: the capture begins without waiting for a token.
ReadyAtOnce(t) == phase[t] = "waiting"

Ready(t) == phase[t] = "waiting" /\ token[t] # NoToken

\* beginReplayCapture: record() takes a snapshot of the page at once.
BeginReplayCapture(t) ==
  /\ Ready(t)
  /\ \E size \in SnapshotSizes :
       LET meta == Event(t, 1, "meta", 1)
           full == Event(t, 2, "full", size)
       IN /\ emitted' = [emitted EXCEPT ![t] = <<meta, full>>]
          /\ Send(t, <<meta>>, <<full>>)
  /\ phase' = [phase EXCEPT ![t] = "recording"]
  /\ replayStartTime' = [replayStartTime EXCEPT ![t] = time]
  /\ UNCHANGED <<time, token, replayBuffer, recorderEnabled, session_replay, upsets>>

Expired(t) == time - replayStartTime[t] > MaxDuration

\* emit, past the maximal duration: what is buffered goes, the event does not.
StopReplay(t) ==
  /\ phase[t] = "recording" /\ Expired(t)
  /\ Send(t, replayBuffer[t], <<>>)
  /\ replayBuffer' = [replayBuffer EXCEPT ![t] = <<>>]
  /\ phase' = [phase EXCEPT ![t] = "stopped"]
  /\ UNCHANGED <<time, token, replayStartTime, emitted, recorderEnabled, session_replay, upsets>>

\* emit of a snapshot, or of an event too large: after what is buffered, alone.
EmitAlone(t) ==
  /\ phase[t] = "recording" /\ ~Expired(t)
  /\ \E type \in {"full", "increment"}, size \in Sizes \cup SnapshotSizes :
       LET e == Event(t, Len(emitted[t]) + 1, type, size)
       IN /\ IF type = "full" THEN size \in SnapshotSizes
             ELSE size \in Sizes /\ TooLarge(<<e>>)
          /\ Send(t, replayBuffer[t], <<e>>)
          /\ emitted' = [emitted EXCEPT ![t] = Append(@, e)]
  /\ replayBuffer' = [replayBuffer EXCEPT ![t] = <<>>]
  /\ UNCHANGED <<time, token, phase, replayStartTime, recorderEnabled, session_replay, upsets>>

\* emit of any other event: the buffer is sent before it gets too large, and
\* when it is full.
EmitBuffered(t) ==
  /\ phase[t] = "recording" /\ ~Expired(t)
  /\ \E size \in Sizes :
       LET e == Event(t, Len(emitted[t]) + 1, "increment", size)
           makeRoom == TooLarge(Append(replayBuffer[t], e))
           buffer == IF makeRoom THEN <<e>> ELSE Append(replayBuffer[t], e)
           full == Len(buffer) >= FlushCount
       IN /\ ~TooLarge(<<e>>)
          /\ Send(t, IF makeRoom THEN replayBuffer[t] ELSE <<>>,
                     IF full THEN buffer ELSE <<>>)
          /\ replayBuffer' = [replayBuffer EXCEPT ![t] = IF full THEN <<>> ELSE buffer]
          /\ emitted' = [emitted EXCEPT ![t] = Append(@, e)]
  /\ UNCHANGED <<time, token, phase, replayStartTime, recorderEnabled, session_replay, upsets>>

\* flushReplay: every two seconds, and when the page is hidden.
FlushReplay(t) ==
  /\ phase[t] = "recording" /\ replayBuffer[t] # <<>>
  /\ Send(t, replayBuffer[t], <<>>)
  /\ replayBuffer' = [replayBuffer EXCEPT ![t] = <<>>]
  /\ UNCHANGED <<time, token, phase, replayStartTime, emitted, recorderEnabled,
                 session_replay, upsets>>

\* pagehide and beforeunload; recorder and tracker go with the page.  Before it
\* records and after it has stopped a recorder has nothing to send.
LeavePage(t) ==
  /\ phase[t] = "recording"
  /\ posted' = posted \cup Numbered(t, replayBuffer[t], <<>>).sent
  /\ phase' = [phase EXCEPT ![t] = "left"]
  /\ token' = [token EXCEPT ![t] = NoToken]
  /\ replayBuffer' = [replayBuffer EXCEPT ![t] = <<>>]
  /\ replayLastChunkIndex' = [replayLastChunkIndex EXCEPT ![t] = 0]
  /\ replayStartTime' = [replayStartTime EXCEPT ![t] = 0]
  /\ UNCHANGED <<time, emitted, recorderEnabled, session_replay, upsets>>

-----------------------------------------------------------------------------
(* The handler *)

\* Mutation: every part counts.
EventCountOfParts(items) == Len(items)

\* getReplayEventCount: an event cut into parts counts with the first of them.
EventCount(items) == Cardinality({k \in DOMAIN items : items[k].part = 1})

\* The website is read from the database and, if the owner has the recorder on,
\* the chunk stored with saveRecording; a switch between the two comes after
\* them as far as anyone can tell.  The recorder ignores every answer and sends
\* nothing twice, so a chunk that is lost, refused or failed to be stored is one
\* that stays posted.
SaveRecording(c) ==
  /\ recorderEnabled
  /\ session_replay' = session_replay \cup
       {[tab |-> c.tab, visit |-> c.visit, chunk_index |-> c.index, events |-> c.items,
         event_count |-> EventCount(c.items)]}
  /\ posted' = posted \ {c}
  /\ UNCHANGED <<time, token, tabVars, recorderEnabled, upsets>>

SwitchRecorder ==
  /\ recorderEnabled' = ~recorderEnabled
  /\ Upset
  /\ UNCHANGED <<time, token, tabVars, posted, session_replay>>

PassTime ==
  /\ time < LastTick
  /\ time' = time + 1
  /\ UNCHANGED <<token, tabVars, recorderEnabled, posted, session_replay, upsets>>

\* The bound on a behaviour: an event and a tick cost one, an upset two.
RecorderNext ==
  /\ \/ \E t \in Tabs :
          \/ FirstAnswer(t) \/ LaterAnswer(t) \/ Bootstrap(t) \/ GiveUp(t)
          \/ BeginReplayCapture(t) \/ StopReplay(t) \/ EmitAlone(t) \/ EmitBuffered(t)
          \/ FlushReplay(t) \/ LeavePage(t)
     \/ \E c \in posted : SaveRecording(c)
     \/ SwitchRecorder \/ PassTime
  /\ EventsSoFar' + time' + 2 * upsets' <= MaxEffort

RecorderSpec == RecorderInit /\ [][RecorderNext]_recorderVars

-----------------------------------------------------------------------------
(* The reader *)

\* getReplayChunks: the rows of a visit by chunk_index.  Two tabs number their
\* chunks apart from each other, and the database returns equals in any order.
Orders(rows) ==
  LET last == Max({r.chunk_index : r \in rows} \cup {0})
      upTo[i \in 0..last] ==
        IF i = 0 THEN {<<>>}
        ELSE {a \o b : a \in upTo[i - 1], b \in SetToSeqs({r \in rows : r.chunk_index = i})}
  IN upTo[last]

\* The places of the items in the chunks, and what is there.
Places(order) == UNION {{<<i, k>> : k \in DOMAIN order[i].events} : i \in DOMAIN order}
ItemAt(order, p) == order[p[1]].events[p[2]]

\* mergeReplayEvents: sort by time, where the order of equals is kept.
MergedBefore(order, p, q) ==
  LET a == ItemAt(order, p).event.at
      b == ItemAt(order, q).event.at
  IN \/ a < b
     \/ a = b /\ (p[1] < q[1] \/ (p[1] = q[1] /\ p[2] < q[2]))

\* restoreReplayEventFragments: an event returns with the last of its parts.
RestoreReplay(order) ==
  {p \in Places(order) :
     Range(Fragments(ItemAt(order, p).event))
       \subseteq {ItemAt(order, q) : q \in {q \in Places(order) :
                                          q = p \/ MergedBefore(order, q, p)}}}

-----------------------------------------------------------------------------
(* Properties *)

Replay(visit) == {r \in session_replay : r.visit = visit}
ItemsOf(sequences) == UNION {Range(s) : s \in sequences}
Whole(e, items) == Range(Fragments(e)) \subseteq items

\* The events that the list of replays counts for a visit are those its replay
\* has, and one for every event that lost another part than its first
\* (lib/replay.ts, getReplayEventCount).
CountHonest(visit) ==
  LET rows == Replay(visit)
      stored == ItemsOf({r.events : r \in rows})
      begun == {i.event : i \in {i \in stored : i.part = 1}}
      whole == {i.event : i \in {i \in stored : Whole(i.event, stored)}}
  IN Cardinality(UNION {{<<r, i>> : i \in 1..r.event_count} : r \in rows})
     = Cardinality(whole) + Cardinality(begun \ whole)

\* The replay of a visit is in the order of time, and it has of every tab
\* exactly the events that are stored whole, in the order they happened: however
\* the chunks arrived, whichever are lost, and although the tabs number theirs
\* apart and past the clock; and the list of replays counts them
\* (recorder/index.js, getReplayChunkIndex and sendReplayEvents;
\* replays/[replayId]/route.ts, mergeReplayEvents; lib/replay.ts,
\* restoreReplayEventFragments).
ReplayFaithful ==
  \A visit \in Visits :
    LET rows == Replay(visit)
        stored == ItemsOf({r.events : r \in rows})
    IN /\ CountHonest(visit)
       /\ \A order \in Orders(rows) :
            /\ {ItemAt(order, p).event : p \in RestoreReplay(order)}
               = {e \in UNION {Range(emitted[t]) : t \in Tabs} : Whole(e, stored)}
            /\ \A p, q \in RestoreReplay(order) :
                 LET e == ItemAt(order, p).event
                     f == ItemAt(order, q).event
                 IN p # q /\ MergedBefore(order, p, q) =>
                      e.at <= f.at /\ (e.tab = f.tab => e.n < f.n)

\* While no token changes and the recorder stays on, every recorded event is
\* buffered, on its way or stored: none is recorded before the tracker has a
\* token to send it with, and none is left behind when the page is left
\* (recorder/index.js, waitForSession, sendPayload and the flushes).
NothingDropped ==
  upsets = 0 =>
    \A t \in Tabs : \A e \in Range(emitted[t]) :
      \/ phase[t] = "recording" /\ e \in Range(replayBuffer[t])
      \/ Whole(e, ItemsOf({c.items : c \in posted} \cup {r.events : r \in session_replay}))
=============================================================================
