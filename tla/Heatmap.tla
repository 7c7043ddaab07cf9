------------------------------- MODULE Heatmap -------------------------------
(***************************************************************************)
(* The scroll heatmap of one page load (recorder/index.js,                 *)
(* beginHeatmapCapture): how deep each URL was scrolled, in a page that    *)
(* changes its URL with the history API, and the rows the record handler   *)
(* stores of it (app/api/record/route.ts).                                 *)
(***************************************************************************)
EXTENDS Naturals, Sequences, FiniteSets

CONSTANTS
  Urls,
  Depths,        \* how deep a page can be scrolled, in percent
  QueueLimit,    \* HEATMAP_FLUSH_EVENT_COUNT
  MaxMoves       \* bound: scrolls and changes of the URL

ASSUME HeatmapAssumption ==
  Depths \subseteq 1..100 /\ QueueLimit \in Nat \ {0} /\ MaxMoves \in Nat

VARIABLES
  href,                 \* location.href
  depth,                \* where the page stands now
  scrollTimer,
  scrollUrl,
  maxScrollPct,
  lastFlushedScrollPct,
  heatmapBuffer,
  heatmap_event,        \* the table
  inSession,            \* the tracker has a token
  stay,                 \* history: changes of the URL so far
  seen,                 \* history: the depths measured, with their stay and URL
  losses,               \* history: whether reports were lost
  moves

heatmapVars == <<href, depth, scrollTimer, scrollUrl, maxScrollPct, lastFlushedScrollPct,
                 heatmapBuffer, heatmap_event, inSession, stay, seen, losses, moves>>

Moved == moves < MaxMoves /\ moves' = moves + 1

-----------------------------------------------------------------------------
(* Reporting *)

\* sendPayload and the handler: all reports of a flush are stored or lost; the
\* handler answers ok also when the statement failed.
Flush(reports) ==
  \/ /\ inSession
     /\ heatmap_event' = heatmap_event \cup {reports[i] : i \in DOMAIN reports}
     /\ losses' = losses
  \/ heatmap_event' = heatmap_event /\ losses' = (losses \/ reports # <<>>)

\* queueHeatmapEvent of the reports that are due, then a flush when there are
\* many, or in any case.
Queue(reports, always) ==
  LET buffer == heatmapBuffer \o reports
  IN IF always \/ Len(buffer) >= QueueLimit
     THEN heatmapBuffer' = <<>> /\ Flush(buffer)
     ELSE heatmapBuffer' = buffer /\ UNCHANGED <<heatmap_event, losses>>

\* Mutation: what was reported is reported again.
DeepestKept(max) == maxScrollPct' = max

\* flushScroll, once max is the deepest point measured: nothing is reported,
\* and nothing forgotten, unless it is deeper than the last report.
Due(max) == max > 0 /\ max > lastFlushedScrollPct
Reports(max) ==
  IF Due(max) THEN <<[stay |-> stay, url |-> scrollUrl, pct |-> max]>> ELSE <<>>
Deepest(max) == maxScrollPct' = IF Due(max) THEN 0 ELSE max
Flushed(max) == IF Due(max) THEN max ELSE lastFlushedScrollPct

-----------------------------------------------------------------------------
(* The page *)

\* Mutation: the comparison is turned round.
MeasuredLeast(at) == IF at < maxScrollPct THEN at ELSE maxScrollPct

Measured(at) == IF at > maxScrollPct THEN at ELSE maxScrollPct
Seen(at) == seen' = seen \cup {[stay |-> stay, url |-> href, pct |-> at]}

\* beginHeatmapCapture measures the page once, with an empty buffer and queue.
HeatmapInit ==
  /\ href \in Urls /\ scrollUrl = href
  /\ depth \in Depths
  /\ scrollTimer = FALSE
  /\ maxScrollPct = 0
  /\ lastFlushedScrollPct = depth
  /\ heatmapBuffer = <<[stay |-> 0, url |-> href, pct |-> depth]>>
  /\ heatmap_event = {}
  /\ inSession = TRUE
  /\ stay = 0
  /\ seen = {[stay |-> 0, url |-> href, pct |-> depth]}
  /\ losses = FALSE
  /\ moves = 0

\* The visitor scrolls; the first scroll of a while starts the timer.
OnScroll ==
  /\ \E at \in Depths \ {depth} : depth' = at
  /\ scrollTimer' = TRUE
  /\ Moved
  /\ UNCHANGED <<href, scrollUrl, maxScrollPct, lastFlushedScrollPct, heatmapBuffer,
                 heatmap_event, inSession, stay, seen, losses>>

\* The timer measures where the page is by now.
ScrollTimer ==
  /\ scrollTimer
  /\ scrollTimer' = FALSE
  /\ Seen(depth)
  /\ Deepest(Measured(depth))
  /\ lastFlushedScrollPct' = Flushed(Measured(depth))
  /\ Queue(Reports(Measured(depth)), FALSE)
  /\ UNCHANGED <<href, depth, scrollUrl, inSession, stay, moves>>

\* pushState, replaceState or popstate, then onUrlChange; the new view may stand
\* anywhere.
OnUrlChange ==
  /\ \E url \in Urls \ {href}, at \in Depths :
       href' = url /\ scrollUrl' = url /\ depth' = at
  /\ Deepest(maxScrollPct)
  /\ lastFlushedScrollPct' = 0
  /\ Queue(Reports(maxScrollPct), FALSE)
  /\ stay' = stay + 1
  /\ Moved
  /\ UNCHANGED <<scrollTimer, inSession, seen>>

\* visibilitychange and beforeunload
Hide ==
  /\ Deepest(maxScrollPct)
  /\ lastFlushedScrollPct' = Flushed(maxScrollPct)
  /\ Queue(Reports(maxScrollPct), TRUE)
  /\ UNCHANGED <<href, depth, scrollTimer, scrollUrl, inSession, stay, seen, moves>>

\* The timer of scheduleHeatmapFlush
FlushHeatmap ==
  /\ heatmapBuffer # <<>>
  /\ Queue(<<>>, TRUE)
  /\ UNCHANGED <<href, depth, scrollTimer, scrollUrl, maxScrollPct, lastFlushedScrollPct,
                 inSession, stay, seen, moves>>

\* The tracker gets or loses its token.
SessionChange ==
  /\ inSession' = ~inSession
  /\ UNCHANGED <<href, depth, scrollTimer, scrollUrl, maxScrollPct, lastFlushedScrollPct,
                 heatmapBuffer, heatmap_event, stay, seen, losses, moves>>

HeatmapNext ==
  OnScroll \/ ScrollTimer \/ OnUrlChange \/ Hide \/ FlushHeatmap \/ SessionChange

HeatmapSpec == HeatmapInit /\ [][HeatmapNext]_heatmapVars

-----------------------------------------------------------------------------
(* Properties *)

Reported == heatmap_event \cup {heatmapBuffer[i] : i \in DOMAIN heatmapBuffer}

\* A reported depth was measured on the URL it is reported for, or is left over
\* from the URL just before: a depth measured there, but not deeper than the last
\* report, is not forgotten with the URL (recorder/index.js, the early return of
\* flushScroll and the reset of onUrlChange).
DepthExplained ==
  \A r \in Reported : \E s \in seen :
    /\ s.pct = r.pct
    /\ s = r \/ s.stay = r.stay - 1

\* Every depth measured on a URL is covered by a report for that URL at least as
\* deep, unless reports were lost (flushScroll).
DepthReported ==
  losses \/ \A s \in seen : \E r \in Reported :
    r.stay = s.stay /\ r.url = s.url /\ r.pct >= s.pct

\* The scroll map of a URL is neither deeper nor shallower than its visitor went,
\* but for what is left over and what is lost.
ScrollHonest == DepthExplained /\ DepthReported
=============================================================================
