------------------------------- MODULE Tracker -------------------------------
(***************************************************************************)
(* The tracker script in the visitor's browser (tracker/index.ts): one     *)
(* page at a time, which the visitor scrolls, hides, shows, moves through  *)
(* with the history API, leaves and loads again.  Automatic page views,    *)
(* engagement and performance reports are on.                              *)
(***************************************************************************)
EXTENDS Wire, SequencesExt

CONSTANTS
  Pages,         \* the URLs of the site
  BeforeSend     \* whether the page has a before-send callback

ASSUME TrackerAssumption == BeforeSend \in BOOLEAN

VARIABLES
  visible,          \* the page is open, hidden or closed
  currentUrl,
  pending,          \* page views the 300 ms timers have still to send
  scrolled,         \* the engagement of this page is worth a report
  scrollEngagedSent,
  performanceSent,  \* sent, of initPerformance
  cache,            \* the token, if any
  identity,
  segments          \* history: the pages in the order shown, with the reports sent

trackerVars == <<visible, currentUrl, pending, scrolled, scrollEngagedSent,
                 performanceSent, cache, identity, segments>>

Segment(page) == [page |-> page, worth |-> FALSE, scroll |-> <<>>, performance |-> <<>>]

\* What the tracker sends at once, which is never more than two reports, except
\* what never reaches the network.
Transmitted(ms) ==
  {wire, wire \o ms} \cup {Append(wire, m) : m \in Range(ms)}
Transmit(ms) == wire' \in Transmitted(ms)

\* With its page goes who waits for the answers; what was not sent yet is lost.
Abandoned(w) ==
  [r \in DOMAIN w |-> [w[r] EXCEPT !.awaited = FALSE,
                                   !.pc = IF @ = "hooked" /\ w[r].awaited THEN "done" ELSE @]]

Message(kind, token, id, beacon) ==
  NewRequest(kind, id, beacon, IF BeforeSend \/ beacon THEN {} ELSE token,
             IF BeforeSend THEN "hooked" ELSE "sent")

\* The page view of init, with nothing kept from an earlier page.
FirstView == Message("view", {}, Anonymous, FALSE)

TrackerInit ==
  /\ visible = "open"
  /\ currentUrl \in Pages
  /\ pending = 0
  /\ scrolled = FALSE
  /\ scrollEngagedSent = FALSE
  /\ performanceSent = FALSE
  /\ cache = {}
  /\ identity = Anonymous
  /\ segments = <<Segment(currentUrl)>>
  /\ clock = FirstTick
  /\ address \in Addresses
  /\ mishaps = 0
  /\ wire = <<FirstView>>

\* send after the callback has answered: the token is read now, not before.
CallbackReturns(r) ==
  /\ wire[r].pc = "hooked"
  /\ wire' = [wire EXCEPT ![r].pc = "sent", ![r].addr = address,
                          ![r].tok = IF wire[r].awaited THEN cache ELSE {}]
  /\ UNCHANGED <<trackerVars, around>>

-----------------------------------------------------------------------------
(* Reports of the page shown *)

Report(kind, beacon) == Message(kind, cache, identity, beacon)

\* sendPerformance and flushEngagement
Performance(beacon) ==
  IF ~performanceSent THEN <<Report("view", beacon)>> ELSE <<>>

\* Mutation: the engagement is reported again although it was sent.
EngagementAgain(beacon) == IF scrolled THEN <<Report("scroll", beacon)>> ELSE <<>>

Engagement(beacon) ==
  IF scrolled /\ ~scrollEngagedSent THEN <<Report("scroll", beacon)>> ELSE <<>>
Reports(beacon) == Performance(beacon) \o Engagement(beacon)

\* The reports, with the page that is shown, under the URL they name.
Noted(performance, engagement) ==
  [segments EXCEPT
     ![Len(segments)].performance = @ \o [i \in DOMAIN performance |-> currentUrl],
     ![Len(segments)].scroll = @ \o [i \in DOMAIN engagement |-> currentUrl]]

\* handlePush: the page is reported before the URL changes, then the reports
\* of the next one start afresh.
HandlePush ==
  /\ visible # "closed"
  /\ Transmit(Reports(FALSE))
  /\ \E url \in Pages :
       /\ currentUrl' = url
       /\ pending' = IF url # currentUrl THEN pending + 1 ELSE pending
       /\ segments' = Append(Noted(Performance(FALSE), Engagement(FALSE)), Segment(url))
  /\ scrolled' = FALSE
  /\ scrollEngagedSent' = FALSE
  /\ performanceSent' = FALSE
  /\ UNCHANGED <<visible, cache, identity, around>>

\* The page is hidden (visibilitychange) or unloaded (pagehide): both reports
\* go out as beacons, unless they have gone already.
Leave(how) ==
  /\ visible # "closed" /\ visible # how
  /\ \E w \in Transmitted(Reports(TRUE)) :
       wire' = IF how = "closed" THEN Abandoned(w) ELSE w
  /\ segments' = Noted(Performance(TRUE), Engagement(TRUE))
  /\ visible' = how
  /\ scrollEngagedSent' = (scrollEngagedSent \/ scrolled)
  /\ performanceSent' = TRUE
  /\ pending' = IF how = "closed" THEN 0 ELSE pending
  /\ UNCHANGED <<currentUrl, scrolled, cache, identity, around>>

Show ==
  /\ visible = "hidden"
  /\ visible' = "open"
  /\ UNCHANGED <<currentUrl, pending, scrolled, scrollEngagedSent, performanceSent,
                 cache, identity, segments, wire, around>>

Scroll ==
  /\ visible = "open" /\ ~scrolled
  /\ scrolled' = TRUE
  /\ segments' = [segments EXCEPT ![Len(segments)].worth = TRUE]
  /\ UNCHANGED <<visible, currentUrl, pending, scrollEngagedSent, performanceSent,
                 cache, identity, wire, around>>

\* Ten seconds on a page: its performance is reported without waiting longer.
PerformanceTimeout ==
  /\ visible # "closed" /\ ~performanceSent
  /\ Transmit(Performance(FALSE))
  /\ segments' = Noted(Performance(FALSE), <<>>)
  /\ performanceSent' = TRUE
  /\ UNCHANGED <<visible, currentUrl, pending, scrolled, scrollEngagedSent,
                 cache, identity, around>>

-----------------------------------------------------------------------------
(* Page views, and what the page itself sends *)

\* A timer of handlePush: the page view takes the URL of this moment.
DelayedTrack ==
  /\ pending > 0
  /\ Transmit(<<Report("view", FALSE)>>)
  /\ pending' = pending - 1
  /\ UNCHANGED <<visible, currentUrl, scrolled, scrollEngagedSent, performanceSent,
                 cache, identity, segments, around>>

Track(kind) ==
  /\ visible # "closed"
  /\ kind \in Calls \ {"identify"}
  /\ wire' = Append(wire, Report(kind, FALSE))
  /\ UNCHANGED <<trackerVars, around>>

\* identify drops the token before it sends.
Identify(id) ==
  /\ visible # "closed"
  /\ "identify" \in Calls
  /\ identity' = id
  /\ cache' = {}
  /\ wire' = Append(wire, Message("identify", {}, id, FALSE))
  /\ UNCHANGED <<visible, currentUrl, pending, scrolled, scrollEngagedSent,
                 performanceSent, segments, around>>

-----------------------------------------------------------------------------
(* Answers *)

\* Whatever JSON comes back becomes the token, also that of a refusal.
Arrive(r) ==
  /\ wire[r].pc \in {"answered", "refused"}
  /\ wire' = [wire EXCEPT ![r].pc = "done", ![r].awaited = FALSE]
  /\ cache' = IF ~wire[r].awaited THEN cache
              ELSE IF wire[r].pc = "answered" THEN wire[r].reply ELSE {}
  /\ UNCHANGED <<visible, currentUrl, pending, scrolled, scrollEngagedSent,
                 performanceSent, identity, segments, around>>

\* The connection breaks before the request arrives, or before its answer does;
\* or the page goes before its callback has answered.
Lost(r) ==
  /\ wire[r].pc \in {"hooked", "sent", "answered", "refused"}
  /\ wire' = [wire EXCEPT ![r].pc = "done", ![r].awaited = FALSE]
  /\ UNCHANGED <<trackerVars, address>>
  /\ Mishap

\* The script is loaded again and starts with nothing.
Load ==
  /\ visible = "closed"
  /\ \E url \in Pages :
       /\ currentUrl' = url
       /\ segments' = Append(segments, Segment(url))
  /\ wire' = Append(wire, FirstView)
  /\ visible' = "open"
  /\ pending' = 0
  /\ scrolled' = FALSE
  /\ scrollEngagedSent' = FALSE
  /\ performanceSent' = FALSE
  /\ cache' = {}
  /\ identity' = Anonymous
  /\ UNCHANGED around

TrackerStep ==
  \/ HandlePush \/ Leave("hidden") \/ Leave("closed") \/ Show \/ Scroll
  \/ PerformanceTimeout \/ DelayedTrack \/ Load
  \/ \E kind \in Calls : Track(kind)
  \/ \E id \in Identities : Identify(id)
  \/ \E r \in DOMAIN wire : CallbackReturns(r) \/ Arrive(r) \/ Lost(r)
=============================================================================
