-------------------------- MODULE RateLimiter_proofs --------------------------
(***************************************************************************)
(* Theorems about RateLimiter, for every number of calls and threads, any  *)
(* limits and window, with and without evictions.                          *)
(***************************************************************************)
EXTENDS RateLimiter, FiniteSetTheorems, TLAPS

LEMMA NoWindowType == NoWindow \in Windows
  BY DEF NoWindow, Windows

LEMMA TypeInit == Init => TypeOK
  BY NoWindowType, ItemsAssumption DEF Init, TypeOK

LEMMA ContinueType ==
  ASSUME TypeOK, NEW c \in Calls, Continue(c)
  PROVE  /\ item' \in [Calls -> Nat]
         /\ pc' \in [Calls -> {"ready", "read", "decide", "done"}]
         /\ reply' \in [Calls -> {"none", "ok", "refused"}]
<1>1. item' \in [Calls -> Nat]
  BY DEF Continue, TypeOK
<1>2. CASE item[c] < items[c]
  BY <1>1, <1>2 DEF Continue, TypeOK
<1>3. CASE ~(item[c] < items[c])
  BY <1>1, <1>3 DEF Continue, TypeOK
<1> QED
  BY <1>2, <1>3

LEMMA AdmitType ==
  ASSUME TypeOK, NEW c \in Calls, NEW w \in Windows, Admit(c, w)
  PROVE  TypeOK'
<1>1. [call |-> c, item |-> item[c], now |-> now[c], start |-> w.start] \in Admissions
  BY DEF TypeOK, Admissions, Windows
<1>2. Continue(c)
  BY DEF Admit
<1> QED
  BY <1>1, <1>2, ContinueType DEF TypeOK, Admit

LEMMA TypeStep == TypeOK /\ [Next]_vars => TypeOK'
<1> SUFFICES ASSUME TypeOK, [Next]_vars PROVE TypeOK'
  OBVIOUS
<1>1. ASSUME NEW c \in Calls, Check(c)
      PROVE  TypeOK'
  <2>1. CASE Unlimited(c)
    BY <2>1, ContinueType DEF Unlimited, TypeOK
  <2>2. CASE TakeTime(c)
    BY <2>2 DEF TakeTime, TypeOK
  <2>3. CASE ReadWindow(c)
    BY <2>3 DEF ReadWindow, TypeOK
  <2>4. CASE OpenWindow(c)
    <3>1. [count |-> 1, start |-> now[c]] \in Windows
      BY DEF TypeOK, Windows
    <3> QED
      BY <2>4, <3>1, AdmitType DEF OpenWindow
  <2>5. CASE CountRequest(c)
    <3>1. [count |-> seen[c].count + 1, start |-> seen[c].start] \in Windows
      BY DEF TypeOK, Windows
    <3> QED
      BY <2>5, <3>1, AdmitType DEF CountRequest
  <2>6. CASE Refuse(c)
    <3>1. CASE item[c] = 0
      BY <2>6, <3>1 DEF Refuse, TurnAway, TypeOK
    <3>2. CASE item[c] # 0
      BY <2>6, <3>2, ContinueType DEF Refuse, TurnAway, TypeOK
    <3> QED
      BY <3>1, <3>2
  <2> QED
    BY <1>1, <2>1, <2>2, <2>3, <2>4, <2>5, <2>6 DEF Check
<1>2. CASE Tick
  BY <1>2 DEF Tick, TypeOK
<1>3. CASE Evict
  BY <1>3, NoWindowType DEF Evict, TypeOK
<1>4. CASE UNCHANGED vars
  BY <1>4 DEF vars, TypeOK
<1> QED
  BY <1>1, <1>2, <1>3, <1>4 DEF Next

-----------------------------------------------------------------------------
(* Counts are honest *)

Honest(w) == w # NoWindow => w.count <= Cardinality(AdmittedIn(w.start))

\* Each check of a call is let through at most once, so that admissions can be
\* counted; a window that a check has read stays honest while it is held.
HonestInv ==
  /\ IsFiniteSet(admitted)
  /\ \A a \in admitted : a.item < item[a.call]
  /\ Honest(window)
  /\ \A c \in Calls : pc[c] = "decide" => Honest(seen[c])

\* What was honest stays so while the set of admissions grows.
LEMMA HonestKept ==
  ASSUME NEW w \in Windows, IsFiniteSet(admitted'), admitted \subseteq admitted',
         Honest(w)
  PROVE  Honest(w)'
<1>1. AdmittedIn(w.start) \subseteq AdmittedIn(w.start)'
  BY DEF AdmittedIn
<1>2. IsFiniteSet(AdmittedIn(w.start)')
  <2>1. AdmittedIn(w.start)' \subseteq admitted'
    BY DEF AdmittedIn
  <2> QED
    BY <2>1, FS_Subset
<1>3. /\ Cardinality(AdmittedIn(w.start)) <= Cardinality(AdmittedIn(w.start)')
      /\ Cardinality(AdmittedIn(w.start)) \in Nat
      /\ Cardinality(AdmittedIn(w.start)') \in Nat
  BY <1>1, <1>2, FS_Subset, FS_CardinalityType
<1> QED
  BY <1>3 DEF Honest, Windows

\* A check that is let through adds one admission to the window it writes.
LEMMA AdmitHonest ==
  ASSUME TypeOK, HonestInv, NEW c \in Calls, NEW w \in Windows, Admit(c, w),
         w.count <= 1 + Cardinality(AdmittedIn(w.start))
  PROVE  HonestInv' /\ admitted' # admitted
<1> DEFINE a == [call |-> c, item |-> item[c], now |-> now[c], start |-> w.start]
<1>1. /\ admitted' = admitted \cup {a} /\ window' = w /\ seen' = seen
      /\ item' = [item EXCEPT ![c] = @ + 1]
  BY DEF Admit, Continue
<1>2. a \notin admitted
  BY DEF HonestInv, TypeOK
<1>3. IsFiniteSet(admitted')
  BY <1>1, FS_AddElement DEF HonestInv
<1>4. \A b \in admitted' : b.item < item'[b.call]
  <2>1. \A b \in admitted : b.call \in Calls /\ b.item \in Nat /\ b.item < item[b.call]
    BY DEF HonestInv, TypeOK, Admissions
  <2>2. \A d \in Calls : item'[d] \in Nat /\ item[d] \in Nat /\ item'[d] >= item[d]
    BY <1>1 DEF TypeOK
  <2>3. \A b \in admitted : b.item < item'[b.call]
    BY <2>1, <2>2
  <2>4. a.item < item'[a.call]
    BY <1>1 DEF TypeOK
  <2> HIDE DEF a
  <2> QED
    BY <1>1, <2>3, <2>4
<1>5. Honest(w)'
  <2>1. AdmittedIn(w.start)' = AdmittedIn(w.start) \cup {a}
    BY <1>1 DEF AdmittedIn
  <2>2. a \notin AdmittedIn(w.start) /\ IsFiniteSet(AdmittedIn(w.start))
    BY <1>2, FS_Subset DEF AdmittedIn, HonestInv
  <2> HIDE DEF a
  <2>3. /\ Cardinality(AdmittedIn(w.start) \cup {a}) = Cardinality(AdmittedIn(w.start)) + 1
        /\ Cardinality(AdmittedIn(w.start)) \in Nat
    BY <2>2, FS_AddElement, FS_CardinalityType
  <2>4. Cardinality(AdmittedIn(w.start)') = Cardinality(AdmittedIn(w.start)) + 1
    BY <2>1, <2>3
  <2> QED
    BY <2>3, <2>4 DEF Honest, Windows
<1>6. \A d \in Calls : pc'[d] = "decide" => Honest(seen[d])'
  <2> TAKE d \in Calls
  <2>1. pc'[d] = "decide" => pc[d] = "decide"
    BY DEF Admit, Continue, TypeOK
  <2>2. seen[d] \in Windows
    BY DEF TypeOK
  <2>3. pc'[d] = "decide" => Honest(seen[d])
    BY <2>1 DEF HonestInv
  <2>4. \A v \in Windows : Honest(v) => Honest(v)'
    BY <1>1, <1>3, HonestKept
  <2> QED
    BY <1>1, <2>2, <2>3, <2>4 DEF Honest, AdmittedIn
<1>7. Honest(window)'
  BY <1>1, <1>5 DEF Honest, AdmittedIn
<1> QED
  BY <1>1, <1>2, <1>3, <1>4, <1>6, <1>7 DEF HonestInv

LEMMA OpenHonest ==
  ASSUME TypeOK, HonestInv, NEW c \in Calls, OpenWindow(c)
  PROVE  HonestInv' /\ admitted' # admitted
<1> DEFINE w == [count |-> 1, start |-> now[c]]
<1>1. w \in Windows /\ w.count = 1
  BY DEF TypeOK, Windows
<1>2. Cardinality(AdmittedIn(w.start)) \in Nat
  <2>1. IsFiniteSet(AdmittedIn(w.start))
    BY FS_Subset DEF AdmittedIn, HonestInv
  <2> QED
    BY <2>1, FS_CardinalityType
<1>3. Admit(c, w)
  BY DEF OpenWindow
<1> HIDE DEF w
<1> QED
  BY <1>1, <1>2, <1>3, AdmitHonest

LEMMA CountRequestHonest ==
  ASSUME TypeOK, HonestInv, NEW c \in Calls, CountRequest(c)
  PROVE  HonestInv' /\ admitted' # admitted
<1> DEFINE w == [count |-> seen[c].count + 1, start |-> seen[c].start]
<1>1. w \in Windows /\ w.count = seen[c].count + 1 /\ w.start = seen[c].start
  BY DEF TypeOK, Windows
<1>2. Honest(seen[c]) /\ seen[c] # NoWindow /\ seen[c] \in Windows
  BY DEF CountRequest, HonestInv, TypeOK
<1>3. Cardinality(AdmittedIn(seen[c].start)) \in Nat
  <2>1. IsFiniteSet(AdmittedIn(seen[c].start))
    BY FS_Subset DEF AdmittedIn, HonestInv
  <2> QED
    BY <2>1, FS_CardinalityType
<1>4. Admit(c, w)
  BY DEF CountRequest
<1>5. w.count <= 1 + Cardinality(AdmittedIn(w.start))
  BY <1>1, <1>2, <1>3 DEF Honest, Windows
<1> HIDE DEF w
<1> QED
  BY <1>1, <1>4, <1>5, AdmitHonest

\* A step that admits nobody keeps the invariant if the windows it leaves to be
\* decided on are windows that were there.
LEMMA HonestFrame ==
  ASSUME TypeOK, HonestInv, admitted' = admitted,
         \A c \in Calls : item'[c] >= item[c] /\ item'[c] \in Nat,
         window' \in {window, NoWindow},
         \A c \in Calls : pc'[c] = "decide" =>
           \/ pc[c] = "decide" /\ seen'[c] = seen[c]
           \/ seen'[c] = window
  PROVE  HonestInv'
<1>1. \A w : Honest(w) => Honest(w)'
  BY DEF Honest, AdmittedIn
<1>2. Honest(window)' /\ Honest(NoWindow)
  BY DEF HonestInv, Honest, AdmittedIn
<1>3. \A c \in Calls : pc'[c] = "decide" => Honest(seen[c])'
  BY DEF HonestInv, Honest, AdmittedIn
<1>4. \A b \in admitted : b.item < item'[b.call]
  <2>1. \A b \in admitted : b.call \in Calls /\ b.item \in Nat /\ b.item < item[b.call]
    BY DEF HonestInv, TypeOK, Admissions
  <2> QED
    BY <2>1 DEF TypeOK
<1> QED
  BY <1>2, <1>3, <1>4 DEF HonestInv

LEMMA ContinueItem ==
  ASSUME TypeOK, NEW c \in Calls, Continue(c) \/ TurnAway(c)
  PROVE  /\ \A d \in Calls : item'[d] >= item[d] /\ item'[d] \in Nat
         /\ \A d \in Calls : pc'[d] = "decide" => pc[d] = "decide"
  BY DEF Continue, TurnAway, TypeOK

LEMMA HonestStep == TypeOK /\ HonestInv /\ [Next]_vars => HonestInv'
<1> SUFFICES ASSUME TypeOK, HonestInv, [Next]_vars PROVE HonestInv'
  OBVIOUS
<1>0. \A d \in Calls : item[d] \in Nat
  BY DEF TypeOK
<1>1. ASSUME NEW c \in Calls, Check(c)
      PROVE  HonestInv'
  <2>1. CASE Unlimited(c)
    BY <2>1, ContinueItem, HonestFrame DEF Unlimited
  <2>2. CASE TakeTime(c)
    BY <1>0, <2>2, HonestFrame DEF TakeTime, TypeOK
  <2>3. CASE ReadWindow(c)
    BY <1>0, <2>3, HonestFrame DEF ReadWindow, TypeOK
  <2>4. CASE Refuse(c)
    BY <2>4, ContinueItem, HonestFrame DEF Refuse
  <2> QED
    BY <1>1, <2>1, <2>2, <2>3, <2>4, OpenHonest, CountRequestHonest DEF Check
<1>2. CASE Tick \/ Evict \/ UNCHANGED vars
  BY <1>0, <1>2, HonestFrame DEF Tick, Evict, vars
<1> QED
  BY <1>1, <1>2 DEF Next

LEMMA HonestInit == Init => HonestInv
<1> SUFFICES ASSUME Init PROVE HonestInv
  OBVIOUS
<1>1. IsFiniteSet(admitted)
  BY FS_EmptySet DEF Init
<1> QED
  BY <1>1 DEF Init, HonestInv, Honest

LEMMA HonestAlways == Spec => [](TypeOK /\ HonestInv)
  BY TypeInit, TypeStep, HonestInit, HonestStep, PTL DEF Spec

\* A window never counts more requests than were let through in it
\* (rate_limit.rs:43-49), although threads overwrite each other's counts.
THEOREM CountsAreHonest == Spec => []CountHonest
<1>1. HonestInv => CountHonest
  BY DEF HonestInv, Honest, CountHonest
<1> QED
  BY <1>1, HonestAlways, PTL

\* Nobody is refused (rate_limit.rs:50-62) before the limit was let through in
\* the window that refuses: races make the limiter lenient, never strict.
THEOREM RefusalsAreJustified == Spec => RefusalJustified
<1>1. TypeOK /\ HonestInv /\ [Next]_vars =>
        [\A c \in Calls :
           pc[c] = "decide" /\ pc'[c] # "decide" /\ admitted' = admitted
             => Cardinality(AdmittedIn(seen[c].start)) >= limit]_vars
  <2> SUFFICES ASSUME TypeOK, HonestInv, Next, NEW c \in Calls,
                      pc[c] = "decide", pc'[c] # "decide", admitted' = admitted
               PROVE  Cardinality(AdmittedIn(seen[c].start)) >= limit
    OBVIOUS
  <2>1. Refuse(c)
    <3>1. PICK d \in Calls : Check(d)
      BY DEF Next, Tick, Evict
    <3>2. d = c
      BY <3>1 DEF Check, Unlimited, TakeTime, ReadWindow, OpenWindow, CountRequest,
                  Refuse, Admit, TurnAway, Continue, TypeOK
    <3> QED
      BY <3>1, <3>2, OpenHonest, CountRequestHonest
      DEF Check, Unlimited, TakeTime, ReadWindow
  <2>2. /\ seen[c] \in Windows /\ seen[c] # NoWindow /\ Honest(seen[c])
        /\ ~(seen[c].count < limit)
    BY <2>1 DEF Refuse, Room, HonestInv, TypeOK
  <2>3. Cardinality(AdmittedIn(seen[c].start)) \in Nat
    <3>1. IsFiniteSet(AdmittedIn(seen[c].start))
      BY FS_Subset DEF AdmittedIn, HonestInv
    <3> QED
      BY <3>1, FS_CardinalityType
  <2>4. limit \in Nat
    BY SettingAssumption DEF limit, Deployments, TypeOK
  <2> QED
    BY <2>2, <2>3, <2>4 DEF Honest, Windows, TypeOK
<1> QED
  BY <1>1, HonestAlways, PTL DEF Spec, RefusalJustified

-----------------------------------------------------------------------------
(* The bounds of a serial limiter *)

\* One check runs at a time, decides on the window as it is, and no earlier than
\* anything that was admitted or opened.
OneAtATime ==
  /\ \A c, d \in Checking : c = d
  /\ \A c \in Calls : pc[c] = "decide" => seen[c] = window
  /\ window.start <= clock
  /\ \A a \in admitted : a.now <= clock
  /\ \A c \in Checking :
       /\ now[c] <= clock /\ window.start <= now[c]
       /\ \A a \in admitted : a.now <= now[c]

\* The windows so far: each lasts less than Window, the next begins no earlier
\* than Window after it, and the cache holds the last, with an exact count.
WindowsApart ==
  /\ window = NoWindow => admitted = {}
  /\ window # NoWindow =>
       window.count # 0 /\ window.count = Cardinality(AdmittedIn(window.start))
  /\ \A a \in admitted :
       a.start <= window.start /\ a.start <= a.now /\ a.now < a.start + Window
  /\ \A a, b \in admitted : a.start < b.start => b.start - a.start >= Window
  /\ \A t \in Nat : Cardinality(AdmittedIn(t)) <= limit

SerialInv ==
  /\ IsFiniteSet(Checking)
  /\ Serial /\ limit # 0 => OneAtATime /\ WindowsApart

LEMMA SerialInit == Init => SerialInv
<1> SUFFICES ASSUME Init PROVE SerialInv
  OBVIOUS
<1>1. Checking = {} /\ admitted = {} /\ window = NoWindow /\ clock = 0
  BY DEF Init, Checking
<1>2. IsFiniteSet(Checking)
  BY <1>1, FS_EmptySet
<1>3. OneAtATime
  BY <1>1 DEF Init, OneAtATime, NoWindow
<1>4. limit \in Nat
  BY SettingAssumption DEF Init, limit, Deployments
<1>5. \A t \in Nat : Cardinality(AdmittedIn(t)) <= limit
  <2> TAKE t \in Nat
  <2>1. AdmittedIn(t) = {}
    BY <1>1 DEF AdmittedIn
  <2> QED
    BY <1>4, <2>1, FS_EmptySet
<1>6. WindowsApart
  BY <1>1, <1>5 DEF WindowsApart
<1> QED
  BY <1>2, <1>3, <1>6 DEF SerialInv

\* The checks that run are finitely many: there is one more at most.
LEMMA CheckingFinite ==
  ASSUME IsFiniteSet(Checking), NEW c, Checking' \subseteq Checking \cup {c}
  PROVE  IsFiniteSet(Checking')
<1>1. IsFiniteSet(Checking \cup {c})
  BY FS_AddElement
<1> QED
  BY <1>1, FS_Subset

\* A check that runs alone admits the request to w, the window that is cached or
\* one opened when that has ended.
LEMMA AdmitSerial ==
  ASSUME TypeOK, HonestInv, OneAtATime, WindowsApart, NEW c \in Calls,
         pc[c] = "decide", NEW w \in Windows, Admit(c, w), limit \in Nat, limit # 0,
         \/ w.count = 1 /\ w.start = now[c] /\ (window = NoWindow \/ Expired(c))
         \/ /\ w.count = window.count + 1 /\ w.start = window.start
            /\ window # NoWindow /\ window.count < limit /\ ~Expired(c)
  PROVE  OneAtATime' /\ WindowsApart'
<1> DEFINE a == [call |-> c, item |-> item[c], now |-> now[c], start |-> w.start]
<1>1. /\ admitted' = admitted \cup {a} /\ window' = w
      /\ UNCHANGED <<clock, setting, items, now, seen>>
      /\ Continue(c)
  BY DEF Admit
<1>2. a \notin admitted /\ IsFiniteSet(admitted)
  BY DEF HonestInv, TypeOK
<1>3. a.now = now[c] /\ a.start = w.start
  OBVIOUS
<1> HIDE DEF a
<1>4. c \in Checking /\ Checking = {c} /\ seen[c] = window
  BY DEF Checking, OneAtATime
<1>5. /\ now[c] \in Nat /\ clock \in Nat /\ w.start \in Nat /\ w.count \in Nat
      /\ window.start \in Nat /\ window.count \in Nat /\ Window \in Nat \ {0}
      /\ \A b \in admitted : b.now \in Nat /\ b.start \in Nat
  BY WindowAssumption DEF TypeOK, Windows, Admissions
<1>6. /\ now[c] <= clock /\ window.start <= now[c] /\ window.start <= clock
      /\ \A b \in admitted : b.now <= now[c]
  BY <1>4 DEF OneAtATime
<1>7. Expired(c) <=> now[c] - window.start >= Window
  BY <1>4 DEF Expired
<1>8. w.start <= now[c] /\ now[c] < w.start + Window /\ window.start <= w.start
  BY <1>5, <1>6, <1>7
<1>9. Checking' = {}
  BY <1>1, <1>4 DEF Continue, Checking, TypeOK
<1>10. OneAtATime'
  <2>1. \A d \in Calls : pc'[d] # "decide"
    BY <1>9 DEF Checking
  <2>2. w.start <= clock' /\ \A b \in admitted' : b.now <= clock'
    BY <1>1, <1>3, <1>5, <1>6, <1>8
  <2> QED
    BY <1>1, <1>9, <2>1, <2>2 DEF OneAtATime
<1>11. \A b \in admitted : b.start < w.start => w.start - b.start >= Window
  <2> TAKE b \in admitted
  <2>1. window # NoWindow /\ b.start <= window.start
    BY DEF WindowsApart
  <2>2. CASE w.start = now[c] /\ Expired(c)
    BY <1>5, <1>7, <2>1, <2>2
  <2>3. CASE w.start = window.start
    <3>1. PICK d \in admitted : d.start = window.start
      <4>1. CASE \E d \in admitted : d.start = window.start
        BY <4>1
      <4>2. CASE \A d \in admitted : d.start # window.start
        <5>1. AdmittedIn(window.start) = {}
          BY <4>2 DEF AdmittedIn
        <5> QED
          BY <2>1, <5>1, FS_EmptySet DEF WindowsApart
      <4> QED
        BY <4>1, <4>2
    <3> QED
      BY <2>3, <3>1 DEF WindowsApart
  <2> QED
    BY <2>1, <2>2, <2>3
<1>12. \A t : AdmittedIn(t)' = IF t = w.start THEN AdmittedIn(t) \cup {a} ELSE AdmittedIn(t)
  BY <1>1, <1>3 DEF AdmittedIn
<1>13. /\ Cardinality(AdmittedIn(w.start)') = Cardinality(AdmittedIn(w.start)) + 1
       /\ Cardinality(AdmittedIn(w.start)) \in Nat
  <2>1. a \notin AdmittedIn(w.start) /\ IsFiniteSet(AdmittedIn(w.start))
    BY <1>2, FS_Subset DEF AdmittedIn
  <2> QED
    BY <1>12, <2>1, FS_AddElement, FS_CardinalityType
<1>14. Cardinality(AdmittedIn(w.start)') = w.count /\ w.count <= limit
  <2>1. CASE w.count = 1 /\ w.start = now[c] /\ (window = NoWindow \/ Expired(c))
    <3>1. \A b \in admitted : b.start # w.start
      BY <1>5, <1>7, <2>1 DEF WindowsApart
    <3>2. AdmittedIn(w.start) = {}
      BY <3>1 DEF AdmittedIn
    <3> QED
      BY <1>13, <2>1, <3>2, FS_EmptySet
  <2>2. CASE /\ w.count = window.count + 1 /\ w.start = window.start
             /\ window # NoWindow /\ window.count < limit
    BY <1>5, <1>13, <2>2 DEF WindowsApart
  <2> QED
    BY <2>1, <2>2
<1>15. w # NoWindow
  BY <1>5, <1>13, <1>14 DEF NoWindow
<1>16. \A t \in Nat : Cardinality(AdmittedIn(t)') <= limit
  BY <1>12, <1>14 DEF WindowsApart
<1>17. \A b \in admitted' : b.start <= w.start /\ b.start <= b.now /\ b.now < b.start + Window
  BY <1>1, <1>3, <1>5, <1>8 DEF WindowsApart
<1>18. \A b, d \in admitted' : b.start < d.start => d.start - b.start >= Window
  <2>1. \A b \in admitted' : b.start <= w.start
    BY <1>17
  <2> QED
    BY <1>1, <1>3, <1>5, <1>11, <2>1 DEF WindowsApart
<1>19. limit' = limit
  BY <1>1 DEF limit
<1>20. window'.count # 0 /\ window'.count = Cardinality(AdmittedIn(window.start)')
  BY <1>1, <1>13, <1>14 DEF AdmittedIn
<1> QED
  BY <1>1, <1>10, <1>15, <1>16, <1>17, <1>18, <1>19, <1>20 DEF WindowsApart, AdmittedIn

\* A step that admits nobody keeps the windows; whoever takes the time now takes
\* it after everything that was admitted.
LEMMA SerialFrame ==
  ASSUME TypeOK, OneAtATime, WindowsApart,
         UNCHANGED <<setting, window, admitted>>,
         clock' \in Nat, clock <= clock',
         \A c, d \in Checking' : c = d,
         \A c \in Calls : pc'[c] = "decide" => seen'[c] = window,
         \A c \in Checking' :
           \/ c \in Checking /\ now'[c] = now[c]
           \/ now'[c] = clock /\ clock' = clock
  PROVE  OneAtATime' /\ WindowsApart'
<1>1. /\ clock \in Nat /\ window.start \in Nat /\ \A c \in Calls : now[c] \in Nat
      /\ \A b \in admitted : b.now \in Nat
  BY DEF TypeOK, Windows, Admissions
<1>2. Checking \subseteq Calls
  BY DEF Checking
<1>3. OneAtATime'
  BY <1>1, <1>2 DEF OneAtATime
<1>4. WindowsApart'
  BY DEF WindowsApart, AdmittedIn, limit
<1> QED
  BY <1>3, <1>4

LEMMA SerialStep == TypeOK /\ HonestInv /\ SerialInv /\ [Next]_vars => SerialInv'
<1> SUFFICES ASSUME TypeOK, HonestInv, SerialInv, [Next]_vars PROVE SerialInv'
  OBVIOUS
<1>0. /\ limit \in Nat /\ setting.threads \in Nat /\ UNCHANGED setting /\ clock \in Nat
      /\ clock' \in Nat /\ clock <= clock'
  <2>1. limit \in Nat /\ setting.threads \in Nat /\ clock \in Nat
    BY SettingAssumption DEF limit, Deployments, TypeOK
  <2>2. ASSUME NEW c \in Calls, Check(c)
        PROVE  UNCHANGED <<setting, clock>>
    BY <2>2 DEF Check, Unlimited, TakeTime, ReadWindow, OpenWindow, CountRequest, Refuse, Admit
  <2> QED
    BY <2>1, <2>2 DEF Next, Tick, Evict, vars
<1>1. IsFiniteSet(Checking')
  <2>1. ASSUME NEW c \in Calls, Check(c)
        PROVE  Checking' \subseteq Checking \cup {c}
    <3>1. \A d \in Calls \ {c} : pc'[d] = pc[d]
      BY <2>1 DEF Check, Unlimited, TakeTime, ReadWindow, OpenWindow, CountRequest, Refuse,
                  Admit, Continue, TurnAway, TypeOK
    <3> QED
      BY <3>1 DEF Checking
  <2>2. CASE Tick \/ Evict \/ UNCHANGED vars
    BY <2>2 DEF Tick, Evict, vars, Checking, SerialInv
  <2>3. IsFiniteSet(Checking)
    BY DEF SerialInv
  <2> QED
    BY <2>1, <2>2, <2>3, CheckingFinite DEF Next
<1> SUFFICES ASSUME Serial', limit' # 0 PROVE OneAtATime' /\ WindowsApart'
  BY <1>1 DEF SerialInv
<1>2. Serial /\ limit # 0 /\ OneAtATime /\ WindowsApart
  BY <1>0 DEF SerialInv, Serial, limit
<1>3. ASSUME NEW c \in Calls, Check(c)
      PROVE  OneAtATime' /\ WindowsApart'
  <2>1. ~Unlimited(c)
    BY <1>2 DEF Unlimited
  <2>2. CASE TakeTime(c)
    <3>1. Checking = {}
      <4>1. Cardinality(Checking) \in Nat /\ Cardinality(Checking) < 1
        BY <1>2, <2>2, FS_CardinalityType DEF SerialInv, TakeTime, Serial
      <4> QED
        BY <4>1, FS_EmptySet DEF SerialInv
    <3>2. /\ Checking' = {c} /\ now'[c] = clock /\ clock' = clock
          /\ UNCHANGED <<setting, window, admitted, seen>>
      BY <2>2, <3>1 DEF TakeTime, Checking, TypeOK
    <3>3. \A d \in Calls : pc'[d] # "decide"
      BY <2>2, <3>1 DEF TakeTime, Checking, TypeOK
    <3> QED
      BY <1>0, <1>2, <3>2, <3>3, SerialFrame
  <2>3. CASE ReadWindow(c)
    <3>1. c \in Checking
      BY <2>3 DEF ReadWindow, Checking
    <3>2. Checking' = Checking /\ now' = now /\ clock' = clock
          /\ UNCHANGED <<setting, window, admitted>>
      BY <2>3, <3>1 DEF ReadWindow, Checking, TypeOK
    <3>3. \A d \in Calls : pc'[d] = "decide" => seen'[d] = window
      BY <1>2, <2>3 DEF ReadWindow, OneAtATime, TypeOK
    <3>4. \A d, e \in Checking : d = e
      BY <1>2 DEF OneAtATime
    <3> QED
      BY <1>0, <1>2, <3>2, <3>3, <3>4, SerialFrame
  <2>4. CASE OpenWindow(c)
    <3> DEFINE w == [count |-> 1, start |-> now[c]]
    <3>1. w \in Windows /\ w.count = 1 /\ w.start = now[c]
      BY DEF TypeOK, Windows
    <3>2. /\ pc[c] = "decide" /\ Admit(c, w) /\ (window = NoWindow \/ Expired(c))
      BY <1>2, <2>4 DEF OpenWindow, OneAtATime
    <3> HIDE DEF w
    <3> QED
      BY <1>0, <1>2, <3>1, <3>2, AdmitSerial
  <2>5. CASE CountRequest(c)
    <3> DEFINE w == [count |-> seen[c].count + 1, start |-> seen[c].start]
    <3>1. w \in Windows /\ w.count = seen[c].count + 1 /\ w.start = seen[c].start
      BY DEF TypeOK, Windows
    <3>2. /\ pc[c] = "decide" /\ Admit(c, w) /\ seen[c] = window
          /\ window # NoWindow /\ ~Expired(c) /\ window.count < limit
      BY <1>2, <2>5 DEF CountRequest, OneAtATime, Room
    <3> HIDE DEF w
    <3> QED
      BY <1>0, <1>2, <3>1, <3>2, AdmitSerial
  <2>6. CASE Refuse(c)
    <3>1. UNCHANGED <<clock, setting, window, now, seen, admitted>>
      BY <2>6 DEF Refuse
    <3>2. Checking' \subseteq Checking /\ \A d \in Calls : pc'[d] = "decide" => pc[d] = "decide"
      BY <2>6 DEF Refuse, TurnAway, Continue, Checking, TypeOK
    <3>3. \A d, e \in Checking' : d = e
      BY <1>2, <3>2 DEF OneAtATime
    <3>4. \A d \in Calls : pc'[d] = "decide" => seen'[d] = window
      BY <1>2, <3>1, <3>2 DEF OneAtATime
    <3> QED
      BY <1>0, <1>2, <3>1, <3>2, <3>3, <3>4, SerialFrame
  <2> QED
    BY <1>3, <2>1, <2>2, <2>3, <2>4, <2>5, <2>6 DEF Check
<1>4. ~Evict
  BY <1>2 DEF Evict, Serial
<1>5. CASE Tick \/ UNCHANGED vars
  <2>1. UNCHANGED <<setting, window, pc, now, seen, admitted>>
    BY <1>5 DEF Tick, vars
  <2>2. Checking' = Checking
    BY <2>1 DEF Checking
  <2>3. /\ \A d, e \in Checking' : d = e
        /\ \A d \in Calls : pc'[d] = "decide" => seen'[d] = window
    BY <1>2, <2>1, <2>2 DEF OneAtATime
  <2> QED
    BY <1>0, <1>2, <2>1, <2>2, <2>3, SerialFrame
<1> QED
  BY <1>3, <1>4, <1>5 DEF Next

\* A minute touches two windows at most.
LEMMA TwoWindows ==
  ASSUME TypeOK, IsFiniteSet(admitted), WindowsApart, limit \in Nat, NEW t \in Nat
  PROVE  Cardinality(AdmittedDuring(t..(t + Window - 1))) <= 2 * limit
<1> DEFINE D == AdmittedDuring(t..(t + Window - 1))
<1>1. /\ Window \in Nat \ {0}
      /\ \A b \in admitted : b.now \in Nat /\ b.start \in Nat
  BY WindowAssumption DEF TypeOK, Admissions
<1>2. D \subseteq admitted /\ \A b \in D : t <= b.now /\ b.now <= t + Window - 1
  BY <1>1 DEF AdmittedDuring
<1> HIDE DEF D
<1>3. \A b \in D : t - Window < b.start /\ b.start <= t + Window - 1
  BY <1>1, <1>2 DEF WindowsApart
<1>4. \E u, v \in Nat : D \subseteq AdmittedIn(u) \cup AdmittedIn(v)
  <2>1. CASE \A b, d \in D : b.start = d.start
    <3>1. CASE D = {}
      BY <3>1
    <3>2. CASE D # {}
      <4>1. PICK b \in D : TRUE
        BY <3>2
      <4>2. D \subseteq AdmittedIn(b.start) /\ b.start \in Nat
        BY <1>1, <1>2, <2>1, <4>1 DEF AdmittedIn
      <4> QED
        BY <4>2
    <3> QED
      BY <3>1, <3>2
  <2>2. CASE \E b, d \in D : b.start # d.start
    <3>1. PICK b \in D, d \in D : b.start # d.start
      BY <2>2
    <3>2. ASSUME NEW e \in D PROVE e.start \in {b.start, d.start}
      <4>1. b \in admitted /\ d \in admitted /\ e \in admitted
        BY <1>2
      <4>2. /\ b.start < d.start => d.start - b.start >= Window
            /\ d.start < b.start => b.start - d.start >= Window
            /\ b.start < e.start => e.start - b.start >= Window
            /\ e.start < b.start => b.start - e.start >= Window
            /\ d.start < e.start => e.start - d.start >= Window
            /\ e.start < d.start => d.start - e.start >= Window
        BY <4>1 DEF WindowsApart
      <4>3. /\ t - Window < b.start /\ b.start <= t + Window - 1
            /\ t - Window < d.start /\ d.start <= t + Window - 1
            /\ t - Window < e.start /\ e.start <= t + Window - 1
        BY <1>3
      <4>4. b.start \in Nat /\ d.start \in Nat /\ e.start \in Nat
        BY <1>1, <4>1
      <4> QED
        BY <1>1, <3>1, <4>2, <4>3, <4>4
    <3>3. D \subseteq AdmittedIn(b.start) \cup AdmittedIn(d.start)
      BY <1>2, <3>2 DEF AdmittedIn
    <3>4. b.start \in Nat /\ d.start \in Nat
      BY <1>1, <1>2
    <3> QED
      BY <3>3, <3>4
  <2> QED
    BY <2>1, <2>2
<1>5. PICK u \in Nat, v \in Nat : D \subseteq AdmittedIn(u) \cup AdmittedIn(v)
  BY <1>4
<1>6. /\ IsFiniteSet(AdmittedIn(u)) /\ IsFiniteSet(AdmittedIn(v))
      /\ IsFiniteSet(AdmittedIn(u) \cap AdmittedIn(v))
  BY FS_Subset DEF AdmittedIn
<1>7. /\ IsFiniteSet(AdmittedIn(u) \cup AdmittedIn(v))
      /\ Cardinality(AdmittedIn(u) \cup AdmittedIn(v))
           = Cardinality(AdmittedIn(u)) + Cardinality(AdmittedIn(v))
             - Cardinality(AdmittedIn(u) \cap AdmittedIn(v))
  BY <1>6, FS_Union
<1>8. Cardinality(D) <= Cardinality(AdmittedIn(u) \cup AdmittedIn(v))
  BY <1>5, <1>7, FS_Subset
<1>9. /\ Cardinality(AdmittedIn(u)) \in Nat /\ Cardinality(AdmittedIn(v)) \in Nat
      /\ Cardinality(AdmittedIn(u) \cap AdmittedIn(v)) \in Nat
  BY <1>6, FS_CardinalityType
<1>10. Cardinality(AdmittedIn(u)) <= limit /\ Cardinality(AdmittedIn(v)) <= limit
  BY DEF WindowsApart
<1>11. Cardinality(D) \in Nat
  BY <1>2, FS_Subset, FS_CardinalityType
<1>12. Cardinality(D) <= 2 * limit
  BY <1>7, <1>8, <1>9, <1>10, <1>11
<1> QED
  BY <1>12 DEF D

\* Where the checks run one after another and the cache keeps its window, no
\* window lets more than the limit through, and no minute more than twice the
\* limit, for any mix of sends and batches (rate_limit.rs, check).
THEOREM WindowsAreBounded == Spec => []WindowBound
<1>1. TypeOK /\ HonestInv /\ SerialInv => WindowBound
  <2> SUFFICES ASSUME TypeOK, HonestInv, SerialInv, Serial, limit # 0,
                      NEW t \in 0..LastSecond
               PROVE  /\ Cardinality(AdmittedIn(t)) <= limit
                      /\ Cardinality(AdmittedDuring(t..(t + Window - 1))) <= 2 * limit
    BY DEF WindowBound
  <2>1. limit \in Nat /\ t \in Nat
    BY SettingAssumption, ClockAssumption DEF limit, Deployments, TypeOK
  <2>2. WindowsApart /\ IsFiniteSet(admitted)
    BY DEF SerialInv, HonestInv
  <2> QED
    BY <2>1, <2>2, TwoWindows DEF WindowsApart
<1>2. TypeOK /\ HonestInv /\ SerialInv /\ [Next]_vars => SerialInv'
  BY SerialStep
<1> QED
  BY <1>1, <1>2, SerialInit, HonestAlways, PTL DEF Spec
=============================================================================
