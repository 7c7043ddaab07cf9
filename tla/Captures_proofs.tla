--------------------------- MODULE Captures_proofs ---------------------------
(***************************************************************************)
(* The theorems about the two captures of a page: about Recorder, for any  *)
(* tabs, visits, sizes of events and limits, any number of events, token   *)
(* changes and switches, and about Heatmap, for any URLs and depths, any   *)
(* limit of the queue and a page load without end.                         *)
(*                                                                         *)
(* The theorems of the library about induction take an operator, which the *)
(* provers cannot instantiate.  Induction up to a number is proved here    *)
(* from the well-foundedness of < instead, for a set.                      *)
(***************************************************************************)
EXTENDS Recorder, Heatmap, FiniteSetTheorems, SequenceTheorems, TLAPS

-----------------------------------------------------------------------------
(* Induction and recursion up to a number *)

\* Every set of natural numbers has a least one.
LEMMA LeastNat ==
  ASSUME NEW T, T \subseteq Nat, T # {}
  PROVE  \E x \in T : \A y \in T : x <= y
<1> DEFINE R == OpToRel(<, Nat)
<1>1. IsWellFoundedOn(R, Nat)
  BY NatLessThanWellFounded
<1>2. \A x, y \in Nat : y < x => <<y, x>> \in R
  BY DEF OpToRel
<1> HIDE DEF R
<1>3. PICK x \in T : \A y \in T : ~(<<y, x>> \in R)
  BY <1>1, WFMin
<1>4. ASSUME NEW y \in T PROVE x <= y
  <2>1. x \in Nat /\ y \in Nat
    OBVIOUS
  <2>2. ~(y < x)
    BY <1>2, <1>3, <2>1
  <2> QED
    BY <2>1, <2>2
<1> QED
  BY <1>4

\* Induction up to n.
LEMMA Induction ==
  ASSUME NEW n \in Nat, NEW T, 0 \in T, \A i \in 0..(n - 1) : i \in T => i + 1 \in T
  PROVE  \A i \in 0..n : i \in T
<1> SUFFICES ASSUME (0..n) \ T # {} PROVE FALSE
  OBVIOUS
<1>1. PICK x \in (0..n) \ T : \A y \in (0..n) \ T : x <= y
  <2>1. (0..n) \ T \subseteq Nat
    OBVIOUS
  <2> QED
    BY <2>1, LeastNat
<1>2. x # 0 /\ x \in 0..n
  OBVIOUS
<1>3. x - 1 \in 0..(n - 1) /\ ~(x <= x - 1) /\ x - 1 \in 0..n /\ (x - 1) + 1 = x
  BY <1>2
<1>4. x - 1 \in T
  BY <1>1, <1>3
<1> QED
  BY <1>3, <1>4, <1>1

\* A function defined by recursion on 0..n exists.
Recurs(g, n, S, base, step) ==
  /\ g \in [0..n -> S]
  /\ g[0] = base
  /\ \A i \in 1..n : g[i] = step[<<i, g[i - 1]>>]

LEMMA Recursion ==
  ASSUME NEW n \in Nat, NEW S, NEW base \in S,
         NEW step \in [(1..n) \X S -> S]
  PROVE  \E g : Recurs(g, n, S, base, step)
<1> DEFINE Good(i, g) == /\ g \in [0..i -> S] /\ g[0] = base
                         /\ \A k \in 1..i : g[k] = step[<<k, g[k - 1]>>]
           T == {i \in 0..n : \E g \in [0..i -> S] : Good(i, g)}
<1>1. 0 \in T
  <2> DEFINE g == [i \in 0..0 |-> base]
  <2>1. g \in [0..0 -> S] /\ g[0] = base /\ 1..0 = {}
    OBVIOUS
  <2>2. Good(0, g)
    BY <2>1
  <2> HIDE DEF g, Good
  <2>3. \E h \in [0..0 -> S] : Good(0, h)
    BY <2>1, <2>2
  <2> QED
    BY <2>3
<1>2. ASSUME NEW i \in 0..(n - 1), i \in T
      PROVE  i + 1 \in T
  <2>1. PICK g \in [0..i -> S] : Good(i, g)
    BY <1>2
  <2> DEFINE h == [k \in 0..(i + 1) |-> IF k <= i THEN g[k] ELSE step[<<i + 1, g[i]>>]]
  <2>2. i \in Nat /\ i + 1 \in 1..n /\ i + 1 \in 0..n /\ g[i] \in S
    OBVIOUS
  <2>3. <<i + 1, g[i]>> \in (1..n) \X S
    BY <2>2
  <2>4. step[<<i + 1, g[i]>>] \in S
    BY <2>3
  <2>5. h \in [0..(i + 1) -> S]
    BY <2>2, <2>4
  <2>6. h[0] = base
    BY <2>1, <2>2
  <2>7. ASSUME NEW k \in 1..(i + 1) PROVE h[k] = step[<<k, h[k - 1]>>]
    <3>1. CASE k = i + 1
      <4>1. h[k] = step[<<i + 1, g[i]>>] /\ h[k - 1] = g[i]
        BY <3>1, <2>2
      <4> QED
        BY <4>1, <3>1
    <3>2. CASE k # i + 1
      <4>1. k \in 1..i /\ k - 1 \in 0..i
        BY <3>2, <2>2
      <4>2. h[k] = g[k] /\ h[k - 1] = g[k - 1]
        BY <4>1, <2>2
      <4> QED
        BY <4>1, <4>2, <2>1
    <3> QED
      BY <3>1, <3>2
  <2>8. Good(i + 1, h)
    BY <2>5, <2>6, <2>7
  <2> QED
    BY <2>2, <2>5, <2>8
<1> HIDE DEF T
<1>3. n \in T
  <2>1. \A i \in 0..(n - 1) : i \in T => i + 1 \in T
    BY <1>2
  <2>2. \A i \in 0..n : i \in T
    BY <1>1, <2>1, Induction
  <2> QED
    BY <2>2
<1>4. PICK g \in [0..n -> S] : Good(n, g)
  BY <1>3 DEF T
<1> QED
  BY <1>4 DEF Recurs

-----------------------------------------------------------------------------
(* Cutting events into chunks *)

Events == [tab : Tabs, n : Nat \ {0}, type : {"meta", "full", "increment"},
           size : Nat \ {0}, at : Nat]

Pieces == [event : Events, part : Nat]

\* Pieces of one tab in the order of their recording.
PieceBefore(x, y) ==
  x.event.n < y.event.n \/ (x.event.n = y.event.n /\ x.part < y.part)

Ahead(A, B) == \A x \in A, y \in B : PieceBefore(x, y)

Rising(c) == \A k, l \in DOMAIN c : k < l => PieceBefore(c[k], c[l])

Tidy(cs) ==
  /\ \A i \in DOMAIN cs : Rising(cs[i])
  /\ \A i, j \in DOMAIN cs : i < j => Ahead(Range(cs[i]), Range(cs[j]))

Cuts == Seq(Seq(Pieces))

Content(cs) == ItemsOf(Range(cs))

\* What the pieces of the first events of a batch are.
PiecesOf(b, i) == UNION {Range(Fragments(b[m])) : m \in 1..i}

Increasing(b) == \A k, l \in DOMAIN b : k < l => b[k].n < b[l].n

LEMMA PartsType ==
  ASSUME NEW e \in Events
  PROVE  /\ Parts(e) \in Nat \ {0}
         /\ Fragments(e) \in Seq(Pieces)
         /\ Len(Fragments(e)) = Parts(e)
         /\ DOMAIN Fragments(e) = 1..Parts(e)
         /\ \A i \in 1..Parts(e) : Fragments(e)[i] = [event |-> e, part |-> i]
         /\ Range(Fragments(e)) = {[event |-> e, part |-> i] : i \in 1..Parts(e)}
<1>1. e.size \in Nat \ {0} /\ PayloadLimit \in Nat \ {0}
  BY RecorderAssumption DEF Events
<1>2. Parts(e) \in Nat \ {0}
  <2> DEFINE x == e.size + PayloadLimit - 1
  <2>1. x \in Nat /\ x >= PayloadLimit
    BY <1>1
  <2>2. ASSUME NEW a \in Nat, NEW d \in Nat \ {0}, a >= d
        PROVE  a \div d \in Nat \ {0}
    BY <2>2
  <2> QED
    BY <1>1, <2>1, <2>2 DEF Parts
<1>3. Fragments(e) = [i \in 1..Parts(e) |-> [event |-> e, part |-> i]]
  BY DEF Fragments
<1>4. \A i \in 1..Parts(e) : [event |-> e, part |-> i] \in Pieces
  BY <1>2 DEF Pieces
<1>5. Fragments(e) \in [1..Parts(e) -> Pieces]
  BY <1>3, <1>4
<1>6. Fragments(e) \in Seq(Pieces)
  BY <1>2, <1>5, SeqDef
<1> QED
  BY <1>2, <1>3, <1>6, <1>5 DEF Range

LEMMA CutRange ==
  ASSUME NEW S, NEW cs \in Seq(S)
  PROVE  /\ Range(cs) = {cs[i] : i \in 1..Len(cs)}
         /\ DOMAIN cs = 1..Len(cs) /\ Len(cs) \in Nat
BY LenProperties DEF Range

\* One list of chunks after another.
LEMMA TidyConcat ==
  ASSUME NEW cs \in Cuts, NEW ds \in Cuts, Tidy(cs), Tidy(ds), Ahead(Content(cs), Content(ds))
  PROVE  cs \o ds \in Cuts /\ Tidy(cs \o ds) /\ Content(cs \o ds) = Content(cs) \cup Content(ds)
<1> DEFINE m == Len(cs)
           n == Len(ds)
           es == cs \o ds
<1>1. /\ es \in Cuts /\ Len(es) = m + n /\ m \in Nat /\ n \in Nat
      /\ DOMAIN es = 1..(m + n) /\ DOMAIN cs = 1..m /\ DOMAIN ds = 1..n
      /\ \A i \in 1..(m + n) : es[i] = IF i <= m THEN cs[i] ELSE ds[i - m]
  <2>1. es \in Cuts /\ Len(es) = m + n
    BY ConcatProperties DEF Cuts
  <2>2. m \in Nat /\ n \in Nat /\ DOMAIN es = 1..(m + n) /\ DOMAIN cs = 1..m /\ DOMAIN ds = 1..n
    BY <2>1, LenProperties DEF Cuts
  <2>3. \A i \in 1..(m + n) : es[i] = IF i <= m THEN cs[i] ELSE ds[i - m]
    BY ConcatProperties DEF Cuts
  <2> QED
    BY <2>1, <2>2, <2>3
<1>2. Range(es) = Range(cs) \cup Range(ds)
  BY RangeConcatenation DEF Cuts
<1>3. Content(es) = Content(cs) \cup Content(ds)
  BY <1>2 DEF Content, ItemsOf
<1>4. /\ \A i \in 1..m : Range(cs[i]) \subseteq Content(cs)
      /\ \A i \in 1..n : Range(ds[i]) \subseteq Content(ds)
  BY <1>1 DEF Content, ItemsOf, Range
<1> HIDE DEF es, m, n
<1>5. ASSUME NEW i \in 1..(m + n) PROVE Rising(es[i])
  <2>1. i <= m \/ i - m \in 1..n
    BY <1>1
  <2> QED
    BY <1>1, <2>1 DEF Tidy
<1>6. ASSUME NEW i \in 1..(m + n), NEW j \in 1..(m + n), i < j
      PROVE  Ahead(Range(es[i]), Range(es[j]))
  <2>1. CASE j <= m
    BY <1>1, <1>6, <2>1 DEF Tidy
  <2>2. CASE i > m
    <3>1. i - m \in 1..n /\ j - m \in 1..n /\ i - m < j - m
      BY <1>1, <1>6, <2>2
    <3>2. es[i] = ds[i - m] /\ es[j] = ds[j - m]
      BY <1>1, <1>6, <2>2
    <3> QED
      BY <1>1, <3>1, <3>2 DEF Tidy
  <2>3. CASE i <= m /\ j > m
    <3>1. i \in 1..m /\ j - m \in 1..n /\ es[i] = cs[i] /\ es[j] = ds[j - m]
      BY <1>1, <2>3
    <3>2. Range(es[i]) \subseteq Content(cs) /\ Range(es[j]) \subseteq Content(ds)
      BY <1>4, <3>1
    <3> QED
      BY <3>2 DEF Ahead
  <2> QED
    BY <1>1, <2>1, <2>2, <2>3
<1> QED
  BY <1>1, <1>3, <1>5, <1>6 DEF Tidy, es, m, n

LEMMA TidyOne ==
  ASSUME NEW c \in Seq(Pieces), Rising(c)
  PROVE  <<c>> \in Cuts /\ Tidy(<<c>>) /\ Content(<<c>>) = Range(c)
<1>1. <<c>> \in Cuts /\ DOMAIN <<c>> = {1} /\ <<c>>[1] = c
  BY DEF Cuts
<1>2. Range(<<c>>) = {c}
  BY <1>1 DEF Range
<1> QED
  BY <1>1, <1>2 DEF Tidy, Content, ItemsOf

LEMMA TidyEmpty == <<>> \in Cuts /\ Tidy(<<>>) /\ Content(<<>>) = {}
BY DEF Cuts, Tidy, Content, ItemsOf, Range

\* One chunk after another.
LEMMA RisingConcat ==
  ASSUME NEW c \in Seq(Pieces), NEW d \in Seq(Pieces), Rising(c), Rising(d),
         Ahead(Range(c), Range(d))
  PROVE  c \o d \in Seq(Pieces) /\ Rising(c \o d) /\ Range(c \o d) = Range(c) \cup Range(d)
<1> DEFINE m == Len(c)
           n == Len(d)
           f == c \o d
<1>1. /\ f \in Seq(Pieces) /\ Len(f) = m + n /\ m \in Nat /\ n \in Nat
      /\ DOMAIN f = 1..(m + n) /\ DOMAIN c = 1..m /\ DOMAIN d = 1..n
      /\ \A i \in 1..(m + n) : f[i] = IF i <= m THEN c[i] ELSE d[i - m]
  BY ConcatProperties, LenProperties
<1>2. Range(f) = Range(c) \cup Range(d)
  BY RangeConcatenation
<1>3. (\A i \in 1..m : c[i] \in Range(c)) /\ (\A i \in 1..n : d[i] \in Range(d))
  BY <1>1 DEF Range
<1> HIDE DEF f, m, n
<1>4. ASSUME NEW i \in 1..(m + n), NEW j \in 1..(m + n), i < j
      PROVE  PieceBefore(f[i], f[j])
  <2>1. CASE j <= m
    BY <1>1, <1>4, <2>1 DEF Rising
  <2>2. CASE i > m
    <3>1. i - m \in 1..n /\ j - m \in 1..n /\ i - m < j - m
      BY <1>1, <1>4, <2>2
    <3>2. f[i] = d[i - m] /\ f[j] = d[j - m]
      BY <1>1, <1>4, <2>2
    <3> QED
      BY <1>1, <3>1, <3>2 DEF Rising
  <2>3. CASE i <= m /\ j > m
    <3>1. i \in 1..m /\ j - m \in 1..n /\ f[i] = c[i] /\ f[j] = d[j - m]
      BY <1>1, <2>3
    <3> QED
      BY <1>3, <3>1 DEF Ahead
  <2> QED
    BY <1>1, <2>1, <2>2, <2>3
<1> QED
  BY <1>1, <1>2, <1>4 DEF Rising, f, m, n

\* The chunks that are closed, and the one that is still open.
Filled == [chunk : Seq(Pieces), chunks : Cuts]

Held(acc) == Content(acc.chunks) \cup Range(acc.chunk)

InOrder(acc) ==
  /\ acc \in Filled
  /\ Tidy(acc.chunks) /\ Rising(acc.chunk)
  /\ Ahead(Content(acc.chunks), Range(acc.chunk))

LEMMA ClosedTidy ==
  ASSUME NEW acc, InOrder(acc)
  PROVE  Closed(acc) \in Cuts /\ Tidy(Closed(acc)) /\ Content(Closed(acc)) = Held(acc)
<1>0. acc.chunk \in Seq(Pieces) /\ acc.chunks \in Cuts
  BY DEF InOrder, Filled
<1>1. CASE acc.chunk = <<>>
  <2>1. Range(acc.chunk) = {}
    BY <1>1 DEF Range
  <2> QED
    BY <1>0, <1>1, <2>1 DEF Closed, InOrder, Held
<1>2. CASE acc.chunk # <<>>
  <2>1. Closed(acc) = acc.chunks \o <<acc.chunk>>
    BY <1>0, <1>2, AppendIsConcat DEF Closed, Cuts
  <2>2. <<acc.chunk>> \in Cuts /\ Tidy(<<acc.chunk>>) /\ Content(<<acc.chunk>>) = Range(acc.chunk)
    BY <1>0, TidyOne DEF InOrder
  <2> QED
    BY <1>0, <2>1, <2>2, TidyConcat DEF InOrder, Held
<1> QED
  BY <1>1, <1>2

\* The parts of an event, each alone or all in one chunk.
LEMMA FragmentsTidy ==
  ASSUME NEW e \in Events
  PROVE  LET cs == [i \in 1..Parts(e) |-> <<Fragments(e)[i]>>]
         IN /\ Rising(Fragments(e))
            /\ cs \in Cuts /\ Tidy(cs) /\ Content(cs) = Range(Fragments(e))
<1> DEFINE cs == [i \in 1..Parts(e) |-> <<Fragments(e)[i]>>]
           piece(i) == [event |-> e, part |-> i]
<1>1. /\ Parts(e) \in Nat \ {0}
      /\ \A i \in 1..Parts(e) : Fragments(e)[i] = piece(i) /\ piece(i) \in Pieces
      /\ DOMAIN Fragments(e) = 1..Parts(e)
      /\ Range(Fragments(e)) = {piece(i) : i \in 1..Parts(e)}
  BY PartsType DEF Pieces
<1>2. Rising(Fragments(e))
  <2> SUFFICES ASSUME NEW k \in 1..Parts(e), NEW l \in 1..Parts(e), k < l
               PROVE  PieceBefore(Fragments(e)[k], Fragments(e)[l])
    BY <1>1 DEF Rising
  <2>1. Fragments(e)[k] = [event |-> e, part |-> k] /\ Fragments(e)[l] = [event |-> e, part |-> l]
    BY <1>1
  <2> QED
    BY <2>1 DEF PieceBefore
<1>3. \A i \in 1..Parts(e) : cs[i] = <<piece(i)>> /\ <<piece(i)>> \in Seq(Pieces)
  BY <1>1
<1>4. cs \in Cuts /\ DOMAIN cs = 1..Parts(e)
  <2>1. cs \in [1..Parts(e) -> Seq(Pieces)]
    BY <1>3
  <2> HIDE DEF cs
  <2> QED
    BY <1>1, <2>1, SeqDef DEF Cuts
<1> HIDE DEF cs
<1>5. \A i \in 1..Parts(e) : Range(cs[i]) = {piece(i)} /\ Rising(cs[i])
  <2> TAKE i \in 1..Parts(e)
  <2>1. cs[i] = <<piece(i)>> /\ DOMAIN <<piece(i)>> = {1} /\ <<piece(i)>>[1] = piece(i)
    BY <1>3
  <2> HIDE DEF piece
  <2> QED
    BY <2>1 DEF Range, Rising
<1>6. Tidy(cs)
  BY <1>1, <1>4, <1>5 DEF Tidy, Ahead, PieceBefore
<1>7. Content(cs) = {piece(i) : i \in 1..Parts(e)}
  <2>1. Range(cs) = {cs[i] : i \in 1..Parts(e)}
    BY <1>4 DEF Range
  <2> QED
    BY <2>1, <1>5 DEF Content, ItemsOf
<1> QED
  BY <1>1, <1>2, <1>4, <1>6, <1>7 DEF cs

\* An event that comes after all that is held is added behind it.
LEMMA EventAdded ==
  ASSUME NEW acc, InOrder(acc), NEW e \in Events, Ahead(Held(acc), Range(Fragments(e)))
  PROVE  InOrder(AddEvent(acc, e)) /\ Held(AddEvent(acc, e)) = Held(acc) \cup Range(Fragments(e))
<1> DEFINE F == Fragments(e)
           cs == [i \in 1..Parts(e) |-> <<F[i]>>]
           new == AddEvent(acc, e)
<1>1. /\ F \in Seq(Pieces) /\ Rising(F)
      /\ cs \in Cuts /\ Tidy(cs) /\ Content(cs) = Range(F)
  BY PartsType, FragmentsTidy
<1>2. /\ Closed(acc) \in Cuts /\ Tidy(Closed(acc)) /\ Content(Closed(acc)) = Held(acc)
      /\ acc.chunk \in Seq(Pieces) /\ acc.chunks \in Cuts
  BY ClosedTidy DEF InOrder, Filled
<1>3. <<>> \in Seq(Pieces) /\ Rising(<<>>) /\ Range(<<>>) = {}
  BY DEF Rising, Range
<1> HIDE DEF cs, F
<1>4. CASE new = [chunk |-> <<>>, chunks |-> Closed(acc) \o cs]
  <2>1. /\ Closed(acc) \o cs \in Cuts /\ Tidy(Closed(acc) \o cs)
        /\ Content(Closed(acc) \o cs) = Held(acc) \cup Range(F)
    BY <1>1, <1>2, TidyConcat DEF F
  <2> HIDE DEF new
  <2>2. new.chunk = <<>> /\ new.chunks = Closed(acc) \o cs /\ new \in Filled
    BY <1>3, <1>4, <2>1 DEF Filled
  <2> QED
    BY <1>3, <2>1, <2>2 DEF InOrder, Held, Ahead, F, new
<1>5. CASE new = [chunk |-> F, chunks |-> Closed(acc)]
  <2> HIDE DEF new
  <2>2. new.chunk = F /\ new.chunks = Closed(acc) /\ new \in Filled
    BY <1>1, <1>2, <1>5 DEF Filled
  <2> QED
    BY <1>1, <1>2, <2>2 DEF InOrder, Held, F, new
<1>6. CASE new = [acc EXCEPT !.chunk = @ \o F]
  <2> HIDE DEF new
  <2>1. Ahead(Range(acc.chunk), Range(F)) /\ Ahead(Content(acc.chunks), Range(F))
    BY DEF Held, Ahead, F
  <2>2. /\ acc.chunk \o F \in Seq(Pieces) /\ Rising(acc.chunk \o F)
        /\ Range(acc.chunk \o F) = Range(acc.chunk) \cup Range(F)
    BY <1>1, <1>2, <2>1, RisingConcat DEF InOrder
  <2>3. new.chunk = acc.chunk \o F /\ new.chunks = acc.chunks /\ new \in Filled
    BY <1>6, <1>2, <2>2 DEF InOrder, Filled
  <2>4. Ahead(Content(acc.chunks), Range(acc.chunk) \cup Range(F))
    BY <2>1 DEF Ahead, InOrder
  <2> QED
    BY <2>2, <2>3, <2>4 DEF InOrder, Held, F, new
<1> QED
  BY <1>4, <1>5, <1>6 DEF AddEvent, F, cs

\* What a batch is cut into, whatever its sizes: all its pieces, in their order.
LEMMA ChunksTidy ==
  ASSUME NEW b \in Seq(Events), Increasing(b)
  PROVE  /\ ChunksOf(b) \in Cuts /\ Tidy(ChunksOf(b))
         /\ Content(ChunksOf(b)) = UNION {Range(Fragments(e)) : e \in Range(b)}
<1> DEFINE n == Len(b)
           start == [chunk |-> <<>>, chunks |-> <<>>]
           added[i \in 0..n] == IF i = 0 THEN start ELSE AddEvent(added[i - 1], b[i])
           Fine(i, acc) == InOrder(acc) /\ Held(acc) = PiecesOf(b, i)
<1>1. ChunksOf(b) = Closed(added[n])
  BY DEF ChunksOf
<1>2. /\ n \in Nat /\ DOMAIN b = 1..n
      /\ \A i \in 1..n : b[i] \in Events
  BY LenProperties, ElementOfSeq
<1>3. Fine(0, start)
  <2>1. /\ start \in Filled /\ Rising(<<>>) /\ Range(<<>>) = {}
        /\ start.chunk = <<>> /\ start.chunks = <<>>
    BY TidyEmpty DEF Filled, Rising, Range
  <2>2. PiecesOf(b, 0) = {}
    BY DEF PiecesOf
  <2> HIDE DEF start
  <2> QED
    BY <2>1, <2>2, TidyEmpty DEF InOrder, Held, Ahead
<1>4. ASSUME NEW i \in 1..n, NEW acc, Fine(i - 1, acc)
      PROVE  Fine(i, AddEvent(acc, b[i]))
  <2>1. PiecesOf(b, i) = PiecesOf(b, i - 1) \cup Range(Fragments(b[i]))
    <3>1. 1..i = (1..(i - 1)) \cup {i}
      BY <1>2
    <3> QED
      BY <3>1 DEF PiecesOf
  <2>2. Ahead(Held(acc), Range(Fragments(b[i])))
    <3> SUFFICES ASSUME NEW x \in PiecesOf(b, i - 1), NEW y \in Range(Fragments(b[i]))
                 PROVE  PieceBefore(x, y)
      BY <1>4 DEF Ahead
    <3>1. PICK m \in 1..(i - 1) : x \in Range(Fragments(b[m]))
      BY DEF PiecesOf
    <3>2. m \in 1..n /\ m < i
      BY <1>2
    <3>3. x.event = b[m] /\ y.event = b[i]
      BY <1>2, <3>1, <3>2, PartsType
    <3> QED
      BY <1>2, <3>2, <3>3 DEF Increasing, PieceBefore
  <2> QED
    BY <1>2, <1>4, <2>1, <2>2, EventAdded
<1>5. \E g : /\ g = [i \in 0..n |-> IF i = 0 THEN start ELSE AddEvent(g[i - 1], b[i])]
             /\ \A i \in 0..n : Fine(i, g[i])
  <2> DEFINE S == {acc \in Filled : InOrder(acc)}
             step == [x \in (1..n) \X S |->
                        IF AddEvent(x[2], b[x[1]]) \in S THEN AddEvent(x[2], b[x[1]]) ELSE start]
  <2>1. start \in S
    BY <1>3 DEF InOrder
  <2>2. step \in [(1..n) \X S -> S]
    BY <2>1
  <2> HIDE DEF S, start, step, n, added, Fine
  <2>0. PICK g : Recurs(g, n, S, start, step)
    BY <1>2, <2>1, <2>2, Recursion
  <2>3. /\ g \in [0..n -> S] /\ g[0] = start
        /\ \A i \in 1..n : g[i] = step[<<i, g[i - 1]>>]
    BY <2>0 DEF Recurs
  <2> DEFINE T == {i \in 0..n : Fine(i, g[i]) /\ (i # 0 => g[i] = AddEvent(g[i - 1], b[i]))}
  <2> HIDE DEF Fine
  <2>4. 0 \in T
    BY <1>2, <1>3, <2>3
  <2>5. ASSUME NEW i \in 0..(n - 1), i \in T
        PROVE  i + 1 \in T
    <3>1. i + 1 \in 1..n /\ i + 1 \in 0..n /\ (i + 1) - 1 = i /\ i + 1 # 0 /\ i \in 0..n
      BY <1>2
    <3>2. Fine(i + 1, AddEvent(g[i], b[i + 1]))
      BY <1>4, <2>5, <3>1
    <3>3. g[i] \in S /\ AddEvent(g[i], b[i + 1]) \in S
      BY <2>3, <3>1, <3>2 DEF S, Fine, InOrder
    <3>4. step[<<i + 1, g[i]>>] = AddEvent(g[i], b[i + 1])
      BY <3>1, <3>3 DEF step
    <3>5. g[i + 1] = AddEvent(g[i], b[i + 1])
      BY <2>3, <3>1, <3>4
    <3> QED
      BY <3>1, <3>2, <3>5
  <2>6. \A i \in 0..n : i \in T
    <3> HIDE DEF T
    <3>1. \A i \in 0..(n - 1) : i \in T => i + 1 \in T
      BY <2>5
    <3> QED
      BY <1>2, <2>4, <3>1, Induction
  <2>7. g = [i \in 0..n |-> IF i = 0 THEN start ELSE AddEvent(g[i - 1], b[i])]
    <3>1. \A i \in 0..n : g[i] = IF i = 0 THEN start ELSE AddEvent(g[i - 1], b[i])
      BY <2>3, <2>6, <1>2
    <3>2. DOMAIN g = 0..n
      BY <2>3
    <3> QED
      BY <2>3, <3>1, <3>2
  <2> QED
    BY <2>6, <2>7
<1>6. added = [i \in 0..n |-> IF i = 0 THEN start ELSE AddEvent(added[i - 1], b[i])]
  <2> HIDE DEF start, Fine
  <2> QED
    BY <1>5 DEF added
<1> HIDE DEF added
<1>7. InOrder(added[n]) /\ Held(added[n]) = PiecesOf(b, n)
  <2> DEFINE T == {i \in 0..n : Fine(i, added[i])}
  <2> HIDE DEF Fine, start
  <2>1. 0 \in T
    BY <1>2, <1>3, <1>6
  <2>2. ASSUME NEW i \in 0..(n - 1), i \in T
        PROVE  i + 1 \in T
    <3>1. i + 1 \in 1..n /\ i + 1 \in 0..n /\ (i + 1) - 1 = i /\ i + 1 # 0
      BY <1>2
    <3>2. added[i + 1] = AddEvent(added[i], b[i + 1])
      BY <1>6, <3>1
    <3> QED
      BY <1>4, <2>2, <3>1, <3>2
  <2>3. n \in T
    <3> HIDE DEF T
    <3>1. \A i \in 0..(n - 1) : i \in T => i + 1 \in T
      BY <2>2
    <3>2. n \in 0..n
      BY <1>2
    <3> QED
      BY <1>2, <2>1, <3>1, <3>2, Induction
  <2> QED
    BY <2>3 DEF Fine
<1>8. PiecesOf(b, n) = UNION {Range(Fragments(e)) : e \in Range(b)}
  <2>1. Range(b) = {b[m] : m \in 1..n}
    BY <1>2 DEF Range
  <2>2. \A x : x \in PiecesOf(b, n) <=> \E m \in 1..n : x \in Range(Fragments(b[m]))
    BY DEF PiecesOf
  <2> QED
    BY <2>1, <2>2
<1> QED
  BY <1>1, <1>7, <1>8, ClosedTidy

-----------------------------------------------------------------------------
(* The inductive invariant of Recorder *)

Chunks == [tab : Tabs, visit : Visits, index : Nat \ {0}, items : Seq(Pieces)]

Rows == [tab : Tabs, visit : Visits, chunk_index : Nat \ {0}, events : Seq(Pieces),
         event_count : Nat]

\* Every chunk sent, whether it is stored, on its way or lost on it.
ChunkOf(r) == [tab |-> r.tab, visit |-> r.visit, index |-> r.chunk_index, items |-> r.events]

Sent == posted \cup {ChunkOf(r) : r \in session_replay}

Carried == ItemsOf({c.items : c \in Sent})

RecorderTypeOK ==
  /\ time \in Nat
  /\ token \in [Tabs -> Visits \cup {NoToken}]
  /\ phase \in [Tabs -> {"open", "waiting", "off", "recording", "stopped", "left"}]
  /\ replayBuffer \in [Tabs -> Seq(Events)]
  /\ replayLastChunkIndex \in [Tabs -> Nat]
  /\ replayStartTime \in [Tabs -> Nat]
  /\ emitted \in [Tabs -> Seq(Events)]
  /\ recorderEnabled \in BOOLEAN
  /\ posted \subseteq Chunks
  /\ session_replay \subseteq Rows /\ IsFiniteSet(session_replay)
  /\ upsets \in Nat

\* The events of a tab are numbered and stamped in the order of their recording.
Recorded(t, events, now) ==
  /\ \A i \in DOMAIN events : events[i].tab = t /\ events[i].n = i /\ events[i].at <= now
  /\ \A i, j \in DOMAIN events : i < j => events[i].at <= events[j].at

BufferShape ==
  \A t \in Tabs :
    Range(replayBuffer[t]) \subseteq Range(emitted[t]) /\ Increasing(replayBuffer[t])

\* A chunk has pieces of events of its tab, and all of the buffer comes after it.
SentShape ==
  \A c \in Sent :
    /\ Rising(c.items)
    /\ \A x \in Range(c.items) :
         x \in Range(Fragments(x.event)) /\ x.event \in Range(emitted[c.tab])
    /\ phase[c.tab] = "recording" => c.index <= replayLastChunkIndex[c.tab]
    /\ \A x \in Range(c.items), e \in Range(replayBuffer[c.tab]) : x.event.n < e.n

\* The numbers of a tab's chunks say in which order their events happened.
SentOrder ==
  \A c, d \in Sent :
    c.tab = d.tab =>
      /\ c.index < d.index => Ahead(Range(c.items), Range(d.items))
      /\ c.index = d.index => c = d

Counted == \A r \in session_replay : r.event_count = EventCount(r.events)

\* Nothing is recorded, and so nothing sent, before the capture begins.
Fresh ==
  \A t \in Tabs :
    phase[t] \in {"open", "waiting", "off"} =>
      emitted[t] = <<>> /\ \A c \in Sent : c.tab # t

NothingLeft ==
  upsets = 0 =>
    \A t \in Tabs :
      /\ phase[t] = "recording" => token[t] # NoToken
      /\ \A e \in Range(emitted[t]) :
           \/ phase[t] = "recording" /\ e \in Range(replayBuffer[t])
           \/ Whole(e, Carried)

RecorderInv ==
  /\ RecorderTypeOK
  /\ \A t \in Tabs : Recorded(t, emitted[t], time)
  /\ BufferShape /\ SentShape /\ SentOrder /\ Counted /\ Fresh /\ NothingLeft

-----------------------------------------------------------------------------
(* Numbering chunks *)

Foregoing(A, B) == \A e \in A, f \in B : e.n < f.n

PiecesFrom(E) == UNION {Range(Fragments(e)) : e \in E}

\* What a tab has sent of the events E since its last number was low.
Stamped(t, low, acc, E) ==
  /\ acc.last \in Nat /\ low <= acc.last
  /\ \A c \in acc.sent :
       /\ c \in Chunks /\ c.tab = t /\ Rising(c.items)
       /\ low < c.index /\ c.index <= acc.last
       /\ Range(c.items) \subseteq PiecesFrom(E)
  /\ \A c, d \in acc.sent :
       /\ c.index < d.index => Ahead(Range(c.items), Range(d.items))
       /\ c.index = d.index => c = d
  /\ token[t] # NoToken => PiecesFrom(E) \subseteq ItemsOf({c.items : c \in acc.sent})

LEMMA PieceOf ==
  ASSUME NEW e \in Events, NEW x \in Range(Fragments(e))
  PROVE  x \in Pieces /\ x.event = e /\ x.part \in 1..Parts(e) /\ x = [event |-> e, part |-> x.part]
<1>1. PICK i \in 1..Parts(e) : x = [event |-> e, part |-> i]
  BY PartsType
<1>2. i \in Nat
  BY PartsType
<1> QED
  BY <1>1, <1>2 DEF Pieces

\* Pieces of earlier events come before those of later ones.
LEMMA ForegoingAhead ==
  ASSUME NEW E \in SUBSET Events, NEW F \in SUBSET Events, Foregoing(E, F)
  PROVE  Ahead(PiecesFrom(E), PiecesFrom(F))
<1> SUFFICES ASSUME NEW x \in PiecesFrom(E), NEW y \in PiecesFrom(F)
             PROVE  PieceBefore(x, y)
  BY DEF Ahead
<1>1. PICK e \in E : x \in Range(Fragments(e))
  BY DEF PiecesFrom
<1>2. PICK f \in F : y \in Range(Fragments(f))
  BY DEF PiecesFrom
<1>3. x.event = e /\ y.event = f
  BY <1>1, <1>2, PieceOf
<1> QED
  BY <1>3 DEF Foregoing, PieceBefore

LEMMA SecondType ==
  ASSUME time \in Nat
  PROVE  Second \in Nat
<1>1. \A a \in Nat : a \div 2 \in Nat
  OBVIOUS
<1> QED
  BY <1>1 DEF Second

LEMMA NumberStamped ==
  ASSUME time \in Nat, NEW t \in Tabs, token[t] \in Visits \cup {NoToken}, NEW low \in Nat,
         NEW acc, NEW E \in SUBSET Events, Stamped(t, low, acc, E),
         NEW b \in Seq(Events), Increasing(b), Foregoing(E, Range(b))
  PROVE  Stamped(t, low, Number(t, acc, b), E \cup Range(b))
<1>1. CASE b = <<>>
  <2>1. E \cup Range(b) = E
    BY <1>1 DEF Range
  <2>2. Number(t, acc, b) = acc
    BY <1>1 DEF Number
  <2> QED
    BY <2>1, <2>2
<1>2. CASE b # <<>>
  <2> DEFINE first == Later(Second, acc.last + 1)
             cs == ChunksOf(b)
             chunk(i, v) == [tab |-> t, visit |-> v, index |-> first + i - 1, items |-> cs[i]]
             now == {token[t]} \ {NoToken}
             fresh == {chunk(i, v) : i \in DOMAIN cs, v \in now}
             new == Number(t, acc, b)
  <2>1. new.last = first + Len(cs) - 1 /\ new.sent = acc.sent \cup fresh
    BY <1>2 DEF Number
  <2>2. cs \in Cuts /\ Tidy(cs) /\ Content(cs) = PiecesFrom(Range(b))
    BY ChunksTidy DEF PiecesFrom
  <2>3. /\ Len(cs) \in Nat /\ DOMAIN cs = 1..Len(cs)
        /\ \A i \in 1..Len(cs) : cs[i] \in Seq(Pieces) /\ Rising(cs[i])
                                 /\ Range(cs[i]) \subseteq PiecesFrom(Range(b))
        /\ Content(cs) = UNION {Range(cs[i]) : i \in 1..Len(cs)}
    <3>1. Len(cs) \in Nat /\ DOMAIN cs = 1..Len(cs) /\ \A i \in 1..Len(cs) : cs[i] \in Seq(Pieces)
      BY <2>2, LenProperties, ElementOfSeq DEF Cuts
    <3>2. Content(cs) = UNION {Range(cs[i]) : i \in 1..Len(cs)}
      <4>1. Range(cs) = {cs[i] : i \in 1..Len(cs)}
        BY <3>1 DEF Range
      <4> QED
        BY <4>1 DEF Content, ItemsOf
    <3>3. \A i \in 1..Len(cs) : Range(cs[i]) \subseteq Content(cs)
      BY <3>2
    <3> QED
      BY <2>2, <3>1, <3>2, <3>3 DEF Tidy
  <2>4. first \in Nat \ {0} /\ acc.last < first /\ acc.last \in Nat
    BY SecondType DEF Later, Stamped
  <2>5. /\ Range(b) \subseteq Events
        /\ PiecesFrom(E \cup Range(b)) = PiecesFrom(E) \cup PiecesFrom(Range(b))
    BY LenProperties, ElementOfSeq DEF PiecesFrom, Range
  <2> HIDE DEF first, cs, new
  <2>6. now \subseteq Visits
    OBVIOUS
  <2>7. ASSUME NEW i \in 1..Len(cs), NEW v \in now
        PROVE  /\ chunk(i, v) \in Chunks /\ chunk(i, v).index = first + i - 1
               /\ chunk(i, v).items = cs[i] /\ chunk(i, v).tab = t
    BY <2>3, <2>4, <2>6 DEF Chunks
  <2> HIDE DEF chunk
  <2>8. \A c \in fresh : \E i \in 1..Len(cs), v \in now : c = chunk(i, v)
    BY <2>3
  <2>9. Len(cs) >= 1
    <3>1. b[1] \in Range(b) /\ b[1] \in Events
      BY <1>2, EmptySeq, LenProperties, ElementOfSeq DEF Range
    <3>2. PICK x : x \in Range(Fragments(b[1]))
      <4>1. 1 \in 1..Parts(b[1])
        BY <3>1, PartsType
      <4>2. [event |-> b[1], part |-> 1] \in Range(Fragments(b[1]))
        BY <3>1, <4>1, PartsType
      <4> QED
        BY <4>2
    <3>3. x \in Content(cs)
      BY <2>2, <3>1, <3>2 DEF PiecesFrom
    <3> QED
      BY <2>3, <3>3
  <2>10. new.last \in Nat /\ low <= new.last /\ acc.last <= new.last
    BY <2>1, <2>3, <2>4, <2>9 DEF Stamped
  <2>11. ASSUME NEW c \in fresh
         PROVE  /\ c \in Chunks /\ c.tab = t /\ Rising(c.items)
                /\ acc.last < c.index /\ c.index <= new.last
                /\ Range(c.items) \subseteq PiecesFrom(Range(b))
    <3>1. PICK i \in 1..Len(cs), v \in now : c = chunk(i, v)
      BY <2>8
    <3>2. c.index = first + i - 1 /\ c.items = cs[i]
      BY <2>7, <3>1
    <3>3. acc.last < c.index /\ c.index <= new.last
      BY <2>1, <2>3, <2>4, <3>2
    <3> QED
      BY <2>3, <2>7, <3>1, <3>2, <3>3
  <2>12. \A c \in new.sent :
           /\ c \in Chunks /\ c.tab = t /\ Rising(c.items)
           /\ low < c.index /\ c.index <= new.last
           /\ Range(c.items) \subseteq PiecesFrom(E \cup Range(b))
    <3> SUFFICES ASSUME NEW c \in new.sent
                 PROVE  /\ c \in Chunks /\ c.tab = t /\ Rising(c.items)
                        /\ low < c.index /\ c.index <= new.last
                        /\ Range(c.items) \subseteq PiecesFrom(E \cup Range(b))
      OBVIOUS
    <3>1. CASE c \in fresh
      <4> HIDE DEF fresh
      <4>1. c \in Chunks /\ acc.last < c.index
        BY <2>11, <3>1
      <4>2. low < c.index
        BY <2>4, <4>1 DEF Stamped, Chunks
      <4>3. Range(c.items) \subseteq PiecesFrom(E \cup Range(b))
        BY <2>5, <2>11, <3>1
      <4> QED
        BY <2>11, <3>1, <4>2, <4>3
    <3>2. CASE c \in acc.sent
      <4>1. c.index <= new.last
        BY <2>4, <2>10, <3>2 DEF Stamped, Chunks
      <4>2. c \in Chunks /\ c.tab = t /\ Rising(c.items) /\ low < c.index
        BY <3>2 DEF Stamped
      <4>3. Range(c.items) \subseteq PiecesFrom(E)
        BY <3>2 DEF Stamped
      <4>4. Range(c.items) \subseteq PiecesFrom(E \cup Range(b))
        BY <2>5, <4>3
      <4> QED
        BY <4>1, <4>2, <4>4
    <3> HIDE DEF fresh
    <3> QED
      BY <2>1, <3>1, <3>2
  <2>13. ASSUME NEW c \in new.sent, NEW d \in new.sent
         PROVE  /\ c.index < d.index => Ahead(Range(c.items), Range(d.items))
                /\ c.index = d.index => c = d
    <3>0. c.index \in Nat /\ d.index \in Nat
      BY <2>12 DEF Chunks
    <3>1. CASE c \in acc.sent /\ d \in acc.sent
      BY <3>1 DEF Stamped
    <3>2. CASE c \in acc.sent /\ d \in fresh
      <4>1. c.index < d.index
        BY <2>4, <2>11, <3>0, <3>2 DEF Stamped
      <4>2. Range(c.items) \subseteq PiecesFrom(E) /\ Range(d.items) \subseteq PiecesFrom(Range(b))
        BY <2>11, <3>2 DEF Stamped
      <4>3. Ahead(PiecesFrom(E), PiecesFrom(Range(b)))
        BY <2>5, ForegoingAhead
      <4> QED
        BY <3>0, <4>1, <4>2, <4>3 DEF Ahead
    <3>3. CASE c \in fresh /\ d \in acc.sent
      <4>1. d.index < c.index
        BY <2>4, <2>11, <3>0, <3>3 DEF Stamped
      <4> QED
        BY <3>0, <4>1
    <3>4. CASE c \in fresh /\ d \in fresh
      <4>1. PICK i \in 1..Len(cs), v \in now : c = chunk(i, v)
        BY <2>8, <3>4
      <4>2. PICK j \in 1..Len(cs), w \in now : d = chunk(j, w)
        BY <2>8, <3>4
      <4>3. v = w
        OBVIOUS
      <4>4. /\ c.index = first + i - 1 /\ d.index = first + j - 1
            /\ c.items = cs[i] /\ d.items = cs[j]
        BY <2>7, <4>1, <4>2
      <4>5. (c.index < d.index => i < j) /\ (c.index = d.index => i = j)
        BY <2>3, <2>4, <4>4
      <4> QED
        BY <2>2, <2>3, <4>1, <4>2, <4>3, <4>4, <4>5 DEF Tidy
    <3> QED
      BY <2>1, <3>1, <3>2, <3>3, <3>4
  <2>14. ASSUME token[t] # NoToken
         PROVE  PiecesFrom(E \cup Range(b)) \subseteq ItemsOf({c.items : c \in new.sent})
    <3>1. ASSUME NEW x \in PiecesFrom(Range(b))
          PROVE  x \in ItemsOf({c.items : c \in new.sent})
      <4>1. PICK i \in 1..Len(cs) : x \in Range(cs[i])
        BY <2>2, <2>3
      <4> DEFINE c == chunk(i, token[t])
      <4>2. c \in new.sent /\ c.items = cs[i]
        <5>1. token[t] \in now
          BY <2>14
        <5> HIDE DEF now
        <5>2. c \in fresh
          BY <2>3, <5>1
        <5>3. c.items = cs[i]
          BY <2>7, <5>1
        <5> QED
          BY <2>1, <5>2, <5>3
      <4> HIDE DEF c
      <4> QED
        BY <4>1, <4>2 DEF ItemsOf
    <3>2. ASSUME NEW x \in PiecesFrom(E)
          PROVE  x \in ItemsOf({c.items : c \in new.sent})
      <4>1. x \in ItemsOf({c.items : c \in acc.sent})
        BY <2>14, <3>2 DEF Stamped
      <4> QED
        BY <2>1, <4>1 DEF ItemsOf
    <3> QED
      BY <2>5, <3>1, <3>2
  <2> QED
    BY <2>10, <2>12, <2>13, <2>14 DEF Stamped, new
<1> QED
  BY <1>1, <1>2

\* What is sent at once, in two batches.
LEMMA NumberedStamped ==
  ASSUME RecorderTypeOK, NEW t \in Tabs,
         NEW b \in Seq(Events), Increasing(b), NEW d \in Seq(Events), Increasing(d),
         Foregoing(Range(b), Range(d))
  PROVE  Stamped(t, replayLastChunkIndex[t], Numbered(t, b, d), Range(b) \cup Range(d))
<1> DEFINE low == replayLastChunkIndex[t]
           none == [last |-> low, sent |-> {}]
<1>1. time \in Nat /\ token[t] \in Visits \cup {NoToken} /\ low \in Nat
  BY DEF RecorderTypeOK
<1>2. Stamped(t, low, none, {})
  BY <1>1 DEF Stamped, PiecesFrom
<1>3. Range(b) \subseteq Events /\ Foregoing({}, Range(b))
  BY LenProperties, ElementOfSeq DEF Range, Foregoing
<1> HIDE DEF low, none
<1>4. Stamped(t, low, Number(t, none, b), {} \cup Range(b))
  BY <1>1, <1>2, <1>3, NumberStamped
<1>5. Stamped(t, low, Number(t, none, b), Range(b))
  BY <1>4
<1>6. Stamped(t, low, Number(t, Number(t, none, b), d), Range(b) \cup Range(d))
  BY <1>1, <1>3, <1>5, NumberStamped
<1> QED
  BY <1>6 DEF Numbered, low, none

-----------------------------------------------------------------------------
(* The steps of Recorder keep the invariant *)

LEMMA EventsType ==
  ASSUME NEW b \in Seq(Events)
  PROVE  /\ Range(b) \subseteq Events /\ Range(b) = {b[i] : i \in 1..Len(b)}
         /\ DOMAIN b = 1..Len(b) /\ Len(b) \in Nat
         /\ \A i \in 1..Len(b) : b[i] \in Events /\ b[i] \in Range(b)
         /\ b # <<>> => Len(b) > 0
BY LenProperties, ElementOfSeq, EmptySeq DEF Range

\* What a tab sends, and what it then holds: the batches b and d go, the events
\* buffer stay, of all the events it has recorded.
Sends(t, b, d, buffer, events) ==
  /\ b \in Seq(Events) /\ d \in Seq(Events) /\ buffer \in Seq(Events) /\ events \in Seq(Events)
  /\ Increasing(b) /\ Increasing(d) /\ Increasing(buffer)
  /\ Foregoing(Range(b), Range(d))
  /\ Foregoing(Range(b) \cup Range(d), Range(buffer))
  /\ Recorded(t, events, time)
  /\ Range(emitted[t]) \cup Range(b) \cup Range(d) \cup Range(buffer) \subseteq Range(events)
  /\ \A c \in Sent : c.tab = t =>
       \A x \in Range(c.items), e \in Range(b) \cup Range(d) \cup Range(buffer) : x.event.n < e.n
  /\ \A e \in Range(events) :
       \/ e \in Range(b) \cup Range(d) \cup Range(buffer)
       \/ e \in Range(emitted[t]) \ Range(replayBuffer[t])

\* Whatever is cut into chunks, and whether or not it is sent.
LEMMA SendsInv ==
  ASSUME RecorderInv, NEW t \in Tabs, phase[t] \in {"waiting", "recording"},
         phase[t] = "waiting" => token[t] # NoToken,
         NEW b, NEW d, NEW buffer, NEW events, Sends(t, b, d, buffer, events),
         emitted' = [emitted EXCEPT ![t] = events],
         replayBuffer' = [replayBuffer EXCEPT ![t] = buffer],
         posted' = posted \cup Numbered(t, b, d).sent,
         \/ /\ phase' = [phase EXCEPT ![t] = "recording"]
            /\ token' = token
         \/ /\ phase' \in {[phase EXCEPT ![t] = "stopped"], [phase EXCEPT ![t] = "left"]}
            /\ token' \in {token, [token EXCEPT ![t] = NoToken]}
            /\ buffer = <<>>,
         replayLastChunkIndex' \in [Tabs -> Nat],
         \A u \in Tabs \ {t} : replayLastChunkIndex'[u] = replayLastChunkIndex[u],
         phase'[t] = "recording" => replayLastChunkIndex'[t] = Numbered(t, b, d).last,
         replayStartTime' \in [Tabs -> Nat],
         UNCHANGED <<time, recorderEnabled, session_replay, upsets>>
  PROVE  RecorderInv'
<1> DEFINE low == replayLastChunkIndex[t]
           acc == Numbered(t, b, d)
           E == Range(b) \cup Range(d)
<1>1. RecorderTypeOK /\ SentShape /\ SentOrder /\ BufferShape /\ Fresh /\ NothingLeft /\ Counted
      /\ \A u \in Tabs : Recorded(u, emitted[u], time)
  BY DEF RecorderInv
<1>2. /\ b \in Seq(Events) /\ d \in Seq(Events) /\ buffer \in Seq(Events) /\ events \in Seq(Events)
      /\ Range(b) \subseteq Events /\ Range(d) \subseteq Events /\ E \subseteq Events
      /\ low \in Nat
  BY <1>1, EventsType DEF Sends, RecorderTypeOK
<1>3. Stamped(t, low, acc, E)
  BY <1>1, <1>2, NumberedStamped DEF Sends
<1> HIDE DEF acc, low
<1>4. Sent' = Sent \cup acc.sent
  BY DEF Sent, ChunkOf, acc
<1>5. /\ acc.last \in Nat /\ low <= acc.last
      /\ \A c \in acc.sent :
           /\ c \in Chunks /\ c.tab = t /\ Rising(c.items)
           /\ low < c.index /\ c.index <= acc.last
           /\ Range(c.items) \subseteq PiecesFrom(E)
  BY <1>3 DEF Stamped
<1>6. /\ \A u \in Tabs \ {t} : /\ emitted'[u] = emitted[u] /\ replayBuffer'[u] = replayBuffer[u]
                               /\ phase'[u] = phase[u] /\ token'[u] = token[u]
                               /\ replayLastChunkIndex'[u] = replayLastChunkIndex[u]
      /\ emitted'[t] = events /\ replayBuffer'[t] = buffer
      /\ phase'[t] \in {"recording", "stopped", "left"}
      /\ phase'[t] = "recording" => token'[t] = token[t]
      /\ phase'[t] # "recording" => buffer = <<>>
  BY <1>1 DEF RecorderTypeOK
<1>7. \A c \in Sent : c \in Chunks
  BY <1>1 DEF Sent, RecorderTypeOK, ChunkOf, Rows, Chunks
<1>8. \A c \in Sent : c.tab = t => c.index <= low
  BY <1>1 DEF SentShape, Fresh, low
<1>9. RecorderTypeOK'
  <2>1. posted' \subseteq Chunks
    BY <1>1, <1>5 DEF RecorderTypeOK, acc
  <2>2. emitted' \in [Tabs -> Seq(Events)] /\ replayBuffer' \in [Tabs -> Seq(Events)]
    BY <1>1, <1>2 DEF RecorderTypeOK
  <2>3. /\ phase' \in [Tabs -> {"open", "waiting", "off", "recording", "stopped", "left"}]
        /\ token' \in [Tabs -> Visits \cup {NoToken}]
    BY <1>1 DEF RecorderTypeOK
  <2> QED
    BY <1>1, <2>1, <2>2, <2>3 DEF RecorderTypeOK
<1>10. \A u \in Tabs : Recorded(u, emitted[u], time)'
  <2> TAKE u \in Tabs
  <2>1. CASE u = t
    BY <1>6, <2>1 DEF Sends, Recorded
  <2>2. CASE u # t
    BY <1>1, <1>6, <2>2 DEF Recorded
  <2> QED
    BY <2>1, <2>2
<1>11. BufferShape'
  BY <1>1, <1>6 DEF BufferShape, Sends
<1>12. SentShape'
  <2> SUFFICES ASSUME NEW c \in Sent'
               PROVE  /\ Rising(c.items)
                      /\ \A x \in Range(c.items) :
                           x \in Range(Fragments(x.event)) /\ x.event \in Range(emitted'[c.tab])
                      /\ phase'[c.tab] = "recording" => c.index <= replayLastChunkIndex'[c.tab]
                      /\ \A x \in Range(c.items), e \in Range(replayBuffer'[c.tab]) :
                           x.event.n < e.n
    BY DEF SentShape
  <2>1. CASE c \in acc.sent
    <3>1. c.tab = t /\ Rising(c.items) /\ c.index <= acc.last /\ Range(c.items) \subseteq PiecesFrom(E)
      BY <1>5, <2>1
    <3>2. ASSUME NEW x \in Range(c.items)
          PROVE  x \in Range(Fragments(x.event)) /\ x.event \in E
      <4>1. PICK e \in E : x \in Range(Fragments(e))
        BY <3>1 DEF PiecesFrom
      <4>2. x.event = e
        BY <1>2, <4>1, PieceOf
      <4> QED
        BY <4>1, <4>2
    <3>3. E \subseteq Range(events) /\ Foregoing(E, Range(buffer))
      BY DEF Sends
    <3>4. phase'[t] = "recording" => c.index <= replayLastChunkIndex'[t]
      BY <3>1 DEF acc
    <3> QED
      BY <1>6, <3>1, <3>2, <3>3, <3>4 DEF Foregoing
  <2>2. CASE c \in Sent
    <3>0. c \in Chunks /\ c.tab \in Tabs
      BY <1>7, <2>2 DEF Chunks
    <3>1. CASE c.tab # t
      BY <1>1, <1>6, <2>2, <3>0, <3>1 DEF SentShape
    <3>2. CASE c.tab = t
      <4>1. c.index <= low /\ c.index \in Nat /\ low \in Nat
        BY <1>2, <1>8, <2>2, <3>0, <3>2 DEF Chunks
      <4>2. phase'[t] = "recording" => c.index <= replayLastChunkIndex'[t]
        BY <1>5, <4>1 DEF acc
      <4>3. Range(emitted[t]) \subseteq Range(events)
        BY DEF Sends
      <4>4. \A x \in Range(c.items), e \in Range(buffer) : x.event.n < e.n
        BY <2>2, <3>2 DEF Sends
      <4> QED
        BY <1>1, <1>6, <2>2, <3>2, <4>2, <4>3, <4>4 DEF SentShape
    <3> QED
      BY <3>1, <3>2
  <2> QED
    BY <1>4, <2>1, <2>2
<1>13. SentOrder'
  <2> SUFFICES ASSUME NEW c \in Sent', NEW e \in Sent', c.tab = e.tab
               PROVE  /\ c.index < e.index => Ahead(Range(c.items), Range(e.items))
                      /\ c.index = e.index => c = e
    BY DEF SentOrder
  <2>0. c.index \in Nat /\ e.index \in Nat
    BY <1>4, <1>5, <1>7 DEF Chunks
  <2>1. CASE c \in Sent /\ e \in Sent
    BY <1>1, <2>1 DEF SentOrder
  <2>2. CASE c \in acc.sent /\ e \in acc.sent
    BY <1>3, <2>2 DEF Stamped
  <2>3. ASSUME NEW f \in Sent, NEW g \in acc.sent, f.tab = t
        PROVE  f.index < g.index /\ Ahead(Range(f.items), Range(g.items))
    <3>1. f.index < g.index
      BY <1>2, <1>5, <1>7, <1>8, <2>3 DEF Chunks
    <3>2. ASSUME NEW x \in Range(f.items), NEW y \in Range(g.items)
          PROVE  PieceBefore(x, y)
      <4>1. y \in PiecesFrom(E)
        BY <1>5
      <4>2. PICK h \in E : y \in Range(Fragments(h))
        BY <4>1 DEF PiecesFrom
      <4>3. y.event = h
        BY <1>2, <4>2, PieceOf
      <4>4. x.event.n < h.n
        BY <2>3, <4>2 DEF Sends
      <4> QED
        BY <4>3, <4>4 DEF PieceBefore
    <3> QED
      BY <3>1, <3>2 DEF Ahead
  <2>4. CASE c \in Sent /\ e \in acc.sent
    <3>1. c.tab = t
      BY <1>5, <2>4
    <3> QED
      BY <2>0, <2>3, <2>4, <3>1
  <2>5. CASE e \in Sent /\ c \in acc.sent
    <3>1. e.tab = t
      BY <1>5, <2>5
    <3> QED
      BY <2>0, <2>3, <2>5, <3>1
  <2> QED
    BY <1>4, <2>1, <2>2, <2>4, <2>5
<1>14. Counted'
  BY <1>1 DEF Counted, EventCount
<1>15. Fresh'
  <2> SUFFICES ASSUME NEW u \in Tabs, phase'[u] \in {"open", "waiting", "off"}
               PROVE  emitted'[u] = <<>> /\ \A c \in Sent' : c.tab # u
    BY DEF Fresh
  <2>1. u # t
    BY <1>6
  <2>2. phase[u] \in {"open", "waiting", "off"} /\ emitted'[u] = emitted[u]
    BY <1>6, <2>1
  <2>3. \A c \in Sent : c.tab # u
    BY <1>1, <2>2 DEF Fresh
  <2>4. \A c \in acc.sent : c.tab # u
    BY <1>5, <2>1
  <2> QED
    BY <1>1, <1>4, <2>2, <2>3, <2>4 DEF Fresh
<1>16. NothingLeft'
  <2> SUFFICES ASSUME upsets = 0, NEW u \in Tabs
               PROVE  /\ phase'[u] = "recording" => token'[u] # NoToken
                      /\ \A e \in Range(emitted'[u]) :
                           \/ phase'[u] = "recording" /\ e \in Range(replayBuffer'[u])
                           \/ Whole(e, Carried')
    BY DEF NothingLeft, Whole, Fragments, Parts
  <2>1. Carried' = Carried \cup ItemsOf({c.items : c \in acc.sent})
    BY <1>4 DEF Carried, ItemsOf
  <2>2. ASSUME NEW e, Whole(e, Carried) PROVE Whole(e, Carried')
    BY <2>1, <2>2 DEF Whole
  <2>3. CASE u # t
    <3>1. /\ phase[u] = "recording" => token[u] # NoToken
          /\ \A e \in Range(emitted[u]) :
               \/ phase[u] = "recording" /\ e \in Range(replayBuffer[u])
               \/ Whole(e, Carried)
      BY <1>1 DEF NothingLeft
    <3> HIDE DEF Carried
    <3> QED
      BY <1>6, <2>2, <2>3, <3>1
  <2>4. CASE u = t
    <3>1. token[t] # NoToken
      BY <1>1 DEF NothingLeft
    <3>2. ASSUME NEW e \in E PROVE Whole(e, Carried')
      <4>1. PiecesFrom(E) \subseteq Carried'
        BY <1>3, <2>1, <3>1 DEF Stamped
      <4> QED
        BY <4>1 DEF Whole, PiecesFrom
    <3>3. ASSUME NEW e \in Range(emitted[t]) \ Range(replayBuffer[t]) PROVE Whole(e, Carried')
      <4>1. Whole(e, Carried)
        BY <1>1 DEF NothingLeft
      <4> QED
        BY <2>2, <4>1
    <3>4. \A e \in Range(buffer) : phase'[t] = "recording"
      <4>1. Range(<<>>) = {}
        BY DEF Range
      <4> QED
        BY <1>6, <4>1
    <3>5. \A e \in Range(events) :
            e \in E \cup Range(buffer) \/ e \in Range(emitted[t]) \ Range(replayBuffer[t])
      BY DEF Sends
    <3>6. \A e \in Range(events) :
            (phase'[t] = "recording" /\ e \in Range(buffer)) \/ Whole(e, Carried')
      <4> HIDE DEF E
      <4> QED
        BY <3>2, <3>3, <3>4, <3>5
    <3> QED
      BY <1>6, <2>4, <3>1, <3>6
  <2> QED
    BY <2>3, <2>4
<1> QED
  BY <1>9, <1>10, <1>11, <1>12, <1>13, <1>14, <1>15, <1>16 DEF RecorderInv

LEMMA NoEvents ==
  /\ <<>> \in Seq(Events) /\ Range(<<>>) = {} /\ Increasing(<<>>)
BY DEF Range, Increasing

LEMMA OneEvent ==
  ASSUME NEW e \in Events
  PROVE  <<e>> \in Seq(Events) /\ Range(<<e>>) = {e} /\ Increasing(<<e>>)
<1>1. <<e>> \in Seq(Events) /\ DOMAIN <<e>> = {1} /\ <<e>>[1] = e
  OBVIOUS
<1> QED
  BY <1>1 DEF Range, Increasing

LEMMA OneMore ==
  ASSUME NEW s \in Seq(Events), NEW e \in Events
  PROVE  LET more == Append(s, e)
         IN /\ more \in Seq(Events) /\ Range(more) = Range(s) \cup {e}
            /\ DOMAIN more = 1..(Len(s) + 1)
            /\ \A i \in 1..Len(s) : more[i] = s[i]
            /\ more[Len(s) + 1] = e
<1> DEFINE more == Append(s, e)
<1>1. /\ more \in Seq(Events) /\ Len(more) = Len(s) + 1
      /\ \A i \in 1..Len(s) : more[i] = s[i]
      /\ more[Len(s) + 1] = e
  BY AppendProperties
<1>2. DOMAIN more = 1..(Len(s) + 1) /\ DOMAIN s = 1..Len(s) /\ Len(s) \in Nat
  BY <1>1, EventsType
<1> HIDE DEF more
<1>3. Range(more) = Range(s) \cup {e}
  <2>1. 1..(Len(s) + 1) = (1..Len(s)) \cup {Len(s) + 1}
    BY <1>2
  <2> QED
    BY <1>1, <1>2, <2>1 DEF Range
<1> QED
  BY <1>1, <1>2, <1>3 DEF more

\* The next event of a tab.
LEMMA NextEvent ==
  ASSUME RecorderInv, NEW t \in Tabs, NEW e \in Events,
         e.tab = t, e.n = Len(emitted[t]) + 1, e.at = time
  PROVE  /\ Append(emitted[t], e) \in Seq(Events)
         /\ Recorded(t, Append(emitted[t], e), time)
         /\ Range(Append(emitted[t], e)) = Range(emitted[t]) \cup {e}
         /\ \A f \in Range(emitted[t]) : f \in Events /\ f.n < e.n
         /\ e \notin Range(replayBuffer[t])
         /\ \A c \in Sent : c.tab = t => \A x \in Range(c.items) : x.event.n < e.n
<1> DEFINE s == emitted[t]
           more == Append(s, e)
<1>1. s \in Seq(Events) /\ Recorded(t, s, time) /\ time \in Nat
  BY DEF RecorderInv, RecorderTypeOK
<1>2. /\ more \in Seq(Events) /\ Range(more) = Range(s) \cup {e}
      /\ DOMAIN more = 1..(Len(s) + 1)
      /\ \A i \in 1..Len(s) : more[i] = s[i]
      /\ more[Len(s) + 1] = e
  BY <1>1, OneMore
<1>3. /\ Range(s) \subseteq Events /\ Range(s) = {s[i] : i \in 1..Len(s)}
      /\ DOMAIN s = 1..Len(s) /\ Len(s) \in Nat
  BY <1>1, EventsType
<1> HIDE DEF more
<1>4. Recorded(t, more, time)
  <2>1. ASSUME NEW i \in 1..(Len(s) + 1)
        PROVE  more[i].tab = t /\ more[i].n = i /\ more[i].at <= time /\ more[i].at \in Nat
    <3>1. CASE i = Len(s) + 1
      BY <1>1, <1>2, <1>3, <3>1
    <3>2. CASE i # Len(s) + 1
      <4>1. i \in 1..Len(s)
        BY <1>3, <3>2
      <4> QED
        <5>1. more[i] = s[i] /\ s[i] \in Events
          BY <1>1, <1>2, <4>1, EventsType
        <5>2. s[i].tab = t /\ s[i].n = i /\ s[i].at <= time
          BY <1>1, <1>3, <4>1 DEF Recorded
        <5> QED
          BY <5>1, <5>2 DEF Events
    <3> QED
      BY <3>1, <3>2
  <2>2. ASSUME NEW i \in 1..(Len(s) + 1), NEW j \in 1..(Len(s) + 1), i < j
        PROVE  more[i].at <= more[j].at
    <3>1. i \in 1..Len(s)
      BY <1>3, <2>2
    <3>2. CASE j = Len(s) + 1
      BY <1>2, <2>1, <3>2
    <3>3. CASE j # Len(s) + 1
      <4>1. j \in 1..Len(s)
        BY <1>3, <3>3
      <4> QED
        BY <1>1, <1>2, <1>3, <2>2, <3>1, <4>1 DEF Recorded
    <3> QED
      BY <3>2, <3>3
  <2> QED
    BY <1>2, <2>1, <2>2 DEF Recorded
<1>5. ASSUME NEW f \in Range(s)
      PROVE  f \in Events /\ f.n < e.n
  <2>1. PICK i \in 1..Len(s) : f = s[i]
    BY <1>3
  <2>2. f.n = i
    BY <1>1, <1>3, <2>1 DEF Recorded
  <2> QED
    BY <1>3, <2>2
<1>6. e \notin Range(replayBuffer[t])
  <2>1. e \notin Range(s)
    <3>1. ~(e.n < e.n)
      BY DEF Events
    <3> QED
      BY <1>5, <3>1
  <2> QED
    BY <2>1 DEF RecorderInv, BufferShape
<1>7. \A c \in Sent : c.tab = t => \A x \in Range(c.items) : x.event.n < e.n
  BY <1>5 DEF RecorderInv, SentShape
<1> QED
  BY <1>2, <1>4, <1>5, <1>6, <1>7 DEF more

\* What is buffered: it comes after all that has been sent.
LEMMA Buffered ==
  ASSUME RecorderInv, NEW t \in Tabs
  PROVE  /\ replayBuffer[t] \in Seq(Events) /\ Increasing(replayBuffer[t])
         /\ emitted[t] \in Seq(Events) /\ Recorded(t, emitted[t], time)
         /\ Range(replayBuffer[t]) \subseteq Range(emitted[t])
         /\ \A c \in Sent : c.tab = t =>
              \A x \in Range(c.items), e \in Range(replayBuffer[t]) : x.event.n < e.n
BY DEF RecorderInv, RecorderTypeOK, BufferShape, SentShape

\* The buffer goes, all of it, and nothing else.
LEMMA BufferSends ==
  ASSUME RecorderInv, NEW t \in Tabs
  PROVE  Sends(t, replayBuffer[t], <<>>, <<>>, emitted[t])
BY Buffered, NoEvents DEF Sends, Foregoing

LEMMA BeginReplayCaptureInv ==
  ASSUME RecorderInv, NEW t \in Tabs, BeginReplayCapture(t)
  PROVE  RecorderInv'
<1>1. PICK size \in SnapshotSizes :
        LET meta == Event(t, 1, "meta", 1)
            full == Event(t, 2, "full", size)
        IN /\ emitted' = [emitted EXCEPT ![t] = <<meta, full>>]
           /\ Send(t, <<meta>>, <<full>>)
  BY DEF BeginReplayCapture
<1> DEFINE meta == Event(t, 1, "meta", 1)
           full == Event(t, 2, "full", size)
<1>2. time \in Nat /\ size \in Nat \ {0}
  BY RecorderAssumption DEF RecorderInv, RecorderTypeOK
<1>3. /\ meta \in Events /\ meta.tab = t /\ meta.n = 1 /\ meta.at = time
      /\ full \in Events /\ full.tab = t /\ full.n = 2 /\ full.at = time
  BY <1>2 DEF Event, Events
<1>4. phase[t] = "waiting" /\ token[t] # NoToken
  BY DEF BeginReplayCapture, Ready
<1>5. emitted[t] = <<>> /\ Range(emitted[t]) = {} /\ replayBuffer[t] = <<>>
      /\ \A c \in Sent : c.tab # t
  <2>1. emitted[t] = <<>> /\ \A c \in Sent : c.tab # t
    BY <1>4 DEF RecorderInv, Fresh
  <2>2. Range(emitted[t]) = {}
    BY <2>1, NoEvents
  <2>3. replayBuffer[t] = <<>>
    <3>1. replayBuffer[t] \in Seq(Events) /\ Range(replayBuffer[t]) = {}
      BY <2>2, Buffered
    <3> QED
      BY <3>1, EventsType
  <2> QED
    BY <2>1, <2>2, <2>3
<1>6. /\ emitted' = [emitted EXCEPT ![t] = <<meta, full>>]
      /\ Send(t, <<meta>>, <<full>>)
  BY <1>1
<1> HIDE DEF meta, full
<1>7. /\ <<meta, full>> \in Seq(Events) /\ DOMAIN <<meta, full>> = 1..2
      /\ <<meta, full>>[1] = meta /\ <<meta, full>>[2] = full
      /\ Range(<<meta, full>>) = {meta, full}
  <2>1. /\ <<meta, full>> \in Seq(Events) /\ DOMAIN <<meta, full>> = {1, 2} /\ 1..2 = {1, 2}
        /\ <<meta, full>>[1] = meta /\ <<meta, full>>[2] = full
    BY <1>3
  <2> QED
    BY <2>1 DEF Range
<1>8. Recorded(t, <<meta, full>>, time)
  BY <1>2, <1>3, <1>7 DEF Recorded
<1>9. Sends(t, <<meta>>, <<full>>, <<>>, <<meta, full>>)
  <2>1. /\ <<meta>> \in Seq(Events) /\ Range(<<meta>>) = {meta} /\ Increasing(<<meta>>)
        /\ <<full>> \in Seq(Events) /\ Range(<<full>>) = {full} /\ Increasing(<<full>>)
        /\ <<>> \in Seq(Events) /\ Range(<<>>) = {} /\ Increasing(<<>>)
    BY <1>3, OneEvent, NoEvents
  <2>2. /\ Foregoing(Range(<<meta>>), Range(<<full>>))
        /\ Foregoing(Range(<<meta>>) \cup Range(<<full>>), Range(<<>>))
    <3>1. meta.n < full.n
      BY <1>3
    <3> QED
      BY <2>1, <3>1 DEF Foregoing
  <2> QED
    BY <1>5, <1>7, <1>8, <2>1, <2>2 DEF Sends
<1>10. replayBuffer' = [replayBuffer EXCEPT ![t] = <<>>]
  <2>1. replayBuffer' = replayBuffer /\ replayBuffer \in [Tabs -> Seq(Events)]
    BY DEF BeginReplayCapture, RecorderInv, RecorderTypeOK
  <2> QED
    BY <1>5, <2>1
<1>11. /\ posted' = posted \cup Numbered(t, <<meta>>, <<full>>).sent
       /\ replayLastChunkIndex' =
            [replayLastChunkIndex EXCEPT ![t] = Numbered(t, <<meta>>, <<full>>).last]
  BY <1>6 DEF Send
<1>12. Numbered(t, <<meta>>, <<full>>).last \in Nat
  BY <1>9, NumberedStamped DEF RecorderInv, Sends, Stamped
<1>13. /\ replayLastChunkIndex' \in [Tabs -> Nat]
       /\ \A u \in Tabs \ {t} : replayLastChunkIndex'[u] = replayLastChunkIndex[u]
       /\ replayLastChunkIndex'[t] = Numbered(t, <<meta>>, <<full>>).last
  BY <1>11, <1>12 DEF RecorderInv, RecorderTypeOK
<1>14. /\ phase' = [phase EXCEPT ![t] = "recording"]
       /\ replayStartTime' \in [Tabs -> Nat]
       /\ UNCHANGED <<time, token, recorderEnabled, session_replay, upsets>>
  BY <1>2 DEF BeginReplayCapture, RecorderInv, RecorderTypeOK
<1> QED
  BY <1>4, <1>6, <1>9, <1>10, <1>11, <1>13, <1>14, SendsInv

\* A call of Send, in a tab that goes on recording or stops.
LEMMA SendInv ==
  ASSUME RecorderInv, NEW t \in Tabs, phase[t] = "recording",
         NEW b, NEW d, NEW buffer, NEW events, Sends(t, b, d, buffer, events),
         Send(t, b, d),
         emitted' = [emitted EXCEPT ![t] = events],
         replayBuffer' = [replayBuffer EXCEPT ![t] = buffer],
         \/ phase' = phase
         \/ phase' = [phase EXCEPT ![t] = "stopped"] /\ buffer = <<>>,
         UNCHANGED <<time, token, replayStartTime, recorderEnabled, session_replay, upsets>>
  PROVE  RecorderInv'
<1>1. /\ posted' = posted \cup Numbered(t, b, d).sent
      /\ replayLastChunkIndex' = [replayLastChunkIndex EXCEPT ![t] = Numbered(t, b, d).last]
  BY DEF Send
<1>2. Numbered(t, b, d).last \in Nat
  BY NumberedStamped DEF RecorderInv, Sends, Stamped
<1>3. /\ replayLastChunkIndex' \in [Tabs -> Nat]
      /\ \A u \in Tabs \ {t} : replayLastChunkIndex'[u] = replayLastChunkIndex[u]
      /\ replayLastChunkIndex'[t] = Numbered(t, b, d).last
  BY <1>1, <1>2 DEF RecorderInv, RecorderTypeOK
<1>4. \/ phase' = [phase EXCEPT ![t] = "recording"]
      \/ phase' = [phase EXCEPT ![t] = "stopped"] /\ buffer = <<>>
  BY DEF RecorderInv, RecorderTypeOK
<1>5. replayStartTime' \in [Tabs -> Nat]
  BY DEF RecorderInv, RecorderTypeOK
<1> QED
  BY <1>1, <1>3, <1>4, <1>5, SendsInv

LEMMA StopReplayInv ==
  ASSUME RecorderInv, NEW t \in Tabs, StopReplay(t)
  PROVE  RecorderInv'
<1>1. emitted' = [emitted EXCEPT ![t] = emitted[t]]
  BY DEF StopReplay, RecorderInv, RecorderTypeOK
<1> QED
  BY <1>1, BufferSends, SendInv DEF StopReplay

LEMMA FlushReplayInv ==
  ASSUME RecorderInv, NEW t \in Tabs, FlushReplay(t)
  PROVE  RecorderInv'
<1>1. emitted' = [emitted EXCEPT ![t] = emitted[t]]
  BY DEF FlushReplay, RecorderInv, RecorderTypeOK
<1> QED
  BY <1>1, BufferSends, SendInv DEF FlushReplay

LEMMA EmitAloneInv ==
  ASSUME RecorderInv, NEW t \in Tabs, EmitAlone(t)
  PROVE  RecorderInv'
<1>1. PICK type \in {"full", "increment"}, size \in Sizes \cup SnapshotSizes :
        LET e == Event(t, Len(emitted[t]) + 1, type, size)
        IN /\ Send(t, replayBuffer[t], <<e>>)
           /\ emitted' = [emitted EXCEPT ![t] = Append(emitted[t], e)]
  BY DEF EmitAlone, RecorderInv, RecorderTypeOK
<1> DEFINE e == Event(t, Len(emitted[t]) + 1, type, size)
<1>2. e \in Events /\ e.tab = t /\ e.n = Len(emitted[t]) + 1 /\ e.at = time
  <2>1. time \in Nat /\ size \in Nat \ {0} /\ Len(emitted[t]) \in Nat
    BY RecorderAssumption, EventsType DEF RecorderInv, RecorderTypeOK
  <2> QED
    BY <2>1 DEF Event, Events
<1>3. /\ Send(t, replayBuffer[t], <<e>>)
      /\ emitted' = [emitted EXCEPT ![t] = Append(emitted[t], e)]
  BY <1>1
<1> HIDE DEF e
<1>4. Sends(t, replayBuffer[t], <<e>>, <<>>, Append(emitted[t], e))
  <2>1. /\ Append(emitted[t], e) \in Seq(Events)
        /\ Recorded(t, Append(emitted[t], e), time)
        /\ Range(Append(emitted[t], e)) = Range(emitted[t]) \cup {e}
        /\ \A f \in Range(emitted[t]) : f.n < e.n
        /\ \A c \in Sent : c.tab = t => \A x \in Range(c.items) : x.event.n < e.n
    BY <1>2, NextEvent
  <2>2. /\ <<e>> \in Seq(Events) /\ Range(<<e>>) = {e} /\ Increasing(<<e>>)
        /\ <<>> \in Seq(Events) /\ Range(<<>>) = {} /\ Increasing(<<>>)
    BY <1>2, OneEvent, NoEvents
  <2> QED
    BY <2>1, <2>2, Buffered DEF Sends, Foregoing
<1>5. /\ phase[t] = "recording" /\ replayBuffer' = [replayBuffer EXCEPT ![t] = <<>>]
      /\ UNCHANGED <<time, token, phase, replayStartTime, recorderEnabled, session_replay, upsets>>
  BY DEF EmitAlone
<1> QED
  BY <1>3, <1>4, <1>5, SendInv

LEMMA EmitBufferedInv ==
  ASSUME RecorderInv, NEW t \in Tabs, EmitBuffered(t)
  PROVE  RecorderInv'
<1> DEFINE old == replayBuffer[t]
<1>1. PICK size \in Sizes :
        LET e == Event(t, Len(emitted[t]) + 1, "increment", size)
            makeRoom == TooLarge(Append(old, e))
            buffer == IF makeRoom THEN <<e>> ELSE Append(old, e)
            full == Len(buffer) >= FlushCount
        IN /\ Send(t, IF makeRoom THEN old ELSE <<>>, IF full THEN buffer ELSE <<>>)
           /\ replayBuffer' = [replayBuffer EXCEPT ![t] = IF full THEN <<>> ELSE buffer]
           /\ emitted' = [emitted EXCEPT ![t] = Append(emitted[t], e)]
  BY DEF EmitBuffered, RecorderInv, RecorderTypeOK
<1> DEFINE e == Event(t, Len(emitted[t]) + 1, "increment", size)
           after == Append(emitted[t], e)
           more == Append(old, e)
<1>2. e \in Events /\ e.tab = t /\ e.n = Len(emitted[t]) + 1 /\ e.at = time
  <2>1. time \in Nat /\ size \in Nat \ {0} /\ Len(emitted[t]) \in Nat
    BY RecorderAssumption, EventsType DEF RecorderInv, RecorderTypeOK
  <2> QED
    BY <2>1 DEF Event, Events
<1>3. \E b, d, buffer :
        /\ Send(t, b, d)
        /\ replayBuffer' = [replayBuffer EXCEPT ![t] = buffer]
        /\ emitted' = [emitted EXCEPT ![t] = after]
        /\ \/ <<b, d, buffer>> = <<old, <<e>>, <<>>>>
           \/ <<b, d, buffer>> = <<old, <<>>, <<e>>>>
           \/ <<b, d, buffer>> = <<<<>>, more, <<>>>>
           \/ <<b, d, buffer>> = <<<<>>, <<>>, more>>
  <2> DEFINE makeRoom == TooLarge(more)
             next == IF makeRoom THEN <<e>> ELSE more
             full == Len(next) >= FlushCount
             b == IF makeRoom THEN old ELSE <<>>
             d == IF full THEN next ELSE <<>>
             buffer == IF full THEN <<>> ELSE next
  <2>1. /\ Send(t, b, d)
        /\ replayBuffer' = [replayBuffer EXCEPT ![t] = buffer]
        /\ emitted' = [emitted EXCEPT ![t] = after]
    BY <1>1
  <2> HIDE DEF full, more, e, makeRoom, after, old
  <2>2. \/ <<b, d, buffer>> = <<old, <<e>>, <<>>>>
        \/ <<b, d, buffer>> = <<old, <<>>, <<e>>>>
        \/ <<b, d, buffer>> = <<<<>>, more, <<>>>>
        \/ <<b, d, buffer>> = <<<<>>, <<>>, more>>
    OBVIOUS
  <2> HIDE DEF b, d, buffer
  <2> QED
    BY <2>1, <2>2
<1>4. PICK b, d, buffer :
        /\ Send(t, b, d)
        /\ replayBuffer' = [replayBuffer EXCEPT ![t] = buffer]
        /\ emitted' = [emitted EXCEPT ![t] = after]
        /\ \/ <<b, d, buffer>> = <<old, <<e>>, <<>>>>
           \/ <<b, d, buffer>> = <<old, <<>>, <<e>>>>
           \/ <<b, d, buffer>> = <<<<>>, more, <<>>>>
           \/ <<b, d, buffer>> = <<<<>>, <<>>, more>>
  BY <1>3
<1> HIDE DEF e, after, more
<1>5. /\ after \in Seq(Events) /\ Recorded(t, after, time)
      /\ Range(after) = Range(emitted[t]) \cup {e}
      /\ \A f \in Range(emitted[t]) : f \in Events /\ f.n < e.n
      /\ \A c \in Sent : c.tab = t => \A x \in Range(c.items) : x.event.n < e.n
  BY <1>2, NextEvent DEF after
<1>6. /\ old \in Seq(Events) /\ Increasing(old) /\ Range(old) \subseteq Range(emitted[t])
      /\ \A c \in Sent : c.tab = t =>
           \A x \in Range(c.items), f \in Range(old) : x.event.n < f.n
  BY Buffered
<1>7. more \in Seq(Events) /\ Range(more) = Range(old) \cup {e} /\ Increasing(more)
  <2>1. /\ more \in Seq(Events) /\ Range(more) = Range(old) \cup {e}
        /\ DOMAIN more = 1..(Len(old) + 1)
        /\ \A i \in 1..Len(old) : more[i] = old[i]
        /\ more[Len(old) + 1] = e
    BY <1>2, <1>6, OneMore DEF more
  <2>2. /\ DOMAIN old = 1..Len(old) /\ Len(old) \in Nat
        /\ \A i \in 1..Len(old) : old[i] \in Range(old)
    BY <1>6, EventsType
  <2>3. ASSUME NEW i \in 1..(Len(old) + 1), NEW j \in 1..(Len(old) + 1), i < j
        PROVE  more[i].n < more[j].n
    <3>1. i \in 1..Len(old)
      BY <2>2, <2>3
    <3>2. CASE j = Len(old) + 1
      BY <1>5, <1>6, <2>1, <2>2, <3>1, <3>2
    <3>3. CASE j # Len(old) + 1
      <4>1. j \in 1..Len(old)
        BY <2>2, <3>3
      <4> QED
        BY <1>6, <2>1, <2>2, <2>3, <3>1, <4>1 DEF Increasing
    <3> QED
      BY <3>2, <3>3
  <2> QED
    BY <2>1, <2>3 DEF Increasing
<1>8. /\ <<e>> \in Seq(Events) /\ Range(<<e>>) = {e} /\ Increasing(<<e>>)
      /\ <<>> \in Seq(Events) /\ Range(<<>>) = {} /\ Increasing(<<>>)
  BY <1>2, OneEvent, NoEvents
<1> HIDE DEF old
<1>9. Sends(t, b, d, buffer, after)
  <2>1. CASE <<b, d, buffer>> = <<old, <<e>>, <<>>>>
    BY <1>5, <1>6, <1>8, <2>1 DEF Sends, Foregoing, old
  <2>2. CASE <<b, d, buffer>> = <<old, <<>>, <<e>>>>
    BY <1>5, <1>6, <1>8, <2>2 DEF Sends, Foregoing, old
  <2>3. CASE <<b, d, buffer>> = <<<<>>, more, <<>>>>
    BY <1>5, <1>6, <1>7, <1>8, <2>3 DEF Sends, Foregoing, old
  <2>4. CASE <<b, d, buffer>> = <<<<>>, <<>>, more>>
    BY <1>5, <1>6, <1>7, <1>8, <2>4 DEF Sends, Foregoing, old
  <2> QED
    BY <1>4, <2>1, <2>2, <2>3, <2>4
<1>10. /\ phase[t] = "recording"
       /\ UNCHANGED <<time, token, phase, replayStartTime, recorderEnabled, session_replay, upsets>>
  BY DEF EmitBuffered
<1>11. /\ Send(t, b, d)
       /\ replayBuffer' = [replayBuffer EXCEPT ![t] = buffer]
       /\ emitted' = [emitted EXCEPT ![t] = after]
  BY <1>4
<1> QED
  BY <1>9, <1>10, <1>11, SendInv

LEMMA LeavePageInv ==
  ASSUME RecorderInv, NEW t \in Tabs, LeavePage(t)
  PROVE  RecorderInv'
<1>1. emitted' = [emitted EXCEPT ![t] = emitted[t]]
  BY DEF LeavePage, RecorderInv, RecorderTypeOK
<1>2. Sends(t, replayBuffer[t], <<>>, <<>>, emitted[t])
  BY BufferSends
<1>3. /\ replayLastChunkIndex' \in [Tabs -> Nat] /\ replayStartTime' \in [Tabs -> Nat]
      /\ \A u \in Tabs \ {t} : replayLastChunkIndex'[u] = replayLastChunkIndex[u]
      /\ phase' = [phase EXCEPT ![t] = "left"] /\ phase'[t] = "left"
  BY DEF LeavePage, RecorderInv, RecorderTypeOK
<1>4. phase[t] = "recording"
  BY DEF LeavePage
<1> QED
  BY <1>1, <1>2, <1>3, <1>4, SendsInv DEF LeavePage

\* The handler stores a chunk: it was sent before, and it is still.
LEMMA SaveRecordingInv ==
  ASSUME RecorderInv, NEW c \in posted, SaveRecording(c)
  PROVE  RecorderInv'
<1> DEFINE row == [tab |-> c.tab, visit |-> c.visit, chunk_index |-> c.index,
                   events |-> c.items, event_count |-> EventCount(c.items)]
<1>1. /\ session_replay' = session_replay \cup {row}
      /\ posted' = posted \ {c}
      /\ UNCHANGED <<time, token, phase, replayBuffer, replayLastChunkIndex, replayStartTime,
                     emitted, recorderEnabled, upsets>>
  BY DEF SaveRecording, tabVars
<1>2. c \in Chunks
  BY DEF RecorderInv, RecorderTypeOK
<1>3. row \in Rows
  <2>1. EventCount(c.items) \in Nat
    <3>1. IsFiniteSet(DOMAIN c.items)
      <4>1. DOMAIN c.items = 1..Len(c.items) /\ Len(c.items) \in Nat
        BY <1>2, LenProperties DEF Chunks
      <4> QED
        BY <4>1, FS_Interval
    <3>2. {k \in DOMAIN c.items : c.items[k].part = 1} \in SUBSET (DOMAIN c.items)
      OBVIOUS
    <3>3. IsFiniteSet({k \in DOMAIN c.items : c.items[k].part = 1})
      BY <3>1, <3>2, FS_Subset
    <3> QED
      BY <3>3, FS_CardinalityType DEF EventCount
  <2> HIDE DEF EventCount
  <2> QED
    BY <1>2, <2>1 DEF Chunks, Rows
<1>4. ChunkOf(row) = c
  BY <1>2 DEF ChunkOf, Chunks
<1>5. row.event_count = EventCount(row.events)
  OBVIOUS
<1> HIDE DEF row
<1>6. Sent' = Sent
  <2>1. Sent = posted \cup {ChunkOf(r) : r \in session_replay}
    BY DEF Sent
  <2>2. Sent' = posted' \cup {ChunkOf(r) : r \in session_replay'}
    BY DEF Sent, ChunkOf
  <2>3. {ChunkOf(r) : r \in session_replay \cup {row}} = {ChunkOf(r) : r \in session_replay} \cup {c}
    BY <1>4
  <2> QED
    BY <1>1, <2>1, <2>2, <2>3
<1>7. RecorderTypeOK'
  <2>1. IsFiniteSet(session_replay \cup {row})
    BY FS_AddElement DEF RecorderInv, RecorderTypeOK
  <2> QED
    BY <1>1, <1>3, <2>1 DEF RecorderInv, RecorderTypeOK
<1>8. Carried' = Carried
  BY <1>6 DEF Carried
<1>9. Counted'
  BY <1>1, <1>5 DEF RecorderInv, Counted, EventCount
<1>10. SentShape' /\ SentOrder' /\ Fresh' /\ BufferShape'
  BY <1>1, <1>6 DEF RecorderInv, SentShape, SentOrder, Fresh, BufferShape
<1>11. NothingLeft'
  BY <1>1, <1>8 DEF RecorderInv, NothingLeft, Whole
<1>12. \A t \in Tabs : Recorded(t, emitted[t], time)'
  BY <1>1 DEF RecorderInv, Recorded
<1> QED
  BY <1>7, <1>9, <1>10, <1>11, <1>12 DEF RecorderInv

\* Steps that send nothing and record nothing.
LEMMA QuietInv ==
  ASSUME RecorderInv, RecorderTypeOK',
         UNCHANGED <<replayBuffer, replayLastChunkIndex, emitted, posted, session_replay>>,
         time <= time',
         \A t \in Tabs :
           /\ phase'[t] = "recording" => phase[t] = "recording"
           /\ phase[t] = "recording" => phase'[t] = "recording"
           /\ phase'[t] \in {"open", "waiting", "off"} => phase[t] \in {"open", "waiting", "off"},
         upsets' = 0 => upsets = 0,
         upsets' = 0 => \A t \in Tabs : phase[t] = "recording" => token'[t] # NoToken
  PROVE  RecorderInv'
<1>1. Sent' = Sent /\ Carried' = Carried
  BY DEF Sent, Carried, ChunkOf
<1>2. \A t \in Tabs : Recorded(t, emitted[t], time)'
  <2> TAKE t \in Tabs
  <2>1. Recorded(t, emitted[t], time) /\ emitted[t] \in Seq(Events) /\ time \in Nat /\ time' \in Nat
    BY DEF RecorderInv, RecorderTypeOK
  <2>2. \A i \in DOMAIN emitted[t] : emitted[t][i].at \in Nat
    BY <2>1, EventsType DEF Events
  <2> QED
    BY <2>1, <2>2 DEF Recorded
<1>3. Counted' /\ BufferShape'
  BY DEF RecorderInv, Counted, BufferShape
<1>4. \A c \in Sent : c.tab \in Tabs
  BY DEF RecorderInv, RecorderTypeOK, Sent, ChunkOf, Rows, Chunks
<1>5. SentShape'
  BY <1>1, <1>4 DEF RecorderInv, SentShape
<1>6. SentOrder' /\ Fresh'
  BY <1>1 DEF RecorderInv, SentOrder, Fresh
<1>7. NothingLeft'
  BY <1>1 DEF RecorderInv, NothingLeft, Whole
<1> QED
  BY <1>2, <1>3, <1>5, <1>6, <1>7 DEF RecorderInv

LEMMA TabQuietInv ==
  ASSUME RecorderInv, NEW t \in Tabs,
         FirstAnswer(t) \/ LaterAnswer(t) \/ Bootstrap(t) \/ GiveUp(t)
  PROVE  RecorderInv'
<1>1. RecorderTypeOK
  BY DEF RecorderInv
<1>2. CASE FirstAnswer(t)
  <2>1. /\ UNCHANGED <<time, phase, replayBuffer, replayLastChunkIndex, replayStartTime, emitted,
                       recorderEnabled, posted, session_replay, upsets>>
        /\ \E v \in Visits : token' = [token EXCEPT ![t] = v]
    BY <1>2 DEF FirstAnswer, tabVars
  <2>2. RecorderTypeOK'
    BY <1>1, <2>1 DEF RecorderTypeOK
  <2>3. upsets' = 0 => \A u \in Tabs : phase[u] = "recording" => token'[u] # NoToken
    BY <1>1, <2>1, RecorderAssumption DEF RecorderInv, NothingLeft, RecorderTypeOK
  <2> QED
    BY <1>1, <2>1, <2>2, <2>3, QuietInv DEF RecorderTypeOK
<1>3. CASE LaterAnswer(t)
  <2>1. /\ UNCHANGED <<time, phase, replayBuffer, replayLastChunkIndex, replayStartTime, emitted,
                       recorderEnabled, posted, session_replay>>
        /\ \E v \in Visits \cup {NoToken} : token' = [token EXCEPT ![t] = v]
        /\ upsets' = upsets + 1
    BY <1>3 DEF LaterAnswer, tabVars, Upset
  <2>2. RecorderTypeOK' /\ upsets' # 0
    BY <1>1, <2>1 DEF RecorderTypeOK
  <2> QED
    BY <1>1, <2>1, <2>2, QuietInv DEF RecorderTypeOK
<1>4. CASE Bootstrap(t) \/ GiveUp(t)
  <2>1. /\ UNCHANGED <<time, token, replayBuffer, replayLastChunkIndex, replayStartTime, emitted,
                       recorderEnabled, posted, session_replay, upsets>>
        /\ phase[t] \in {"open", "waiting"}
        /\ phase' \in {[phase EXCEPT ![t] = "waiting"], [phase EXCEPT ![t] = "off"]}
    BY <1>4 DEF Bootstrap, GiveUp
  <2>2. RecorderTypeOK'
    BY <1>1, <2>1 DEF RecorderTypeOK
  <2>3. \A u \in Tabs :
          /\ phase'[u] = "recording" => phase[u] = "recording"
          /\ phase[u] = "recording" => phase'[u] = "recording"
          /\ phase'[u] \in {"open", "waiting", "off"} => phase[u] \in {"open", "waiting", "off"}
    BY <1>1, <2>1 DEF RecorderTypeOK
  <2>4. upsets' = 0 => \A u \in Tabs : phase[u] = "recording" => token'[u] # NoToken
    BY <2>1 DEF RecorderInv, NothingLeft
  <2> QED
    BY <1>1, <2>1, <2>2, <2>3, <2>4, QuietInv DEF RecorderTypeOK
<1> QED
  BY <1>2, <1>3, <1>4

LEMMA OtherQuietInv ==
  ASSUME RecorderInv, SwitchRecorder \/ PassTime \/ UNCHANGED recorderVars
  PROVE  RecorderInv'
<1>1. RecorderTypeOK /\ RecorderTypeOK'
  <2>1. RecorderTypeOK
    BY DEF RecorderInv
  <2>2. CASE SwitchRecorder
    BY <2>1, <2>2 DEF RecorderTypeOK, SwitchRecorder, tabVars, Upset
  <2>3. CASE PassTime
    BY <2>1, <2>3 DEF RecorderTypeOK, PassTime, tabVars
  <2>4. CASE UNCHANGED recorderVars
    BY <2>1, <2>4 DEF RecorderTypeOK, recorderVars, tabVars
  <2> QED
    BY <2>1, <2>2, <2>3, <2>4
<1>2. /\ UNCHANGED <<replayBuffer, replayLastChunkIndex, emitted, posted, session_replay, phase,
                     token>>
      /\ upsets' \in {upsets, upsets + 1} /\ time' \in {time, time + 1}
  BY DEF SwitchRecorder, PassTime, recorderVars, tabVars, Upset
<1>3. time <= time' /\ (upsets' = 0 => upsets = 0)
  BY <1>1, <1>2 DEF RecorderTypeOK
<1>4. upsets' = 0 => \A u \in Tabs : phase[u] = "recording" => token'[u] # NoToken
  BY <1>2, <1>3 DEF RecorderInv, NothingLeft
<1> QED
  BY <1>1, <1>2, <1>3, <1>4, QuietInv

LEMMA RecorderInitInv == RecorderInit => RecorderInv
<1> SUFFICES ASSUME RecorderInit PROVE RecorderInv
  OBVIOUS
<1>1. Sent = {}
  BY DEF RecorderInit, Sent
<1>2. Range(<<>>) = {} /\ DOMAIN <<>> = {}
  BY DEF Range
<1>3. RecorderTypeOK
  BY FS_EmptySet DEF RecorderInit, RecorderTypeOK
<1>4. \A t \in Tabs : Recorded(t, emitted[t], time) /\ emitted[t] = <<>> /\ replayBuffer[t] = <<>>
  BY <1>2 DEF RecorderInit, Recorded
<1>5. BufferShape
  BY <1>2, <1>4 DEF BufferShape, Increasing
<1>6. SentShape /\ SentOrder /\ Counted /\ Fresh
  BY <1>1, <1>4 DEF SentShape, SentOrder, Counted, Fresh, RecorderInit
<1>7. NothingLeft
  BY <1>2, <1>4 DEF NothingLeft, RecorderInit
<1> QED
  BY <1>3, <1>4, <1>5, <1>6, <1>7 DEF RecorderInv

LEMMA RecorderNextInv == RecorderInv /\ [RecorderNext]_recorderVars => RecorderInv'
<1> SUFFICES ASSUME RecorderInv, [RecorderNext]_recorderVars PROVE RecorderInv'
  OBVIOUS
<1>1. \/ \E t \in Tabs :
           \/ FirstAnswer(t) \/ LaterAnswer(t) \/ Bootstrap(t) \/ GiveUp(t)
           \/ BeginReplayCapture(t) \/ StopReplay(t) \/ EmitAlone(t) \/ EmitBuffered(t)
           \/ FlushReplay(t) \/ LeavePage(t)
      \/ \E c \in posted : SaveRecording(c)
      \/ SwitchRecorder \/ PassTime \/ UNCHANGED recorderVars
  BY DEF RecorderNext
<1>2. ASSUME NEW t \in Tabs,
             \/ FirstAnswer(t) \/ LaterAnswer(t) \/ Bootstrap(t) \/ GiveUp(t)
             \/ BeginReplayCapture(t) \/ StopReplay(t) \/ EmitAlone(t) \/ EmitBuffered(t)
             \/ FlushReplay(t) \/ LeavePage(t)
      PROVE  RecorderInv'
  BY <1>2, TabQuietInv, BeginReplayCaptureInv, StopReplayInv, EmitAloneInv, EmitBufferedInv,
     FlushReplayInv, LeavePageInv
<1> QED
  BY <1>1, <1>2, SaveRecordingInv, OtherQuietInv

LEMMA RecorderInvHolds == RecorderSpec => []RecorderInv
BY RecorderInitInv, RecorderNextInv, PTL DEF RecorderSpec

LEMMA NothingDroppedHolds == RecorderInv => NothingDropped
<1> SUFFICES ASSUME RecorderInv, upsets = 0, NEW t \in Tabs, NEW e \in Range(emitted[t])
             PROVE  \/ phase[t] = "recording" /\ e \in Range(replayBuffer[t])
                    \/ Whole(e, ItemsOf({c.items : c \in posted}
                                        \cup {r.events : r \in session_replay}))
  BY DEF NothingDropped
<1>1. Carried = ItemsOf({c.items : c \in posted} \cup {r.events : r \in session_replay})
  <2>1. {c.items : c \in Sent} = {c.items : c \in posted} \cup {r.events : r \in session_replay}
    <3>1. \A r : ChunkOf(r).items = r.events
      BY DEF ChunkOf
    <3>2. {c.items : c \in {ChunkOf(r) : r \in session_replay}}
          = {r.events : r \in session_replay}
      BY <3>1
    <3> QED
      BY <3>2 DEF Sent
  <2> QED
    BY <2>1 DEF Carried
<1> QED
  BY <1>1 DEF RecorderInv, NothingLeft

\* While no token changes and the recorder stays on, every recorded event is
\* buffered, on its way or stored, however the events are cut into chunks
\* (recorder/index.js, waitForSession, sendPayload and the flushes).
THEOREM NothingIsDropped == RecorderSpec => []NothingDropped
BY RecorderInvHolds, NothingDroppedHolds, PTL

-----------------------------------------------------------------------------
(* The orders in which the database may return the rows *)

LEMMA FiniteMax ==
  ASSUME NEW S, S \subseteq Nat, IsFiniteSet(S), S # {}
  PROVE  Max(S) \in S /\ \A x \in S : x <= Max(S)
<1>1. PICK n \in Nat : ExistsBijection(1..n, S)
  BY FS_NatBijection
<1>2. PICK f : f \in Bijection(1..n, S)
  BY <1>1 DEF ExistsBijection
<1>3. f \in [1..n -> S] /\ \A x \in S : \E k \in 1..n : f[k] = x
  BY <1>2 DEF Bijection, Injection, Surjection
<1> DEFINE T == {i \in 0..n : \E m \in S : \A k \in 1..i : f[k] <= m}
<1>4. 0 \in T
  <2>1. PICK m : m \in S
    OBVIOUS
  <2>2. 0 \in 0..n /\ \A k \in 1..0 : f[k] <= m
    BY <1>1
  <2> QED
    BY <2>1, <2>2
<1>5. ASSUME NEW i \in 0..(n - 1), i \in T
      PROVE  i + 1 \in T
  <2>1. PICK m \in S : \A k \in 1..i : f[k] <= m
    BY <1>5
  <2>2. i + 1 \in 1..n /\ i + 1 \in 0..n /\ \A k \in 1..(i + 1) : k \in 1..i \/ k = i + 1
    BY <1>1
  <2>3. f[i + 1] \in S /\ f[i + 1] \in Nat /\ m \in Nat /\ \A k \in 1..i : f[k] \in Nat
    <3>1. f[i + 1] \in S
      BY <1>3, <2>2
    <3>2. \A k \in 1..i : f[k] \in S
      <4>1. \A k \in 1..i : k \in 1..n
        BY <1>1
      <4> QED
        BY <1>3, <4>1
    <3> QED
      BY <3>1, <3>2
  <2>4. CASE f[i + 1] <= m
    BY <2>1, <2>2, <2>4
  <2>5. CASE m <= f[i + 1]
    <3>1. \A k \in 1..(i + 1) : f[k] <= f[i + 1]
      BY <2>1, <2>2, <2>3, <2>5
    <3> QED
      BY <2>2, <2>3, <3>1
  <2> QED
    BY <2>3, <2>4, <2>5
<1> HIDE DEF T
<1>6. n \in T
  <2>1. \A i \in 0..(n - 1) : i \in T => i + 1 \in T
    BY <1>5
  <2>2. n \in 0..n
    BY <1>1
  <2> QED
    BY <1>1, <1>4, <2>1, <2>2, Induction
<1>7. PICK m \in S : \A k \in 1..n : f[k] <= m
  BY <1>6 DEF T
<1>8. \A x \in S : m >= x
  BY <1>3, <1>7
<1>9. Max(S) \in S /\ \A x \in S : Max(S) >= x
  BY <1>8 DEF Max
<1> QED
  BY <1>9

\* All of a set, each of it once.
LEMMA SetToSeqsType ==
  ASSUME NEW S, IsFiniteSet(S), NEW s \in SetToSeqs(S)
  PROVE  s \in Seq(S) /\ Range(s) = S /\ \A i, j \in DOMAIN s : i # j => s[i] # s[j]
<1> DEFINE n == Cardinality(S)
<1>1. n \in Nat
  BY FS_CardinalityType
<1>2. s \in [1..n -> S] /\ \A i, j \in 1..n : i # j => s[i] # s[j]
  BY DEF SetToSeqs
<1>3. s \in Injection(1..n, S)
  BY <1>2 DEF Injection, IsInjective
<1>4. IsFiniteSet(1..n) /\ Cardinality(1..n) = n
  BY <1>1, FS_Interval
<1>5. s \in Surjection(1..n, S)
  BY <1>3, <1>4, FS_Injection
<1>6. Range(s) = S
  BY <1>2, <1>5 DEF Surjection, Range
<1> HIDE DEF n
<1>7. s \in Seq(S)
  BY <1>1, <1>2, SeqDef
<1> QED
  BY <1>2, <1>6, <1>7

\* Rows one after the other in the order of their numbers.
Enumerates(order, rows) ==
  /\ order \in Seq(rows)
  /\ Range(order) = rows
  /\ \A i, j \in DOMAIN order :
       i < j => order[i] # order[j] /\ order[i].chunk_index <= order[j].chunk_index

LEMMA EnumeratesMore ==
  ASSUME NEW i \in Nat, NEW rows, \A r \in rows : r.chunk_index \in Nat /\ r.chunk_index <= i,
         NEW more, \A r \in more : r.chunk_index = i + 1, IsFiniteSet(more),
         NEW a, Enumerates(a, rows), NEW b \in SetToSeqs(more)
  PROVE  Enumerates(a \o b, rows \cup more)
<1> DEFINE c == a \o b
           all == rows \cup more
           m == Len(a)
           n == Len(b)
<1>1. /\ b \in Seq(more) /\ Range(b) = more
      /\ \A k, l \in DOMAIN b : k # l => b[k] # b[l]
  BY SetToSeqsType
<1>2. a \in Seq(all) /\ b \in Seq(all) /\ a \in Seq(rows)
  BY <1>1, SeqMonotonic DEF Enumerates
<1>3. /\ c \in Seq(all) /\ m \in Nat /\ n \in Nat
      /\ DOMAIN c = 1..(m + n) /\ DOMAIN a = 1..m /\ DOMAIN b = 1..n
      /\ \A k \in 1..(m + n) : c[k] = IF k <= m THEN a[k] ELSE b[k - m]
      /\ \A k \in 1..m : a[k] \in rows
      /\ \A k \in 1..n : b[k] \in more
  <2>1. c \in Seq(all) /\ Len(c) = m + n
    BY <1>2, ConcatProperties
  <2>2. m \in Nat /\ n \in Nat /\ DOMAIN c = 1..(m + n) /\ DOMAIN a = 1..m /\ DOMAIN b = 1..n
    BY <1>2, <2>1, LenProperties
  <2>3. \A k \in 1..(m + n) : c[k] = IF k <= m THEN a[k] ELSE b[k - m]
    BY <1>2, ConcatProperties
  <2> QED
    BY <1>1, <1>2, <2>1, <2>2, <2>3, ElementOfSeq
<1>4. Range(c) = Range(a) \cup Range(b)
  BY <1>2, RangeConcatenation
<1>5. Range(c) = all
  BY <1>1, <1>4 DEF Enumerates
<1> HIDE DEF c, m, n
<1>6. ASSUME NEW k \in 1..(m + n), NEW l \in 1..(m + n), k < l
      PROVE  c[k] # c[l] /\ c[k].chunk_index <= c[l].chunk_index
  <2>1. CASE l <= m
    <3>0. k \in 1..m /\ l \in 1..m /\ k <= m /\ m + n \in Nat
      BY <1>3, <1>6, <2>1
    <3>1. k \in 1..m /\ l \in 1..m /\ c[k] = a[k] /\ c[l] = a[l]
      BY <1>3, <2>1, <3>0
    <3> QED
      BY <1>3, <1>6, <3>1 DEF Enumerates
  <2>2. CASE k > m
    <3>1. k - m \in 1..n /\ l - m \in 1..n /\ k - m # l - m /\ c[k] = b[k - m] /\ c[l] = b[l - m]
      BY <1>3, <1>6, <2>2
    <3>2. c[k] # c[l] /\ c[k] \in more /\ c[l] \in more
      BY <1>1, <1>3, <3>1
    <3> QED
      BY <3>2
  <2>3. CASE k <= m /\ l > m
    <3>1. k \in 1..m /\ l - m \in 1..n /\ c[k] = a[k] /\ c[l] = b[l - m]
      BY <1>3, <2>3
    <3>2. c[k] \in rows /\ c[l] \in more
      BY <1>3, <3>1
    <3>3. c[k].chunk_index \in Nat /\ c[k].chunk_index <= i /\ c[l].chunk_index = i + 1
      BY <3>2
    <3>4. c[k].chunk_index < c[l].chunk_index
      BY <3>3
    <3> QED
      BY <3>3, <3>4
  <2> QED
    BY <1>3, <2>1, <2>2, <2>3
<1> QED
  BY <1>3, <1>5, <1>6 DEF Enumerates, c

LEMMA OrdersEnumerate ==
  ASSUME NEW rows, IsFiniteSet(rows), \A r \in rows : r.chunk_index \in Nat \ {0},
         NEW order \in Orders(rows)
  PROVE  Enumerates(order, rows)
<1> DEFINE numbers == {r.chunk_index : r \in rows} \cup {0}
           last == Max(numbers)
           at(i) == {r \in rows : r.chunk_index = i}
           below(i) == {r \in rows : r.chunk_index <= i}
           next(i, U) == {a \o b : a \in U, b \in SetToSeqs(at(i))}
           upTo[i \in 0..last] == IF i = 0 THEN {<<>>} ELSE next(i, upTo[i - 1])
<1>1. order \in upTo[last]
  BY DEF Orders
<1>2. last \in Nat /\ \A r \in rows : r.chunk_index <= last
  <2>1. numbers \subseteq Nat /\ numbers # {} /\ \A r \in rows : r.chunk_index \in numbers
    OBVIOUS
  <2>2. IsFiniteSet(numbers)
    <3>1. IsFiniteSet({r.chunk_index : r \in rows})
      <4> DEFINE f == [r \in rows |-> r.chunk_index]
      <4>1. f \in Surjection(rows, {r.chunk_index : r \in rows})
        BY DEF Surjection
      <4> QED
        BY <4>1, FS_Surjection
    <3> QED
      BY <3>1, FS_AddElement
  <2> HIDE DEF numbers
  <2>3. last \in numbers /\ \A x \in numbers : x <= last
    BY <2>1, <2>2, FiniteMax
  <2> QED
    BY <2>1, <2>3
<1> HIDE DEF last
<1>3. \A i : IsFiniteSet(at(i))
  BY FS_Subset
<1>4. \A i : \A b \in SetToSeqs(at(i)) : b \in Seq(rows)
  <2> TAKE i
  <2> TAKE b \in SetToSeqs(at(i))
  <2>1. b \in Seq(at(i)) /\ at(i) \subseteq rows
    BY <1>3, SetToSeqsType
  <2> HIDE DEF at
  <2> QED
    BY <2>1, SeqMonotonic
<1> HIDE DEF at
<1>5. \E g : g = [i \in 0..last |-> IF i = 0 THEN {<<>>} ELSE next(i, g[i - 1])]
  <2> DEFINE S == SUBSET Seq(rows)
             start == {<<>>}
             step == [x \in (1..last) \X S |-> next(x[1], x[2])]
  <2>1. start \in S
    BY EmptySeq
  <2>2. ASSUME NEW i, NEW U \in S
        PROVE  next(i, U) \in S
    <3>1. ASSUME NEW a \in U, NEW b \in SetToSeqs(at(i))
          PROVE  a \o b \in Seq(rows)
      <4>1. a \in Seq(rows) /\ b \in Seq(rows)
        BY <1>4
      <4> QED
        BY <4>1, ConcatProperties
    <3> HIDE DEF at
    <3>2. ASSUME NEW c \in next(i, U) PROVE c \in Seq(rows)
      <4>1. PICK a \in U, b \in SetToSeqs(at(i)) : c = a \o b
        OBVIOUS
      <4> QED
        BY <3>1, <4>1
    <3> HIDE DEF next
    <3> QED
      BY <3>2
  <2> HIDE DEF next, S, start
  <2>3. step \in [(1..last) \X S -> S]
    BY <2>2
  <2>4. \A i \in 1..last : \A U \in S : step[<<i, U>>] = next(i, U)
    OBVIOUS
  <2> HIDE DEF step
  <2>5. PICK g : Recurs(g, last, S, start, step)
    BY <1>2, <2>1, <2>3, Recursion
  <2>6. /\ g \in [0..last -> S] /\ g[0] = start
        /\ \A i \in 1..last : g[i] = step[<<i, g[i - 1]>>]
    BY <2>5 DEF Recurs
  <2>7. \A i \in 0..last : g[i] = IF i = 0 THEN {<<>>} ELSE next(i, g[i - 1])
    <3> TAKE i \in 0..last
    <3>1. CASE i = 0
      BY <2>6, <3>1 DEF start
    <3>2. CASE i # 0
      <4>1. i \in 1..last /\ i - 1 \in 0..last
        BY <1>2, <3>2
      <4>2. g[i - 1] \in S
        BY <2>6, <4>1
      <4> QED
        BY <2>4, <2>6, <3>2, <4>1, <4>2
    <3> QED
      BY <3>1, <3>2
  <2>8. g = [i \in 0..last |-> g[i]]
    BY <2>6
  <2>9. g = [i \in 0..last |-> IF i = 0 THEN {<<>>} ELSE next(i, g[i - 1])]
    BY <2>7, <2>8
  <2> QED
    BY <2>9
<1>6. upTo = [i \in 0..last |-> IF i = 0 THEN {<<>>} ELSE next(i, upTo[i - 1])]
  <2> HIDE DEF next
  <2> QED
    BY <1>5 DEF upTo
<1> HIDE DEF upTo
<1> DEFINE T == {i \in 0..last : \A a \in upTo[i] : Enumerates(a, below(i))}
<1>7. 0 \in T
  <2>1. upTo[0] = {<<>>}
    BY <1>2, <1>6
  <2>2. below(0) = {}
    OBVIOUS
  <2>3. Enumerates(<<>>, {})
    BY EmptySeq DEF Enumerates, Range
  <2> HIDE DEF below
  <2>4. \A a \in upTo[0] : Enumerates(a, below(0))
    BY <2>1, <2>2, <2>3
  <2> QED
    BY <1>2, <2>4
<1>8. ASSUME NEW i \in 0..(last - 1), i \in T
      PROVE  i + 1 \in T
  <2>1. i + 1 \in 0..last /\ i + 1 # 0 /\ (i + 1) - 1 = i /\ i \in Nat
    BY <1>2
  <2>2. upTo[i + 1] = next(i + 1, upTo[i])
    <3> HIDE DEF next
    <3> QED
      BY <1>6, <2>1
  <2>3. ASSUME NEW c \in upTo[i + 1]
        PROVE  Enumerates(c, below(i + 1))
    <3>1. PICK a \in upTo[i], b \in SetToSeqs(at(i + 1)) : c = a \o b
      BY <2>2
    <3>2. below(i + 1) = below(i) \cup at(i + 1)
      BY <2>1 DEF at
    <3>3. Enumerates(a, below(i))
      BY <1>8
    <3>4. /\ \A r \in below(i) : r.chunk_index \in Nat /\ r.chunk_index <= i
          /\ \A r \in at(i + 1) : r.chunk_index = i + 1
          /\ IsFiniteSet(at(i + 1))
      BY <1>3 DEF at
    <3> HIDE DEF below
    <3>5. Enumerates(a \o b, below(i) \cup at(i + 1))
      BY <2>1, <3>3, <3>4, EnumeratesMore
    <3> QED
      BY <3>1, <3>2, <3>5
  <2> QED
    BY <2>1, <2>3
<1>9. last \in T
  <2> HIDE DEF T
  <2>1. \A i \in 0..(last - 1) : i \in T => i + 1 \in T
    BY <1>8
  <2>2. last \in 0..last
    BY <1>2
  <2> QED
    BY <1>2, <1>7, <2>1, <2>2, Induction
<1>10. below(last) = rows
  BY <1>2
<1> QED
  BY <1>1, <1>9, <1>10

-----------------------------------------------------------------------------
(* Reading a replay *)

\* Events of a tab: the number tells them apart, and agrees with their time.
LEMMA EmittedOrder ==
  ASSUME RecorderInv, NEW t \in Tabs, NEW e \in Range(emitted[t]), NEW f \in Range(emitted[t])
  PROVE  /\ e \in Events /\ e.tab = t
         /\ e.n = f.n => e = f
         /\ e.n < f.n => e.at <= f.at
<1>1. emitted[t] \in Seq(Events) /\ Recorded(t, emitted[t], time)
  BY Buffered
<1>2. /\ Range(emitted[t]) \subseteq Events
      /\ Range(emitted[t]) = {emitted[t][i] : i \in 1..Len(emitted[t])}
      /\ DOMAIN emitted[t] = 1..Len(emitted[t])
  BY <1>1, EventsType
<1>3. PICK i \in 1..Len(emitted[t]) : e = emitted[t][i]
  BY <1>2
<1>4. PICK j \in 1..Len(emitted[t]) : f = emitted[t][j]
  BY <1>2
<1>5. e.n = i /\ e.tab = t /\ f.n = j
  BY <1>1, <1>2, <1>3, <1>4 DEF Recorded
<1> QED
  BY <1>1, <1>2, <1>3, <1>4, <1>5 DEF Recorded

\* The pieces of a row.
LEMMA RowPieces ==
  ASSUME RecorderInv, NEW r \in session_replay, NEW x \in Range(r.events)
  PROVE  /\ r.tab \in Tabs /\ x \in Pieces
         /\ x \in Range(Fragments(x.event))
         /\ x.event \in Range(emitted[r.tab]) /\ x.event \in Events /\ x.event.tab = r.tab
         /\ x.part \in 1..Parts(x.event) /\ x = [event |-> x.event, part |-> x.part]
<1>1. r \in Rows
  BY DEF RecorderInv, RecorderTypeOK
<1>2. ChunkOf(r) \in Sent /\ ChunkOf(r).tab = r.tab /\ ChunkOf(r).items = r.events
  BY DEF Sent, ChunkOf
<1>3. x \in Range(Fragments(x.event)) /\ x.event \in Range(emitted[r.tab])
  BY <1>2 DEF RecorderInv, SentShape
<1>4. r.tab \in Tabs
  BY <1>1 DEF Rows
<1>5. x.event \in Events /\ x.event.tab = r.tab
  BY <1>3, <1>4, EmittedOrder
<1> QED
  BY <1>3, <1>4, <1>5, PieceOf

\* Two rows of a tab are told apart by their numbers, and so are their pieces.
LEMMA RowOrder ==
  ASSUME RecorderInv, NEW r \in session_replay, NEW s \in session_replay
  PROVE  /\ r.events \in Seq(Pieces) /\ Rising(r.events)
         /\ r.chunk_index \in Nat \ {0} /\ r.event_count = EventCount(r.events)
         /\ r.tab = s.tab /\ r.chunk_index < s.chunk_index => Ahead(Range(r.events), Range(s.events))
         /\ r.tab = s.tab /\ r.chunk_index = s.chunk_index => r = s
<1>1. /\ r \in Rows /\ s \in Rows
      /\ r.event_count = EventCount(r.events) /\ s.event_count = EventCount(s.events)
  BY DEF RecorderInv, RecorderTypeOK, Counted
<1>2. ChunkOf(r) \in Sent /\ ChunkOf(s) \in Sent
  BY DEF Sent
<1>3. /\ ChunkOf(r).tab = r.tab /\ ChunkOf(r).items = r.events /\ ChunkOf(r).visit = r.visit
      /\ ChunkOf(s).tab = s.tab /\ ChunkOf(s).items = s.events /\ ChunkOf(s).visit = s.visit
      /\ ChunkOf(r).index = r.chunk_index /\ ChunkOf(s).index = s.chunk_index
  BY DEF ChunkOf
<1>4. Rising(r.events)
  BY <1>2, <1>3 DEF RecorderInv, SentShape
<1>5. r.tab = s.tab /\ r.chunk_index < s.chunk_index => Ahead(Range(r.events), Range(s.events))
  BY <1>2, <1>3 DEF RecorderInv, SentOrder
<1>6. ASSUME r.tab = s.tab, r.chunk_index = s.chunk_index
      PROVE  r = s
  <2>1. ChunkOf(r) = ChunkOf(s)
    BY <1>2, <1>3, <1>6 DEF RecorderInv, SentOrder
  <2>2. r.events = s.events /\ r.visit = s.visit
    BY <1>3, <2>1
  <2>3. r.event_count = s.event_count
    BY <1>1, <2>2
  <2> QED
    BY <1>1, <1>6, <2>2, <2>3 DEF Rows
<1> QED
  BY <1>1, <1>4, <1>5, <1>6 DEF Rows

\* No piece comes before itself.
LEMMA PieceIrreflexive ==
  ASSUME NEW x \in Pieces
  PROVE  ~PieceBefore(x, x)
<1>1. x.event.n \in Nat /\ x.part \in Nat
  BY DEF Pieces, Events
<1> QED
  BY <1>1 DEF PieceBefore

LEMMA PieceAsymmetric ==
  ASSUME NEW x \in Pieces, NEW y \in Pieces, PieceBefore(x, y)
  PROVE  ~PieceBefore(y, x)
<1>1. x.event.n \in Nat /\ x.part \in Nat /\ y.event.n \in Nat /\ y.part \in Nat
  BY DEF Pieces, Events
<1> QED
  BY <1>1 DEF PieceBefore

LEMMA ReplayRows ==
  ASSUME RecorderInv, NEW visit
  PROVE  /\ Replay(visit) \subseteq session_replay /\ IsFiniteSet(Replay(visit))
         /\ \A order \in Orders(Replay(visit)) : Enumerates(order, Replay(visit))
<1>1. Replay(visit) \subseteq session_replay /\ IsFiniteSet(Replay(visit))
  <2>1. Replay(visit) \in SUBSET session_replay
    BY DEF Replay
  <2> QED
    BY <2>1, FS_Subset DEF RecorderInv, RecorderTypeOK
<1>2. \A r \in Replay(visit) : r.chunk_index \in Nat \ {0}
  BY <1>1, RowOrder
<1> QED
  BY <1>1, <1>2, OrdersEnumerate

PlaceBefore(p, q) == p[1] < q[1] \/ (p[1] = q[1] /\ p[2] < q[2])

LEMMA PlaceType ==
  ASSUME RecorderInv, NEW visit, NEW order \in Orders(Replay(visit)), NEW p \in Places(order)
  PROVE  /\ p = <<p[1], p[2]>> /\ p[1] \in Nat /\ p[2] \in Nat
         /\ p[1] \in DOMAIN order /\ order[p[1]] \in Replay(visit)
         /\ order[p[1]] \in session_replay
         /\ p[2] \in DOMAIN order[p[1]].events
         /\ ItemAt(order, p) \in Range(order[p[1]].events)
         /\ ItemAt(order, p) = order[p[1]].events[p[2]]
<1>1. PICK i \in DOMAIN order : p \in {<<i, k>> : k \in DOMAIN order[i].events}
  BY DEF Places
<1>2. PICK k \in DOMAIN order[i].events : p = <<i, k>>
  BY <1>1
<1>3. order \in Seq(Replay(visit))
  BY ReplayRows DEF Enumerates
<1>4. DOMAIN order = 1..Len(order) /\ order[i] \in Replay(visit)
  BY <1>3, LenProperties, ElementOfSeq
<1>5. order[i] \in session_replay
  BY <1>4, ReplayRows
<1>6. DOMAIN order[i].events = 1..Len(order[i].events)
  BY <1>5, RowOrder, LenProperties
<1>7. order[i].events[k] \in Range(order[i].events)
  BY DEF Range
<1> QED
  BY <1>2, <1>4, <1>5, <1>6, <1>7 DEF ItemAt

\* What is stored is what is at the places.
LEMMA PlacesStored ==
  ASSUME RecorderInv, NEW visit, NEW order \in Orders(Replay(visit))
  PROVE  ItemsOf({r.events : r \in Replay(visit)}) = {ItemAt(order, p) : p \in Places(order)}
<1> DEFINE stored == ItemsOf({r.events : r \in Replay(visit)})
<1>1. Range(order) = Replay(visit)
  BY ReplayRows DEF Enumerates
<1>2. ASSUME NEW x \in stored
      PROVE  \E p \in Places(order) : x = ItemAt(order, p)
  <2>1. PICK r \in Replay(visit) : x \in Range(r.events)
    BY DEF ItemsOf
  <2>2. PICK i \in DOMAIN order : r = order[i]
    BY <1>1 DEF Range
  <2>3. PICK k \in DOMAIN order[i].events : x = order[i].events[k]
    BY <2>1, <2>2 DEF Range
  <2>4. <<i, k>> \in Places(order)
    BY DEF Places
  <2>5. ItemAt(order, <<i, k>>) = x
    BY <2>3 DEF ItemAt
  <2> QED
    BY <2>4, <2>5
<1>3. ASSUME NEW p \in Places(order)
      PROVE  ItemAt(order, p) \in stored
  <2>1. order[p[1]] \in Replay(visit) /\ ItemAt(order, p) \in Range(order[p[1]].events)
    BY PlaceType
  <2> QED
    BY <2>1 DEF ItemsOf
<1> HIDE DEF stored
<1>4. stored = {ItemAt(order, p) : p \in Places(order)}
  BY <1>2, <1>3
<1> QED
  BY <1>4 DEF stored

\* Of one tab, the places of the pieces are in the order of their recording.
LEMMA PlacedInOrder ==
  ASSUME RecorderInv, NEW visit, NEW order \in Orders(Replay(visit)),
         NEW p \in Places(order), NEW q \in Places(order),
         ItemAt(order, p).event.tab = ItemAt(order, q).event.tab, PlaceBefore(p, q)
  PROVE  /\ PieceBefore(ItemAt(order, p), ItemAt(order, q))
         /\ ItemAt(order, p).event.at <= ItemAt(order, q).event.at
<1> DEFINE x == ItemAt(order, p)
           y == ItemAt(order, q)
           r == order[p[1]]
           s == order[q[1]]
<1>1. /\ p[1] \in DOMAIN order /\ p[2] \in DOMAIN r.events /\ r \in session_replay
      /\ x \in Range(r.events) /\ x = r.events[p[2]]
  BY PlaceType
<1>2. /\ q[1] \in DOMAIN order /\ q[2] \in DOMAIN s.events /\ s \in session_replay
      /\ y \in Range(s.events) /\ y = s.events[q[2]]
  BY PlaceType
<1> HIDE DEF x, y
<1>3. /\ x \in Pieces /\ x.event \in Range(emitted[r.tab]) /\ x.event.tab = r.tab /\ r.tab \in Tabs
      /\ x.event \in Events
  BY <1>1, RowPieces
<1>4. y \in Pieces /\ y.event \in Range(emitted[s.tab]) /\ y.event.tab = s.tab /\ y.event \in Events
  BY <1>2, RowPieces
<1>5. r.tab = s.tab
  BY <1>3, <1>4 DEF x, y
<1>6. PieceBefore(x, y)
  <2>1. CASE p[1] = q[1] /\ p[2] < q[2]
    BY <1>1, <1>2, <2>1, RowOrder DEF Rising
  <2>2. CASE p[1] < q[1]
    <3>1. r # s /\ r.chunk_index <= s.chunk_index
      BY <1>1, <1>2, <2>2, ReplayRows DEF Enumerates
    <3>2. r.chunk_index \in Nat /\ s.chunk_index \in Nat /\ r.chunk_index # s.chunk_index
      BY <1>1, <1>2, <1>5, <3>1, RowOrder
    <3>3. r.chunk_index < s.chunk_index
      BY <3>1, <3>2
    <3>4. Ahead(Range(r.events), Range(s.events))
      BY <1>1, <1>2, <1>5, <3>3, RowOrder
    <3> QED
      BY <1>1, <1>2, <3>4 DEF Ahead
  <2> QED
    BY <2>1, <2>2 DEF PlaceBefore
<1>7. x.event.at <= y.event.at
  <2>1. x.event.n < y.event.n \/ x.event.n = y.event.n
    BY <1>6 DEF PieceBefore
  <2>2. x.event.at \in Nat
    BY <1>3 DEF Events
  <2>3. /\ x.event.n = y.event.n => x.event = y.event
        /\ x.event.n < y.event.n => x.event.at <= y.event.at
    BY <1>3, <1>4, <1>5, EmittedOrder
  <2> QED
    BY <2>1, <2>2, <2>3
<1> QED
  BY <1>6, <1>7 DEF x, y

\* Of one tab, the merged order is the order of recording.
LEMMA MergedInOrder ==
  ASSUME RecorderInv, NEW visit, NEW order \in Orders(Replay(visit)),
         NEW p \in Places(order), NEW q \in Places(order),
         ItemAt(order, p).event.tab = ItemAt(order, q).event.tab
  PROVE  /\ MergedBefore(order, p, q) <=> PieceBefore(ItemAt(order, p), ItemAt(order, q))
         /\ ItemAt(order, p) = ItemAt(order, q) => p = q
<1> DEFINE x == ItemAt(order, p)
           y == ItemAt(order, q)
<1>1. /\ p = <<p[1], p[2]>> /\ p[1] \in Nat /\ p[2] \in Nat
      /\ q = <<q[1], q[2]>> /\ q[1] \in Nat /\ q[2] \in Nat
  BY PlaceType
<1>2. x \in Pieces /\ y \in Pieces
  BY PlaceType, RowPieces
<1>3. x.event.at \in Nat /\ y.event.at \in Nat
  BY <1>2 DEF Pieces, Events
<1>4. /\ PlaceBefore(p, q) => PieceBefore(x, y) /\ x.event.at <= y.event.at
      /\ PlaceBefore(q, p) => PieceBefore(y, x) /\ y.event.at <= x.event.at
  BY PlacedInOrder
<1>5. p = q \/ PlaceBefore(p, q) \/ PlaceBefore(q, p)
  <2>1. p[1] = q[1] /\ p[2] = q[2] => p = q
    BY <1>1
  <2>2. p[1] < q[1] \/ q[1] < p[1] \/ p[1] = q[1]
    BY <1>1
  <2>3. p[2] < q[2] \/ q[2] < p[2] \/ p[2] = q[2]
    BY <1>1
  <2> QED
    BY <2>1, <2>2, <2>3 DEF PlaceBefore
<1>6. MergedBefore(order, p, q) <=>
        x.event.at < y.event.at \/ (x.event.at = y.event.at /\ PlaceBefore(p, q))
  BY DEF MergedBefore, PlaceBefore
<1>7. ~PieceBefore(x, x) /\ ~PieceBefore(y, y) /\ (PieceBefore(x, y) => ~PieceBefore(y, x))
  BY <1>2, PieceIrreflexive, PieceAsymmetric
<1>8. CASE p = q
  <2>1. ~PlaceBefore(p, q)
    BY <1>1, <1>8 DEF PlaceBefore
  <2>2. x = y
    BY <1>8
  <2> HIDE DEF x, y
  <2> QED
    BY <1>3, <1>6, <1>7, <1>8, <2>1, <2>2 DEF x, y
<1>9. CASE PlaceBefore(p, q)
  <2> HIDE DEF x, y
  <2>1. PieceBefore(x, y) /\ x.event.at <= y.event.at /\ x # y
    BY <1>4, <1>7, <1>9
  <2>2. MergedBefore(order, p, q)
    BY <1>3, <1>6, <1>9, <2>1
  <2> QED
    BY <2>1, <2>2 DEF x, y
<1>10. CASE PlaceBefore(q, p)
  <2> HIDE DEF x, y
  <2>1. PieceBefore(y, x) /\ y.event.at <= x.event.at /\ x # y /\ ~PieceBefore(x, y)
    BY <1>2, <1>4, <1>7, <1>10, PieceAsymmetric
  <2>2. ~PlaceBefore(p, q)
    BY <1>1, <1>10 DEF PlaceBefore
  <2>3. ~MergedBefore(order, p, q)
    BY <1>3, <1>6, <2>1, <2>2
  <2> QED
    BY <2>1, <2>3 DEF x, y
<1> QED
  BY <1>5, <1>8, <1>9, <1>10

\* Exactly the events stored whole return.
LEMMA WholeEventsReturn ==
  ASSUME RecorderInv, NEW visit, NEW order \in Orders(Replay(visit))
  PROVE  {ItemAt(order, p).event : p \in RestoreReplay(order)}
         = {e \in UNION {Range(emitted[t]) : t \in Tabs} :
              Whole(e, ItemsOf({r.events : r \in Replay(visit)}))}
<1> DEFINE stored == ItemsOf({r.events : r \in Replay(visit)})
           returned == {ItemAt(order, p).event : p \in RestoreReplay(order)}
           recorded == UNION {Range(emitted[t]) : t \in Tabs}
<1>1. stored = {ItemAt(order, p) : p \in Places(order)}
  BY PlacesStored
<1> HIDE DEF stored
<1>2. ASSUME NEW p \in Places(order)
      PROVE  /\ ItemAt(order, p).event \in recorded /\ ItemAt(order, p).event \in Events
             /\ ItemAt(order, p).part \in 1..Parts(ItemAt(order, p).event)
             /\ ItemAt(order, p) = [event |-> ItemAt(order, p).event, part |-> ItemAt(order, p).part]
  BY PlaceType, RowPieces
<1>3. ASSUME NEW p \in RestoreReplay(order)
      PROVE  ItemAt(order, p).event \in recorded /\ Whole(ItemAt(order, p).event, stored)
  <2>1. /\ p \in Places(order)
        /\ Range(Fragments(ItemAt(order, p).event))
             \subseteq {ItemAt(order, q) : q \in {q \in Places(order) :
                                                q = p \/ MergedBefore(order, q, p)}}
    BY DEF RestoreReplay
  <2>2. {ItemAt(order, q) : q \in {q \in Places(order) : q = p \/ MergedBefore(order, q, p)}}
        \subseteq stored
    BY <1>1
  <2> QED
    BY <1>2, <2>1, <2>2 DEF Whole
<1>4. ASSUME NEW e \in recorded, Whole(e, stored)
      PROVE  \E p \in RestoreReplay(order) : ItemAt(order, p).event = e
  <2>1. PICK t \in Tabs : e \in Range(emitted[t])
    OBVIOUS
  <2>2. e \in Events
    BY <2>1, EmittedOrder
  <2>3. /\ Parts(e) \in Nat \ {0}
        /\ Range(Fragments(e)) = {[event |-> e, part |-> i] : i \in 1..Parts(e)}
    BY <2>2, PartsType
  <2> DEFINE last == [event |-> e, part |-> Parts(e)]
  <2>4. Parts(e) \in 1..Parts(e)
    BY <2>3
  <2>5. last \in stored
    BY <1>4, <2>3, <2>4 DEF Whole
  <2>6. PICK p \in Places(order) : ItemAt(order, p) = last
    BY <1>1, <2>5
  <2>7. ASSUME NEW x \in Range(Fragments(e))
        PROVE  x \in {ItemAt(order, q) : q \in {q \in Places(order) :
                                              q = p \/ MergedBefore(order, q, p)}}
    <3>1. x \in stored
      BY <1>4 DEF Whole
    <3>2. PICK q \in Places(order) : ItemAt(order, q) = x
      BY <1>1, <3>1
    <3>3. PICK i \in 1..Parts(e) : x = [event |-> e, part |-> i]
      BY <2>3
    <3>4. q = p \/ MergedBefore(order, q, p)
      <4>1. ItemAt(order, q).event = e /\ ItemAt(order, p).event = e
            /\ ItemAt(order, q).part = i /\ ItemAt(order, p).part = Parts(e)
        BY <2>6, <3>2, <3>3
      <4>2. CASE i = Parts(e)
        <5>1. ItemAt(order, q) = ItemAt(order, p)
          BY <2>6, <3>2, <3>3, <4>2
        <5> QED
          BY <5>1, MergedInOrder
      <4>3. CASE i # Parts(e)
        <5>1. i < Parts(e)
          BY <2>3, <4>3
        <5>2. PieceBefore(ItemAt(order, q), ItemAt(order, p))
          BY <4>1, <5>1 DEF PieceBefore
        <5> QED
          BY <4>1, <5>2, MergedInOrder
      <4> QED
        BY <4>2, <4>3
    <3> QED
      BY <3>2, <3>4
  <2>8. ItemAt(order, p).event = e
    BY <2>6
  <2>9. p \in RestoreReplay(order)
    BY <2>7, <2>8 DEF RestoreReplay
  <2> QED
    BY <2>8, <2>9
<1>5. \A e : e \in returned <=> e \in {f \in recorded : Whole(f, stored)}
  BY <1>3, <1>4
<1> HIDE DEF returned, recorded
<1>6. returned = {e \in recorded : Whole(e, stored)}
  BY <1>5
<1> QED
  BY <1>6 DEF returned, recorded, stored

\* They return in the order of time, and those of a tab in the order they happened.
LEMMA EventsReturnInOrder ==
  ASSUME RecorderInv, NEW visit, NEW order \in Orders(Replay(visit)),
         NEW p \in RestoreReplay(order), NEW q \in RestoreReplay(order),
         p # q, MergedBefore(order, p, q)
  PROVE  LET e == ItemAt(order, p).event
             f == ItemAt(order, q).event
         IN e.at <= f.at /\ (e.tab = f.tab => e.n < f.n)
<1> DEFINE x == ItemAt(order, p)
           y == ItemAt(order, q)
<1>1. p \in Places(order) /\ q \in Places(order)
  BY DEF RestoreReplay
<1>2. /\ x \in Pieces /\ y \in Pieces
      /\ x.event.at \in Nat /\ y.event.at \in Nat /\ x.event.n \in Nat /\ y.event.n \in Nat
  <2>1. x \in Pieces /\ y \in Pieces
    BY <1>1, PlaceType, RowPieces
  <2> HIDE DEF x, y
  <2> QED
    BY <2>1 DEF Pieces, Events
<1>3. x.event.at <= y.event.at
  <2>1. x.event.at < y.event.at \/ x.event.at = y.event.at
    BY DEF MergedBefore
  <2> HIDE DEF x, y
  <2> QED
    BY <1>2, <2>1
<1>4. ASSUME x.event.tab = y.event.tab, ~(x.event.n < y.event.n)
      PROVE  FALSE
  <2>1. PieceBefore(x, y)
    BY <1>1, <1>4, MergedInOrder
  <2>2. x.event.n = y.event.n /\ x.part < y.part
    BY <1>4, <2>1 DEF PieceBefore
  <2>3. /\ x.event \in Range(emitted[x.event.tab]) /\ x.event.tab \in Tabs
        /\ y.event \in Range(emitted[y.event.tab])
        /\ y.part \in 1..Parts(y.event) /\ y = [event |-> y.event, part |-> y.part]
        /\ y.event \in Events
    <3>1. order[p[1]] \in session_replay /\ x \in Range(order[p[1]].events)
      BY <1>1, PlaceType
    <3>2. order[q[1]] \in session_replay /\ y \in Range(order[q[1]].events)
      BY <1>1, PlaceType
    <3> HIDE DEF x, y
    <3> QED
      BY <3>1, <3>2, RowPieces
  <2>4. x.event = y.event
    <3> HIDE DEF x, y
    <3> QED
      BY <1>4, <2>2, <2>3, EmittedOrder
  <2>5. y \in Range(Fragments(x.event))
    <3> HIDE DEF x, y
    <3> QED
      BY <2>3, <2>4, PartsType
  <2>6. PICK r \in Places(order) :
          y = ItemAt(order, r) /\ (r = p \/ MergedBefore(order, r, p))
    BY <2>5 DEF RestoreReplay
  <2>7. r = q
    BY <1>1, <2>6, MergedInOrder
  <2>8. MergedBefore(order, q, p)
    BY <2>6, <2>7
  <2>9. PieceBefore(y, x)
    BY <1>1, <1>4, <2>8, MergedInOrder
  <2> HIDE DEF x, y
  <2> QED
    BY <1>2, <2>1, <2>9, PieceAsymmetric
<1> QED
  BY <1>3, <1>4

-----------------------------------------------------------------------------
(* Counting a replay *)

\* The first pieces among the items of a row.
FirstPieces(r) == {k \in DOMAIN r.events : r.events[k].part = 1}

\* Two first pieces of an event are one, in one row.
LEMMA FirstPieceOnce ==
  ASSUME RecorderInv, NEW r \in session_replay, NEW s \in session_replay,
         NEW k \in FirstPieces(r), NEW l \in FirstPieces(s),
         r.events[k].event = s.events[l].event
  PROVE  r = s /\ k = l
<1> DEFINE x == r.events[k]
           y == s.events[l]
<1>1. /\ k \in DOMAIN r.events /\ l \in DOMAIN s.events /\ x.part = 1 /\ y.part = 1
      /\ x \in Range(r.events) /\ y \in Range(s.events)
  BY DEF FirstPieces, Range
<1>2. /\ DOMAIN r.events = 1..Len(r.events) /\ DOMAIN s.events = 1..Len(s.events)
      /\ Rising(r.events) /\ r.chunk_index \in Nat /\ s.chunk_index \in Nat
  BY RowOrder, LenProperties
<1> HIDE DEF x, y
<1>3. x \in Pieces /\ x = [event |-> x.event, part |-> x.part] /\ x.event.tab = r.tab
  BY <1>1, RowPieces
<1>4. y \in Pieces /\ y = [event |-> y.event, part |-> y.part] /\ y.event.tab = s.tab
  BY <1>1, RowPieces
<1>5. x = y /\ r.tab = s.tab
  BY <1>1, <1>3, <1>4 DEF x, y
<1>6. ~PieceBefore(x, y) /\ ~PieceBefore(y, x)
  BY <1>3, <1>5, PieceIrreflexive
<1>7. ~(r.chunk_index < s.chunk_index) /\ ~(s.chunk_index < r.chunk_index)
  BY <1>1, <1>5, <1>6, RowOrder DEF Ahead
<1>8. r = s
  <2>1. r.chunk_index = s.chunk_index
    BY <1>2, <1>7
  <2> QED
    BY <1>5, <2>1, RowOrder
<1>9. ~(k < l) /\ ~(l < k)
  BY <1>1, <1>2, <1>6, <1>8 DEF Rising, x, y
<1>10. k \in Nat /\ l \in Nat
  BY <1>1, <1>2
<1> QED
  BY <1>8, <1>9, <1>10

LEMMA CountIsHonest ==
  ASSUME RecorderInv, NEW visit
  PROVE  CountHonest(visit)
<1> DEFINE rows == Replay(visit)
           stored == ItemsOf({r.events : r \in rows})
           begun == {i.event : i \in {i \in stored : i.part = 1}}
           whole == {i.event : i \in {i \in stored : Whole(i.event, stored)}}
           counted == UNION {{<<r, i>> : i \in 1..r.event_count} : r \in rows}
           nth == [r \in rows |-> CHOOSE h : h \in Bijection(1..r.event_count, FirstPieces(r))]
           name == [c \in counted |-> c[1].events[nth[c[1]][c[2]]].event]
<1>1. rows \subseteq session_replay /\ IsFiniteSet(rows)
  BY ReplayRows
<1> HIDE DEF rows
<1>2. ASSUME NEW r \in rows
      PROVE  /\ r.event_count \in Nat /\ IsFiniteSet(DOMAIN r.events)
             /\ \E h : h \in Bijection(1..r.event_count, FirstPieces(r))
  <2>1. r.events \in Seq(Pieces) /\ r.event_count = EventCount(r.events)
    BY <1>1, RowOrder
  <2>2. IsFiniteSet(DOMAIN r.events)
    BY <2>1, LenProperties, FS_Interval
  <2>3. FirstPieces(r) \in SUBSET (DOMAIN r.events)
    BY DEF FirstPieces
  <2>4. IsFiniteSet(FirstPieces(r))
    BY <2>2, <2>3, FS_Subset
  <2>5. r.event_count = Cardinality(FirstPieces(r))
    BY <2>1 DEF EventCount, FirstPieces
  <2> QED
    BY <2>2, <2>4, <2>5, FS_CardinalityType DEF ExistsBijection
<1>3. \A r \in rows : nth[r] \in Bijection(1..r.event_count, FirstPieces(r))
  <2> TAKE r \in rows
  <2>1. nth[r] = CHOOSE h : h \in Bijection(1..r.event_count, FirstPieces(r))
    OBVIOUS
  <2> QED
    BY <1>2, <2>1
<1> HIDE DEF nth
<1>4. ASSUME NEW r \in rows
      PROVE  /\ nth[r] \in [1..r.event_count -> FirstPieces(r)]
             /\ \A i, j \in 1..r.event_count : nth[r][i] = nth[r][j] => i = j
             /\ \A k \in FirstPieces(r) : \E i \in 1..r.event_count : nth[r][i] = k
  BY <1>3 DEF Bijection, Injection, Surjection, IsInjective
<1>5. \A c \in counted : c[1] \in rows /\ c[2] \in 1..c[1].event_count /\ c = <<c[1], c[2]>>
  OBVIOUS
<1>6. \A r \in rows : \A i \in 1..r.event_count : <<r, i>> \in counted
  OBVIOUS
<1> HIDE DEF counted
<1>7. \A r \in rows : \A k \in DOMAIN r.events : r.events[k] \in stored
  BY DEF ItemsOf, Range
<1>8. \A x \in stored : \E r \in rows : \E k \in DOMAIN r.events : x = r.events[k]
  <2> TAKE x \in stored
  <2>1. PICK r \in rows : x \in Range(r.events)
    BY DEF ItemsOf
  <2> QED
    BY <2>1 DEF Range
<1>9. IsFiniteSet(stored)
  <2> DEFINE f == [r \in rows |-> Range(r.events)]
             ranges == {Range(r.events) : r \in rows}
  <2>1. IsFiniteSet(ranges)
    <3>1. f \in Surjection(rows, ranges)
      BY DEF Surjection
    <3> QED
      BY <1>1, <3>1, FS_Surjection
  <2>2. ASSUME NEW s \in ranges PROVE IsFiniteSet(s)
    <3>1. PICK r \in rows : s = Range(r.events)
      OBVIOUS
    <3>2. r.events \in Surjection(DOMAIN r.events, s)
      <4>1. r.events \in [DOMAIN r.events -> s]
        <5>1. r.events \in Seq(Pieces)
          BY <1>1, RowOrder
        <5>2. r.events = [k \in DOMAIN r.events |-> r.events[k]]
          BY <5>1, LenProperties
        <5> QED
          BY <3>1, <5>2 DEF Range
      <4> QED
        BY <3>1, <4>1 DEF Surjection, Range
    <3> QED
      BY <1>2, <3>2, FS_Surjection
  <2> HIDE DEF ranges
  <2>3. IsFiniteSet(UNION ranges)
    BY <2>1, <2>2, FS_UNION
  <2>4. stored = UNION ranges
    BY DEF ItemsOf, ranges
  <2> QED
    BY <2>3, <2>4
<1> HIDE DEF stored
<1>10. \A c \in counted : /\ nth[c[1]][c[2]] \in FirstPieces(c[1])
                          /\ name[c] = c[1].events[nth[c[1]][c[2]]].event
  <2> TAKE c \in counted
  <2>1. c[1] \in rows /\ c[2] \in 1..c[1].event_count
    BY <1>5
  <2>2. nth[c[1]] \in [1..c[1].event_count -> FirstPieces(c[1])]
    BY <1>4, <2>1
  <2>3. nth[c[1]][c[2]] \in FirstPieces(c[1])
    BY <2>1, <2>2
  <2>4. name[c] = c[1].events[nth[c[1]][c[2]]].event
    OBVIOUS
  <2> QED
    BY <2>3, <2>4
<1> HIDE DEF name
<1>11. name \in Bijection(counted, begun)
  <2>1. ASSUME NEW c \in counted PROVE name[c] \in begun
    <3>1. nth[c[1]][c[2]] \in DOMAIN c[1].events /\ c[1].events[nth[c[1]][c[2]]].part = 1
      BY <1>10 DEF FirstPieces
    <3>2. c[1].events[nth[c[1]][c[2]]] \in stored
      BY <1>5, <1>7, <3>1
    <3> QED
      BY <1>10, <3>1, <3>2
  <2>2. ASSUME NEW c \in counted, NEW d \in counted, name[c] = name[d]
        PROVE  c = d
    <3>1. /\ nth[c[1]][c[2]] \in FirstPieces(c[1]) /\ nth[d[1]][d[2]] \in FirstPieces(d[1])
          /\ c[1].events[nth[c[1]][c[2]]].event = d[1].events[nth[d[1]][d[2]]].event
          /\ c[1] \in session_replay /\ d[1] \in session_replay
      BY <1>1, <1>5, <1>10, <2>2
    <3>2. c[1] = d[1] /\ nth[c[1]][c[2]] = nth[d[1]][d[2]]
      <4> DEFINE r == c[1]
                 s == d[1]
                 k == nth[c[1]][c[2]]
                 l == nth[d[1]][d[2]]
      <4>1. /\ r \in session_replay /\ s \in session_replay
            /\ k \in FirstPieces(r) /\ l \in FirstPieces(s)
            /\ r.events[k].event = s.events[l].event
        BY <3>1
      <4> HIDE DEF r, s, k, l
      <4>2. r = s /\ k = l
        BY <4>1, FirstPieceOnce
      <4> QED
        BY <4>2 DEF r, s, k, l
    <3>3. c[2] = d[2]
      BY <1>4, <1>5, <3>2
    <3> QED
      BY <1>5, <3>2, <3>3
  <2>3. ASSUME NEW e \in begun PROVE \E c \in counted : name[c] = e
    <3>1. PICK x \in stored : x.part = 1 /\ e = x.event
      OBVIOUS
    <3>2. PICK r \in rows : \E k \in DOMAIN r.events : x = r.events[k]
      BY <1>8
    <3>3. PICK k \in DOMAIN r.events : x = r.events[k]
      BY <3>2
    <3>4. k \in FirstPieces(r)
      BY <3>1, <3>3 DEF FirstPieces
    <3>5. PICK i \in 1..r.event_count : nth[r][i] = k
      BY <1>4, <3>4
    <3>6. <<r, i>> \in counted /\ name[<<r, i>>] = e
      BY <1>6, <1>10, <3>1, <3>3, <3>5
    <3> QED
      BY <3>6
  <2>4. name = [c \in counted |-> name[c]]
    BY DEF name
  <2> HIDE DEF begun
  <2> QED
    BY <2>1, <2>2, <2>3, <2>4 DEF Bijection, Injection, Surjection, IsInjective
<1>12. IsFiniteSet(begun)
  <2> DEFINE firsts == {i \in stored : i.part = 1}
             f == [i \in firsts |-> i.event]
  <2>1. IsFiniteSet(firsts)
    BY <1>9, FS_Subset
  <2>2. f \in Surjection(firsts, begun)
    BY DEF Surjection
  <2> HIDE DEF firsts, f, begun
  <2> QED
    BY <2>1, <2>2, FS_Surjection
<1>13. Cardinality(counted) = Cardinality(begun)
  <2>1. name \in Injection(counted, begun)
    BY <1>11 DEF Bijection
  <2>2. IsFiniteSet(counted)
    BY <1>12, <2>1, FS_Injection
  <2>3. ExistsBijection(counted, begun)
    BY <1>11 DEF ExistsBijection
  <2> QED
    BY <2>2, <2>3, FS_Bijection
<1>14. whole \subseteq begun
  <2> SUFFICES ASSUME NEW i \in stored, Whole(i.event, stored) PROVE i.event \in begun
    OBVIOUS
  <2>1. PICK r \in rows : \E k \in DOMAIN r.events : i = r.events[k]
    BY <1>8
  <2>2. i \in Range(r.events) /\ r \in session_replay
    BY <1>1, <2>1 DEF Range
  <2>3. i.event \in Events
    BY <2>2, RowPieces
  <2>4. [event |-> i.event, part |-> 1] \in Range(Fragments(i.event))
    <3>1. 1 \in 1..Parts(i.event)
      BY <2>3, PartsType
    <3> QED
      BY <2>3, <3>1, PartsType
  <2>5. [event |-> i.event, part |-> 1] \in stored
    BY <2>4 DEF Whole
  <2>6. [event |-> i.event, part |-> 1].event \in begun
    BY <2>5
  <2> QED
    BY <2>6
<1> HIDE DEF begun, whole
<1>15. Cardinality(begun) = Cardinality(whole) + Cardinality(begun \ whole)
  <2>1. /\ IsFiniteSet(begun \ whole)
        /\ Cardinality(begun \ whole) = Cardinality(begun) - Cardinality(begun \cap whole)
    BY <1>12, FS_Difference
  <2>2. begun \cap whole = whole
    BY <1>14
  <2>3. Cardinality(begun) \in Nat /\ IsFiniteSet(whole)
    BY <1>12, <1>14, FS_CardinalityType, FS_Subset
  <2>4. Cardinality(whole) \in Nat
    BY <2>3, FS_CardinalityType
  <2>5. Cardinality(begun \ whole) = Cardinality(begun) - Cardinality(whole)
    BY <2>1, <2>2
  <2> QED
    BY <2>3, <2>4, <2>5
<1> QED
  BY <1>13, <1>15 DEF CountHonest, counted, begun, whole, stored, rows

LEMMA ReplayFaithfulHolds == RecorderInv => ReplayFaithful
<1> SUFFICES ASSUME RecorderInv, NEW visit \in Visits
             PROVE  LET rows == Replay(visit)
                        stored == ItemsOf({r.events : r \in rows})
                    IN /\ CountHonest(visit)
                       /\ \A order \in Orders(rows) :
                            /\ {ItemAt(order, p).event : p \in RestoreReplay(order)}
                               = {e \in UNION {Range(emitted[t]) : t \in Tabs} : Whole(e, stored)}
                            /\ \A p, q \in RestoreReplay(order) :
                                 LET e == ItemAt(order, p).event
                                     f == ItemAt(order, q).event
                                 IN p # q /\ MergedBefore(order, p, q) =>
                                      e.at <= f.at /\ (e.tab = f.tab => e.n < f.n)
  BY DEF ReplayFaithful
<1>1. CountHonest(visit)
  BY CountIsHonest
<1>2. ASSUME NEW order \in Orders(Replay(visit))
      PROVE  {ItemAt(order, p).event : p \in RestoreReplay(order)}
             = {e \in UNION {Range(emitted[t]) : t \in Tabs} :
                  Whole(e, ItemsOf({r.events : r \in Replay(visit)}))}
  BY WholeEventsReturn
<1>3. ASSUME NEW order \in Orders(Replay(visit)),
             NEW p \in RestoreReplay(order), NEW q \in RestoreReplay(order),
             p # q, MergedBefore(order, p, q)
      PROVE  LET e == ItemAt(order, p).event
                 f == ItemAt(order, q).event
             IN e.at <= f.at /\ (e.tab = f.tab => e.n < f.n)
  BY <1>3, EventsReturnInOrder
<1> QED
  BY <1>1, <1>2, <1>3

\* The replay of a visit has of every tab exactly the events that are stored
\* whole, in the order they happened and in the order of time, and the list of
\* replays counts them: whatever the sizes of the events, however the chunks
\* arrived and whichever are lost (recorder/index.js, getReplayChunkIndex and
\* sendReplayEvents; replays/[replayId]/route.ts, mergeReplayEvents;
\* lib/replay.ts, restoreReplayEventFragments).
THEOREM ReplaysAreFaithful == RecorderSpec => []ReplayFaithful
BY RecorderInvHolds, ReplayFaithfulHolds, PTL

-----------------------------------------------------------------------------
(* The inductive invariant of Heatmap *)

Measurements == [stay : Nat, url : Urls, pct : Depths]

At(pct) == [stay |-> stay, url |-> scrollUrl, pct |-> pct]

HeatmapTypeOK ==
  /\ href \in Urls /\ scrollUrl = href
  /\ depth \in Depths
  /\ maxScrollPct \in Depths \cup {0} /\ lastFlushedScrollPct \in Depths \cup {0}
  /\ heatmapBuffer \in Seq(Measurements)
  /\ heatmap_event \subseteq Measurements /\ seen \subseteq Measurements
  /\ stay \in Nat
  /\ losses \in BOOLEAN

\* Nothing was measured on a stay to come.
SeenSoFar == \A s \in seen : s.stay <= stay /\ (s.stay = stay => s.url = href)

\* The last report of this stay is its deepest one.
LastReported ==
  losses \/ lastFlushedScrollPct = 0 \/ At(lastFlushedScrollPct) \in Reported

\* A depth that is kept is one of this stay, not deeper than the last report, or
\* one of the stay before, while nothing has been reported of this one.
KeptExplained ==
  maxScrollPct > 0 =>
    \/ maxScrollPct <= lastFlushedScrollPct /\ At(maxScrollPct) \in seen
    \/ /\ lastFlushedScrollPct = 0
       /\ \E s \in seen : s.stay = stay - 1 /\ s.pct = maxScrollPct

HeatmapInv == HeatmapTypeOK /\ SeenSoFar /\ LastReported /\ KeptExplained /\ ScrollHonest

-----------------------------------------------------------------------------
(* Reporting a depth *)

LEMMA DepthRange == \A d \in Depths : d \in Nat /\ d > 0
BY HeatmapAssumption

\* Reports are kept, stored or lost; nothing else gets into the table.
LEMMA QueueEffect ==
  ASSUME HeatmapTypeOK, NEW reports \in Seq(Measurements), NEW always \in BOOLEAN,
         Queue(reports, always)
  PROVE  /\ heatmapBuffer' \in Seq(Measurements)
         /\ heatmap_event' \subseteq Measurements
         /\ losses' \in BOOLEAN /\ (losses => losses')
         /\ Reported' \subseteq Reported \cup Range(reports)
         /\ losses' \/ Reported \cup Range(reports) \subseteq Reported'
<1> DEFINE buffer == heatmapBuffer \o reports
<1>1. buffer \in Seq(Measurements)
  BY ConcatProperties DEF HeatmapTypeOK
<1>2. Range(buffer) = Range(heatmapBuffer) \cup Range(reports)
  BY RangeConcatenation DEF HeatmapTypeOK
<1>3. Range(buffer) \subseteq Measurements
  BY <1>1, ElementOfSeq, LenProperties DEF Range
<1>4. /\ Reported = heatmap_event \cup Range(heatmapBuffer)
      /\ Reported' = heatmap_event' \cup Range(heatmapBuffer')
  BY DEF Reported, Range
<1>5. \/ /\ heatmapBuffer' = <<>>
         /\ \/ heatmap_event' = heatmap_event \cup Range(buffer) /\ losses' = losses
            \/ heatmap_event' = heatmap_event /\ losses' = (losses \/ buffer # <<>>)
      \/ heatmapBuffer' = buffer /\ UNCHANGED <<heatmap_event, losses>>
  BY DEF Queue, Flush, Range
<1>6. Range(<<>>) = {} /\ <<>> \in Seq(Measurements)
  BY DEF Range
<1> HIDE DEF buffer
<1>7. CASE heatmapBuffer' = buffer /\ UNCHANGED <<heatmap_event, losses>>
  BY <1>1, <1>2, <1>4, <1>7 DEF HeatmapTypeOK
<1>8. CASE heatmapBuffer' = <<>> /\ heatmap_event' = heatmap_event \cup Range(buffer)
           /\ losses' = losses
  BY <1>2, <1>3, <1>4, <1>6, <1>8 DEF HeatmapTypeOK
<1>9. CASE heatmapBuffer' = <<>> /\ heatmap_event' = heatmap_event
           /\ losses' = (losses \/ buffer # <<>>)
  BY <1>2, <1>4, <1>6, <1>9 DEF HeatmapTypeOK
<1> QED
  BY <1>5, <1>7, <1>8, <1>9

\* flushScroll reports the deepest point, or has nothing to report.
LEMMA ReportsType ==
  ASSUME HeatmapTypeOK, NEW max \in Depths \cup {0}
  PROVE  /\ Reports(max) \in Seq(Measurements)
         /\ Range(Reports(max)) = IF Due(max) THEN {At(max)} ELSE {}
<1>1. CASE Due(max)
  <2>1. max \in Depths
    BY <1>1 DEF Due
  <2>2. At(max) \in Measurements
    BY <2>1 DEF At, Measurements, HeatmapTypeOK
  <2>3. Reports(max) = <<At(max)>>
    BY <1>1 DEF Reports, At
  <2> HIDE DEF At
  <2>4. Range(<<At(max)>>) = {At(max)}
    BY DEF Range
  <2> QED
    BY <1>1, <2>2, <2>3, <2>4
<1>2. CASE ~Due(max)
  BY <1>2 DEF Reports, Range
<1> QED
  BY <1>1, <1>2

\* What a flush of the deepest point max leaves, while measurements are only
\* added, keeps the reports honest.
LEMMA FlushHonest ==
  ASSUME HeatmapInv, NEW max \in Depths \cup {0}, NEW always \in BOOLEAN,
         Queue(Reports(max), always),
         seen \subseteq seen', seen' \subseteq Measurements,
         Due(max) => \E s \in seen' : s.pct = max /\ (s = At(max) \/ s.stay = stay - 1),
         \A s \in seen' \ seen : s.stay = stay /\ s.url = scrollUrl /\ s.pct <= max
  PROVE  /\ ScrollHonest'
         /\ heatmapBuffer' \in Seq(Measurements) /\ heatmap_event' \subseteq Measurements
         /\ losses' \in BOOLEAN
         /\ losses' \/ Flushed(max) = 0 \/ At(Flushed(max)) \in Reported'
<1> DEFINE new == IF Due(max) THEN {At(max)} ELSE {}
<1>1. /\ heatmapBuffer' \in Seq(Measurements) /\ heatmap_event' \subseteq Measurements
      /\ losses' \in BOOLEAN /\ (losses => losses')
      /\ Reported' \subseteq Reported \cup new
      /\ losses' \/ Reported \cup new \subseteq Reported'
  BY QueueEffect, ReportsType DEF HeatmapInv
<1>2. At(max).pct = max /\ At(max).stay = stay /\ At(max).url = scrollUrl
  BY DEF At
<1>3. DepthExplained'
  <2> SUFFICES ASSUME NEW r \in Reported'
               PROVE  \E s \in seen' : s.pct = r.pct /\ (s = r \/ s.stay = r.stay - 1)
    BY DEF DepthExplained
  <2>1. CASE r \in Reported
    BY <2>1 DEF HeatmapInv, ScrollHonest, DepthExplained
  <2>2. CASE r \notin Reported
    <3>1. Due(max) /\ r = At(max)
      BY <1>1, <2>2
    <3> QED
      BY <1>2, <3>1
  <2> QED
    BY <2>1, <2>2
<1>4. Flushed(max) \in Depths \cup {0} /\ (losses' \/ Flushed(max) = 0 \/ At(Flushed(max)) \in Reported')
  <2>1. CASE Due(max)
    BY <1>1, <2>1 DEF Flushed
  <2>2. CASE ~Due(max)
    BY <1>1, <2>2 DEF Flushed, HeatmapInv, LastReported, HeatmapTypeOK
  <2> QED
    BY <2>1, <2>2
<1>5. max <= Flushed(max) \/ max = 0
  BY DepthRange DEF Flushed, Due, HeatmapInv, HeatmapTypeOK
<1>6. DepthReported'
  <2> SUFFICES ASSUME ~losses', NEW s \in seen'
               PROVE  \E r \in Reported' : r.stay = s.stay /\ r.url = s.url /\ r.pct >= s.pct
    BY DEF DepthReported
  <2>1. CASE s \in seen
    BY <1>1, <2>1 DEF HeatmapInv, ScrollHonest, DepthReported
  <2>2. CASE s \notin seen
    <3>1. s.stay = stay /\ s.url = scrollUrl /\ s.pct <= max /\ s.pct \in Depths
      BY <2>2 DEF Measurements
    <3>2. max # 0 /\ Flushed(max) # 0
      BY <1>4, <1>5, <3>1, DepthRange
    <3> DEFINE r == At(Flushed(max))
    <3>3. r \in Reported'
      BY <1>4, <3>2
    <3>4. r.stay = stay /\ r.url = scrollUrl /\ r.pct = Flushed(max)
      BY DEF At
    <3>5. r.pct >= s.pct
      BY <1>4, <1>5, <3>1, <3>2, <3>4, DepthRange
    <3> QED
      BY <3>1, <3>3, <3>4, <3>5
  <2> QED
    BY <2>1, <2>2
<1> QED
  BY <1>1, <1>3, <1>4, <1>6 DEF ScrollHonest

-----------------------------------------------------------------------------
(* The steps of Heatmap keep the invariant *)

LEMMA HeatmapInitInv == HeatmapInit => HeatmapInv
<1> SUFFICES ASSUME HeatmapInit PROVE HeatmapInv
  OBVIOUS
<1> DEFINE m == [stay |-> 0, url |-> href, pct |-> depth]
<1>1. m \in Measurements /\ m.stay = 0 /\ m.url = href /\ m.pct = depth
  BY DEF HeatmapInit, Measurements
<1>2. At(depth) = m
  BY DEF HeatmapInit, At
<1>3. heatmapBuffer = <<m>> /\ seen = {m} /\ heatmap_event = {} /\ losses = FALSE
  BY DEF HeatmapInit
<1> HIDE DEF m
<1>4. heatmapBuffer \in Seq(Measurements) /\ Reported = {m}
  BY <1>1, <1>3 DEF Reported
<1>5. HeatmapTypeOK
  BY <1>1, <1>3, <1>4 DEF HeatmapInit, HeatmapTypeOK
<1>6. SeenSoFar
  BY <1>1, <1>3 DEF HeatmapInit, SeenSoFar
<1>7. LastReported
  BY <1>2, <1>4 DEF HeatmapInit, LastReported
<1>8. KeptExplained
  BY DEF HeatmapInit, KeptExplained
<1>9. ScrollHonest
  <2>1. m.pct >= m.pct
    BY <1>1, DepthRange DEF HeatmapInit
  <2> QED
    BY <1>3, <1>4, <2>1 DEF ScrollHonest, DepthExplained, DepthReported
<1> QED
  BY <1>5, <1>6, <1>7, <1>8, <1>9 DEF HeatmapInv

\* A depth that is due is one of the stay before.
LEMMA KeptDue ==
  ASSUME HeatmapInv, Due(maxScrollPct)
  PROVE  /\ maxScrollPct \in Depths /\ lastFlushedScrollPct = 0
         /\ \E s \in seen : s.stay = stay - 1 /\ s.pct = maxScrollPct
<1>1. maxScrollPct \in Nat /\ lastFlushedScrollPct \in Nat
  BY DepthRange DEF HeatmapInv, HeatmapTypeOK
<1> QED
  BY <1>1 DEF Due, HeatmapInv, HeatmapTypeOK, KeptExplained

\* The timer measures the page, and reports it if it is deeper than before.
LEMMA TimerInv ==
  ASSUME HeatmapInv, ScrollTimer
  PROVE  HeatmapInv'
<1> DEFINE max == Measured(depth)
           m == [stay |-> stay, url |-> href, pct |-> depth]
<1>1. /\ depth \in Depths /\ maxScrollPct \in Depths \cup {0} /\ scrollUrl = href
      /\ href \in Urls /\ stay \in Nat /\ lastFlushedScrollPct \in Depths \cup {0}
      /\ seen \subseteq Measurements
  BY DEF HeatmapInv, HeatmapTypeOK
<1>2. /\ max \in {depth, maxScrollPct} /\ max \in Depths
      /\ depth <= max /\ maxScrollPct <= max /\ max > 0
  BY <1>1, DepthRange DEF Measured
<1>3. /\ Deepest(max) /\ lastFlushedScrollPct' = Flushed(max) /\ Queue(Reports(max), FALSE)
      /\ seen' = seen \cup {m}
      /\ UNCHANGED <<href, depth, scrollUrl, inSession, stay, moves>>
  BY DEF ScrollTimer, Seen
<1>4. m \in Measurements /\ m = At(depth) /\ m.pct = depth /\ m.stay = stay /\ m.url = scrollUrl
  BY <1>1 DEF Measurements, At
<1> HIDE DEF max, m
<1>5. Due(max) => \E s \in seen' : s.pct = max /\ (s = At(max) \/ s.stay = stay - 1)
  <2>1. CASE max = depth
    BY <1>3, <1>4, <2>1
  <2>2. CASE max = maxScrollPct
    BY <1>3, <2>2, KeptDue
  <2> QED
    BY <1>2, <2>1, <2>2
<1>6. /\ seen \subseteq seen' /\ seen' \subseteq Measurements
      /\ \A s \in seen' \ seen : s.stay = stay /\ s.url = scrollUrl /\ s.pct <= max
  BY <1>1, <1>2, <1>3, <1>4
<1>7. /\ ScrollHonest'
      /\ heatmapBuffer' \in Seq(Measurements) /\ heatmap_event' \subseteq Measurements
      /\ losses' \in BOOLEAN
      /\ losses' \/ Flushed(max) = 0 \/ At(Flushed(max)) \in Reported'
  BY <1>2, <1>3, <1>5, <1>6, FlushHonest
<1>8. maxScrollPct' \in {0, max} /\ (maxScrollPct' # 0 => ~Due(max))
      /\ lastFlushedScrollPct' \in Depths \cup {0}
  BY <1>1, <1>2, <1>3 DEF Deepest, Flushed
<1>9. HeatmapTypeOK'
  BY <1>1, <1>2, <1>3, <1>6, <1>7, <1>8 DEF HeatmapTypeOK
<1>10. SeenSoFar'
  BY <1>1, <1>3, <1>4 DEF HeatmapInv, SeenSoFar
<1>11. LastReported'
  BY <1>3, <1>7 DEF LastReported, At
<1>12. KeptExplained'
  <2> SUFFICES ASSUME ~Due(max), maxScrollPct' = max
               PROVE  maxScrollPct' <= lastFlushedScrollPct' /\ At(maxScrollPct)' \in seen'
    BY <1>8 DEF KeptExplained
  <2>1. max <= lastFlushedScrollPct /\ lastFlushedScrollPct' = lastFlushedScrollPct
    BY <1>1, <1>2, <1>3, DepthRange DEF Due, Flushed
  <2>2. lastFlushedScrollPct # 0
    BY <1>2, <2>1, DepthRange
  <2>3. At(max) \in seen'
    <3>1. CASE max = depth
      BY <1>3, <1>4, <3>1
    <3>2. CASE max = maxScrollPct
      BY <1>2, <1>3, <2>2, <3>2 DEF HeatmapInv, KeptExplained
    <3> QED
      BY <1>2, <3>1, <3>2
  <2> QED
    BY <1>3, <2>1, <2>3 DEF At
<1> QED
  BY <1>7, <1>9, <1>10, <1>11, <1>12 DEF HeatmapInv

\* The page is hidden: the deepest point is reported, unless it was.
LEMMA HideInv ==
  ASSUME HeatmapInv, Hide
  PROVE  HeatmapInv'
<1> DEFINE max == maxScrollPct
<1>1. /\ max \in Depths \cup {0} /\ lastFlushedScrollPct \in Depths \cup {0}
      /\ seen \subseteq Measurements
  BY DEF HeatmapInv, HeatmapTypeOK
<1>2. /\ Deepest(max) /\ lastFlushedScrollPct' = Flushed(max) /\ Queue(Reports(max), TRUE)
      /\ UNCHANGED <<href, depth, scrollUrl, stay, seen>>
  BY DEF Hide
<1>3. Due(max) => \E s \in seen' : s.pct = max /\ (s = At(max) \/ s.stay = stay - 1)
  BY <1>2, KeptDue
<1>4. /\ ScrollHonest'
      /\ heatmapBuffer' \in Seq(Measurements) /\ heatmap_event' \subseteq Measurements
      /\ losses' \in BOOLEAN
      /\ losses' \/ Flushed(max) = 0 \/ At(Flushed(max)) \in Reported'
  BY <1>1, <1>2, <1>3, FlushHonest
<1>5. /\ maxScrollPct' = 0 \/ (~Due(max) /\ maxScrollPct' = max
                                 /\ lastFlushedScrollPct' = lastFlushedScrollPct)
      /\ lastFlushedScrollPct' \in Depths \cup {0}
  BY <1>1, <1>2 DEF Deepest, Flushed
<1>6. HeatmapTypeOK'
  BY <1>1, <1>2, <1>4, <1>5 DEF HeatmapInv, HeatmapTypeOK
<1>7. SeenSoFar'
  BY <1>2 DEF HeatmapInv, SeenSoFar
<1>8. LastReported'
  BY <1>2, <1>4 DEF LastReported, At
<1>9. KeptExplained'
  BY <1>2, <1>5 DEF HeatmapInv, KeptExplained, At
<1> QED
  BY <1>4, <1>6, <1>7, <1>8, <1>9 DEF HeatmapInv

\* The URL changes: what is kept of the old one is reported for it, if it is due,
\* or is kept for the next one.
LEMMA UrlInv ==
  ASSUME HeatmapInv, OnUrlChange
  PROVE  HeatmapInv'
<1> DEFINE max == maxScrollPct
<1>1. /\ max \in Depths \cup {0} /\ lastFlushedScrollPct \in Depths \cup {0}
      /\ seen \subseteq Measurements /\ stay \in Nat
  BY DEF HeatmapInv, HeatmapTypeOK
<1>2. /\ Deepest(max) /\ lastFlushedScrollPct' = 0 /\ Queue(Reports(max), FALSE)
      /\ stay' = stay + 1 /\ seen' = seen
      /\ href' \in Urls /\ scrollUrl' = href' /\ depth' \in Depths
  BY DEF OnUrlChange
<1>3. Due(max) => \E s \in seen' : s.pct = max /\ (s = At(max) \/ s.stay = stay - 1)
  BY <1>2, KeptDue
<1>4. /\ ScrollHonest'
      /\ heatmapBuffer' \in Seq(Measurements) /\ heatmap_event' \subseteq Measurements
      /\ losses' \in BOOLEAN
  BY <1>1, <1>2, <1>3, FlushHonest
<1>5. maxScrollPct' = 0 \/ (~Due(max) /\ maxScrollPct' = max)
  BY <1>2 DEF Deepest
<1>6. HeatmapTypeOK'
  BY <1>1, <1>2, <1>4, <1>5 DEF HeatmapTypeOK
<1>7. SeenSoFar'
  BY <1>1, <1>2 DEF HeatmapInv, SeenSoFar, Measurements
<1>8. LastReported'
  BY <1>2 DEF LastReported
<1>9. KeptExplained'
  <2> SUFFICES ASSUME ~Due(max), maxScrollPct' = max, max > 0
               PROVE  \E s \in seen : s.stay = stay /\ s.pct = max
    BY <1>1, <1>2, <1>5 DEF KeptExplained
  <2>1. max <= lastFlushedScrollPct /\ lastFlushedScrollPct # 0
    BY <1>1, DepthRange DEF Due
  <2>2. At(max) \in seen
    BY <2>1 DEF HeatmapInv, KeptExplained
  <2> QED
    BY <2>2 DEF At
<1> QED
  BY <1>4, <1>6, <1>7, <1>8, <1>9 DEF HeatmapInv

\* The timer of the buffer sends what there is.
LEMMA FlushInv ==
  ASSUME HeatmapInv, FlushHeatmap
  PROVE  HeatmapInv'
<1>1. /\ Queue(<<>>, TRUE)
      /\ UNCHANGED <<href, depth, scrollUrl, maxScrollPct, lastFlushedScrollPct, stay, seen>>
  BY DEF FlushHeatmap
<1>2. <<>> \in Seq(Measurements) /\ Range(<<>>) = {}
  BY DEF Range
<1>3. /\ heatmapBuffer' \in Seq(Measurements) /\ heatmap_event' \subseteq Measurements
      /\ losses' \in BOOLEAN /\ (losses => losses')
      /\ Reported' \subseteq Reported
      /\ losses' \/ Reported \subseteq Reported'
  BY <1>1, <1>2, QueueEffect DEF HeatmapInv
<1>4. HeatmapTypeOK' /\ SeenSoFar' /\ KeptExplained'
  BY <1>1, <1>3 DEF HeatmapInv, HeatmapTypeOK, SeenSoFar, KeptExplained, At
<1>5. LastReported'
  BY <1>1, <1>3 DEF HeatmapInv, LastReported, At
<1>6. ScrollHonest'
  BY <1>1, <1>3 DEF HeatmapInv, ScrollHonest, DepthExplained, DepthReported
<1> QED
  BY <1>4, <1>5, <1>6 DEF HeatmapInv

LEMMA HeatmapNextInv == HeatmapInv /\ [HeatmapNext]_heatmapVars => HeatmapInv'
<1> SUFFICES ASSUME HeatmapInv, [HeatmapNext]_heatmapVars PROVE HeatmapInv'
  OBVIOUS
<1>1. CASE OnScroll \/ SessionChange \/ UNCHANGED heatmapVars
  <2>1. /\ UNCHANGED <<href, scrollUrl, maxScrollPct, lastFlushedScrollPct, heatmapBuffer,
                       heatmap_event, stay, seen, losses>>
        /\ depth' \in Depths
    BY <1>1 DEF OnScroll, SessionChange, heatmapVars, HeatmapInv, HeatmapTypeOK
  <2>2. Reported' = Reported
    BY <2>1 DEF Reported
  <2> QED
    BY <2>1, <2>2 DEF HeatmapInv, HeatmapTypeOK, SeenSoFar, LastReported, KeptExplained, At, ScrollHonest,
                      DepthExplained, DepthReported
<1> QED
  BY <1>1, TimerInv, HideInv, UrlInv, FlushInv DEF HeatmapNext

\* However a visitor scrolls, changes the URL, hides the page, and whichever
\* reports are buffered or lost: a reported depth was measured on its URL or is
\* left over from the one just before, and every depth measured is covered by a
\* report for its URL, unless reports were lost (recorder/index.js, flushScroll,
\* onScroll, onUrlChange and the two flushes when the page goes).
THEOREM ScrollsAreHonest == HeatmapSpec => []ScrollHonest
<1>1. HeatmapInv => ScrollHonest
  BY DEF HeatmapInv
<1> QED
  BY <1>1, HeatmapInitInv, HeatmapNextInv, PTL DEF HeatmapSpec
=============================================================================
