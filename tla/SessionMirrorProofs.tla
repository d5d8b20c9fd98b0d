------------------------ MODULE SessionMirrorProofs ------------------------
(***************************************************************************)
(* Proofs about SessionMirror, for every length of the remote log, page    *)
(* size, number of lost channels and number of bootstraps.                 *)
(***************************************************************************)
EXTENDS SessionMirror, FiniteSetTheorems, SequenceTheorems, WellFoundedInduction, TLAPS

----------------------------------------------------------------------------
(* The inductive invariant *)

PageOf(a, b) == [t |-> "page", lo |-> a, hi |-> b, more |-> a > 0]
Lines == {Event(k) : k \in 0..MaxSeq} \cup {PageOf(a, b) : a, b \in 0..MaxSeq}

\* The number of events on a wire whose page, if any, is at position p, and
\* the place among them of the line at position i.
Events(w, p) == IF p = 0 THEN Len(w) ELSE Len(w) - 1
Place(p, i) == IF p # 0 /\ p < i THEN i - 1 ELSE i

\* The next event the mirror is to receive from a log of length l.
Due(w, l, p) == l - Events(w, p)

\* All lines but the page are the last events of the log, in order.
WireIs(w, l, p) ==
  /\ w \in Seq(Lines) /\ p \in 0..Len(w) /\ Events(w, p) <= l
  /\ p # 0 => w[p].t = "page"
  /\ \A i \in 1..Len(w) : i # p => w[i] = Event(Due(w, l, p) + Place(p, i) - 1)

\* The events tapped so far are the last ones received.
Tapped(buf, d) == Len(buf) <= d /\ buf = Run(d - Len(buf), d)

\* History covers the log up to n: what is tapped and what is on its way
\* follows it without a gap, and without an overlap unless there was a race.
Joins(buf, d, n, r) == d - Len(buf) <= n /\ (~r => d - Len(buf) = n)

\* The page at position p of the wire is the one asked for.
PageIs(w, p, n, hist) ==
  \E a, b \in 0..n : w[p] = PageOf(a, b) /\ a <= b /\ (a = b => a = 0) /\ hist = Run(b, n)

\* The bootstrap reads pages that end where those read before begin.
Paging(p, n) ==
  /\ Len(local) = seed
  /\ request = Newest => history = <<>> /\ p = 0 /\ (~raced => wire = <<>> /\ buffered = <<>>)
  /\ request # Newest => seed <= n /\ Joins(buffered, Due(wire, log, p), n, raced)
  /\ request \in Nat => p = 0 /\ seed < request /\ request <= n /\ history = Run(request, n)
  /\ request = NoRequest => p # 0 /\ PageIs(wire, p, n, history)

\* p is the position of the page on the wire, or 0; n is where the history that
\* is read, and then the local log, ends.
Shape(p, n) ==
  /\ WireIs(wire, log, p)
  /\ n \in 0..log
  /\ p # 0 => phase = "paging" /\ request = NoRequest
  /\ Len(local) <= log /\ local = Run(0, Len(local))
  /\ phase # "diverged" /\ (phase = "failed" => raced)
  /\ phase \in {"paging", "setup"} => Tapped(buffered, Due(wire, log, p))
  /\ phase = "paging" => Paging(p, n)
  /\ phase = "setup" => n = Len(local) /\ Joins(buffered, Due(wire, log, p), n, raced)
  /\ phase = "live" => n = Len(local) /\ Joins(<<>>, Due(wire, log, p), n, raced)

Shaped == \E p \in 0..Len(wire), n \in 0..log : Shape(p, n)

MirrorIInv == TypeOK /\ seed <= log /\ Shaped

----------------------------------------------------------------------------
(* Runs of events *)

\* A run is a sequence.
LEMMA RunFacts ==
  ASSUME NEW a \in Nat, NEW b \in Nat, a <= b
  PROVE  /\ Run(a, b) \in Seq(Nat) /\ Len(Run(a, b)) = b - a
         /\ \A i \in 1..(b - a) : Run(a, b)[i] = a + i - 1
<1>1. b - a \in Nat
  OBVIOUS
<1>2. Run(a, b) \in [1..(b - a) -> Nat]
  BY DEF Run
<1>3. \A i \in 1..(b - a) : Run(a, b)[i] = a + i - 1
  BY DEF Run
<1>4. Run(a, b) \in Seq(Nat)
  BY <1>1, <1>2
<1>5. Len(Run(a, b)) = b - a
  BY <1>1, <1>2, <1>4
<1>6. QED
  BY <1>3, <1>4, <1>5

\* What a run is made of.
LEMMA RunIs ==
  ASSUME NEW a \in Nat, NEW b \in Nat, a <= b, NEW s \in Seq(Nat), Len(s) = b - a,
         \A i \in 1..(b - a) : s[i] = a + i - 1
  PROVE  s = Run(a, b)
<1> DEFINE r == Run(a, b)
<1>1. r \in Seq(Nat) /\ Len(r) = b - a /\ \A i \in 1..(b - a) : r[i] = a + i - 1
  BY RunFacts
<1> HIDE DEF r
<1>2. Len(s) = Len(r) /\ \A i \in 1..Len(s) : s[i] = r[i]
  BY <1>1
<1>3. s = r
  BY <1>1, <1>2, SeqEqual
<1>4. QED
  BY <1>3 DEF r

\* A run has no event, one more event, or goes on in another run.
LEMMA RunEmpty ==
  ASSUME NEW a \in Nat
  PROVE  Run(a, a) = <<>>
BY RunFacts, EmptySeq

LEMMA RunCat ==
  ASSUME NEW a \in Nat, NEW b \in Nat, NEW c \in Nat, a <= b, b <= c
  PROVE  Run(a, b) \o Run(b, c) = Run(a, c)
<1>1. Run(a, b) \in Seq(Nat) /\ Run(b, c) \in Seq(Nat) /\ Len(Run(a, b)) = b - a /\ Len(Run(b, c)) = c - b
  BY RunFacts
<1> DEFINE s == Run(a, b) \o Run(b, c)
<1>2. /\ s \in Seq(Nat) /\ Len(s) = (b - a) + (c - b)
      /\ \A i \in 1..(b - a) + (c - b) :
           s[i] = IF i <= b - a THEN Run(a, b)[i] ELSE Run(b, c)[i - (b - a)]
  <2> DEFINE q == Run(a, b)
             t == Run(b, c)
  <2>1. q \in Seq(Nat) /\ t \in Seq(Nat) /\ Len(q) = b - a /\ Len(t) = c - b
    BY <1>1
  <2> HIDE DEF q, t
  <2>2. /\ q \o t \in Seq(Nat) /\ Len(q \o t) = Len(q) + Len(t)
        /\ \A i \in 1..Len(q) + Len(t) : (q \o t)[i] = IF i <= Len(q) THEN q[i] ELSE t[i - Len(q)]
    BY <2>1, ConcatProperties
  <2>3. s = q \o t
    BY DEF q, t
  <2> HIDE DEF s
  <2>4. /\ s \in Seq(Nat) /\ Len(s) = (b - a) + (c - b)
        /\ \A i \in 1..(b - a) + (c - b) : s[i] = IF i <= b - a THEN q[i] ELSE t[i - (b - a)]
    BY <2>1, <2>2, <2>3
  <2>5. QED
    BY <2>4 DEF q, t
<1> HIDE DEF s
<1>3. (b - a) + (c - b) = c - a /\ b - a \in Nat /\ c - b \in Nat /\ a <= c
  OBVIOUS
<1>4. ASSUME NEW i \in 1..(c - a) PROVE s[i] = a + i - 1
  <2>1. s[i] = IF i <= b - a THEN Run(a, b)[i] ELSE Run(b, c)[i - (b - a)]
    BY <1>2, <1>3
  <2>2. CASE i <= b - a
    <3>1. i \in 1..(b - a)
      BY <2>2
    <3>2. QED
      BY <2>1, <2>2, <3>1, RunFacts
  <2>3. CASE ~(i <= b - a)
    <3>1. i - (b - a) \in 1..(c - b)
      BY <2>3
    <3>2. Run(b, c)[i - (b - a)] = b + (i - (b - a)) - 1
      BY <3>1, RunFacts
    <3>3. b + (i - (b - a)) - 1 = a + i - 1
      OBVIOUS
    <3>4. QED
      BY <2>1, <2>3, <3>2, <3>3
  <2>4. QED
    BY <2>2, <2>3
<1>5. Len(s) = c - a
  BY <1>2, <1>3
<1>6. s = Run(a, c)
  BY <1>2, <1>3, <1>4, <1>5, RunIs
<1>7. QED
  BY <1>6 DEF s

LEMMA RunAppend ==
  ASSUME NEW a \in Nat, NEW b \in Nat, a <= b
  PROVE  Append(Run(a, b), b) = Run(a, b + 1)
<1>1. Run(a, b) \in Seq(Nat) /\ Len(Run(a, b)) = b - a
  BY RunFacts
<1> DEFINE s == Append(Run(a, b), b)
<1>2. /\ s \in Seq(Nat) /\ Len(s) = (b - a) + 1 /\ s[(b - a) + 1] = b
      /\ \A i \in 1..(b - a) : s[i] = Run(a, b)[i]
  BY <1>1, AppendProperties
<1> HIDE DEF s
<1>3. \A i \in 1..(b - a) : s[i] = a + i - 1
  BY <1>2, RunFacts
<1>4. Len(s) = (b + 1) - a /\ a <= b + 1 /\ \A i \in 1..((b + 1) - a) : s[i] = a + i - 1
  BY <1>2, <1>3
<1>5. s = Run(a, b + 1)
  BY <1>2, <1>4, RunIs
<1>6. QED
  BY <1>5 DEF s

\* The events of a run are those of a log that is as long.
LEMMA RunIn ==
  ASSUME NEW a \in Nat, NEW b \in Nat, a <= b, NEW m \in Nat, b <= m
  PROVE  Run(a, b) \in Seq(0..m)
<1>1. Run(a, b) \in [1..(b - a) -> 0..m]
  BY DEF Run
<1>2. QED
  BY <1>1

----------------------------------------------------------------------------
(* The wire *)

\* What is counted on a wire.
LEMMA EventsFacts ==
  ASSUME NEW w, NEW l \in Nat, NEW p, WireIs(w, l, p)
  PROVE  /\ Events(w, p) \in Nat /\ Len(w) \in Nat /\ p \in Nat /\ p <= Len(w)
         /\ Due(w, l, p) \in 0..l /\ Due(w, l, p) + Events(w, p) = l
         /\ p = 0 => Events(w, p) = Len(w)
         /\ p # 0 => Events(w, p) = Len(w) - 1
<1>1. w \in Seq(Lines) /\ p \in 0..Len(w) /\ Events(w, p) <= l /\ Len(w) \in Nat
  BY DEF WireIs
<1>2. Events(w, p) \in Nat /\ (p = 0 => Events(w, p) = Len(w)) /\ (p # 0 => Events(w, p) = Len(w) - 1)
  BY <1>1 DEF Events
<1>3. QED
  BY <1>1, <1>2 DEF Due

\* Lines.
LEMMA LineFacts ==
  /\ \A k : Event(k).t = "event" /\ Event(k).seq = k
  /\ \A a, b : PageOf(a, b).t = "page" /\ PageOf(a, b).lo = a /\ PageOf(a, b).hi = b
  /\ \A a, b : PageOf(a, b).more = (a > 0)
  /\ \A k \in 0..MaxSeq : Event(k) \in Lines
  /\ \A a, b \in 0..MaxSeq : PageOf(a, b) \in Lines
<1>1. \A k : Event(k).t = "event" /\ Event(k).seq = k
  BY DEF Event
<1>2. \A a, b : PageOf(a, b).t = "page" /\ PageOf(a, b).lo = a /\ PageOf(a, b).hi = b
  BY DEF PageOf
<1>3. \A a, b : PageOf(a, b).more = (a > 0)
  BY Zenon DEF PageOf
<1>4. ASSUME NEW k \in 0..MaxSeq PROVE Event(k) \in Lines
  BY DEF Lines
<1>5. ASSUME NEW a \in 0..MaxSeq, NEW b \in 0..MaxSeq PROVE PageOf(a, b) \in Lines
  BY DEF Lines
<1>6. QED
  BY <1>1, <1>2, <1>3, <1>4, <1>5

\* An event is sent.
LEMMA WireGrows ==
  ASSUME NEW w, NEW l \in Nat, NEW p, WireIs(w, l, p), l <= MaxSeq
  PROVE  /\ WireIs(Append(w, Event(l)), l + 1, p)
         /\ Due(Append(w, Event(l)), l + 1, p) = Due(w, l, p)
         /\ p # 0 => Append(w, Event(l))[p] = w[p]
<1> DEFINE v == Append(w, Event(l))
<1>1. w \in Seq(Lines) /\ p \in 0..Len(w) /\ Len(w) \in Nat /\ Events(w, p) <= l
  BY DEF WireIs
<1>2. Event(l) \in Lines
  BY LineFacts, MirrorAssumption
<1>3. v \in Seq(Lines) /\ Len(v) = Len(w) + 1 /\ v[Len(w) + 1] = Event(l) /\ \A i \in 1..Len(w) : v[i] = w[i]
  BY <1>1, <1>2, AppendProperties
<1> HIDE DEF v
<1>4. Events(v, p) = Events(w, p) + 1 /\ Due(v, l + 1, p) = Due(w, l, p) /\ Events(w, p) \in Nat
  <2>1. Events(w, p) \in Nat /\ Events(v, p) = Events(w, p) + 1
    <3>1. CASE p = 0
      BY <1>1, <1>3, <3>1 DEF Events
    <3>2. CASE p # 0
      BY <1>1, <1>3, <3>2 DEF Events
    <3>3. QED
      BY <3>1, <3>2
  <2>2. QED
    BY <2>1 DEF Due
<1>5. ASSUME NEW i \in 1..Len(v), i # p PROVE v[i] = Event(Due(v, l + 1, p) + Place(p, i) - 1)
  <2>1. CASE i = Len(w) + 1
    <3>1. Due(w, l, p) + Place(p, i) - 1 = l
      <4>1. CASE p = 0
        BY <1>1, <2>1, <4>1 DEF Due, Events, Place
      <4>2. CASE p # 0
        <5>1. Place(p, i) = i - 1 /\ Events(w, p) = Len(w) - 1
          BY <1>1, <2>1, <4>2 DEF Events, Place
        <5>2. QED
          BY <1>1, <2>1, <5>1 DEF Due
      <4>3. QED
        BY <4>1, <4>2
    <3>2. QED
      BY <1>3, <1>4, <2>1, <3>1
  <2>2. CASE i \in 1..Len(w)
    BY <1>3, <1>4, <1>5, <2>2 DEF WireIs
  <2>3. QED
    BY <1>1, <1>3, <2>1, <2>2
<1>6. WireIs(v, l + 1, p) /\ (p # 0 => v[p] = w[p])
  BY <1>1, <1>3, <1>4, <1>5 DEF WireIs
<1>7. QED
  BY <1>4, <1>6 DEF v

\* A page is sent.
LEMMA WirePage ==
  ASSUME NEW w, NEW l \in Nat, WireIs(w, l, 0), NEW a \in 0..MaxSeq, NEW b \in 0..MaxSeq
  PROVE  /\ WireIs(Append(w, PageOf(a, b)), l, Len(w) + 1) /\ Len(w) + 1 # 0
         /\ Due(Append(w, PageOf(a, b)), l, Len(w) + 1) = Due(w, l, 0)
         /\ Append(w, PageOf(a, b))[Len(w) + 1] = PageOf(a, b)
<1> DEFINE v == Append(w, PageOf(a, b))
           p == Len(w) + 1
<1>1. w \in Seq(Lines) /\ Len(w) \in Nat /\ Events(w, 0) <= l
  BY DEF WireIs
<1>2. PageOf(a, b) \in Lines /\ PageOf(a, b).t = "page"
  BY LineFacts
<1>3. v \in Seq(Lines) /\ Len(v) = p /\ v[p] = PageOf(a, b) /\ \A i \in 1..Len(w) : v[i] = w[i]
  BY <1>1, <1>2, AppendProperties
<1> HIDE DEF v
<1>4. Events(v, p) = Events(w, 0) /\ Due(v, l, p) = Due(w, l, 0) /\ p # 0 /\ p \in 0..Len(v)
  BY <1>1, <1>3 DEF Events, Due
<1>5. ASSUME NEW i \in 1..Len(v), i # p PROVE v[i] = Event(Due(v, l, p) + Place(p, i) - 1)
  <2>1. i \in 1..Len(w) /\ Place(p, i) = Place(0, i)
    BY <1>1, <1>3, <1>5 DEF Place
  <2>2. QED
    BY <1>3, <1>4, <2>1 DEF WireIs
<1>6. WireIs(v, l, p)
  BY <1>1, <1>2, <1>3, <1>4, <1>5 DEF WireIs
<1>7. QED
  BY <1>3, <1>4, <1>6 DEF v

\* The page is received.
LEMMA WireTurns ==
  ASSUME NEW w, NEW l \in Nat, WireIs(w, l, 1), w # <<>>
  PROVE  WireIs(Tail(w), l, 0) /\ Due(Tail(w), l, 0) = Due(w, l, 1) /\ Head(w) = w[1]
<1>1. w \in Seq(Lines) /\ Len(w) \in Nat /\ Events(w, 1) <= l /\ Head(w) = w[1] /\ Len(w) # 0
  BY EmptySeq DEF WireIs
<1> DEFINE v == Tail(w)
<1>2. v \in Seq(Lines) /\ Len(v) = Len(w) - 1 /\ \A i \in 1..Len(v) : v[i] = w[i + 1]
  BY <1>1, HeadTailProperties
<1> HIDE DEF v
<1>3. Events(v, 0) = Events(w, 1) /\ Due(v, l, 0) = Due(w, l, 1)
  BY <1>1, <1>2 DEF Events, Due
<1>4. ASSUME NEW i \in 1..Len(v) PROVE v[i] = Event(Due(v, l, 0) + Place(0, i) - 1)
  <2>1. i + 1 \in 1..Len(w) /\ i + 1 # 1 /\ Place(1, i + 1) = Place(0, i)
    BY <1>1, <1>2 DEF Place
  <2>2. w[i + 1] = Event(Due(w, l, 1) + Place(1, i + 1) - 1)
    BY <2>1 DEF WireIs
  <2>3. QED
    BY <1>2, <1>3, <2>1, <2>2
<1>5. WireIs(v, l, 0)
  BY <1>1, <1>2, <1>3, <1>4 DEF WireIs
<1>6. QED
  BY <1>1, <1>3, <1>5 DEF v

\* An event is received.
LEMMA WireMoves ==
  ASSUME NEW w, NEW l \in Nat, NEW p, WireIs(w, l, p), w # <<>>, p # 1
  PROVE  \E r \in Nat :
           /\ WireIs(Tail(w), l, r) /\ Due(Tail(w), l, r) = Due(w, l, p) + 1
           /\ Head(w) = Event(Due(w, l, p)) /\ Due(w, l, p) \in 0..(l - 1)
           /\ r = 0 <=> p = 0
           /\ p # 0 => Tail(w)[r] = w[p]
<1>1. /\ w \in Seq(Lines) /\ Len(w) \in Nat /\ Events(w, p) <= l /\ Head(w) = w[1] /\ Len(w) # 0
      /\ p \in 0..Len(w)
  BY EmptySeq DEF WireIs
<1> DEFINE v == Tail(w)
           r == IF p = 0 THEN 0 ELSE p - 1
<1>2. v \in Seq(Lines) /\ Len(v) = Len(w) - 1 /\ \A i \in 1..Len(v) : v[i] = w[i + 1]
  BY <1>1, HeadTailProperties
<1> HIDE DEF v
<1>3. /\ Events(v, r) = Events(w, p) - 1 /\ Due(v, l, r) = Due(w, l, p) + 1 /\ r \in 0..Len(v)
      /\ r = 0 <=> p = 0
      /\ Events(w, p) \in 1..l
  <2>1. CASE p = 0
    BY <1>1, <1>2, <2>1 DEF Events, Due
  <2>2. CASE p # 0
    <3>1. p \in 2..Len(w) /\ r = p - 1 /\ r # 0 /\ r \in 0..Len(v)
      BY <1>1, <1>2, <2>2
    <3>2. Events(v, r) = Len(v) - 1 /\ Events(w, p) = Len(w) - 1
      BY <2>2, <3>1 DEF Events
    <3>3. QED
      BY <1>1, <1>2, <2>2, <3>1, <3>2 DEF Due
  <2>3. QED
    BY <2>1, <2>2
<1>4. Head(w) = Event(Due(w, l, p)) /\ Due(w, l, p) \in 0..(l - 1)
  <2>1. Place(p, 1) = 1 /\ 1 \in 1..Len(w) /\ 1 # p
    BY <1>1 DEF Place
  <2>2. w[1] = Event(Due(w, l, p) + 1 - 1)
    BY <2>1 DEF WireIs
  <2>3. Due(w, l, p) \in 0..(l - 1)
    BY <1>3 DEF Due
  <2>4. QED
    BY <1>1, <2>2, <2>3
<1>5. ASSUME NEW i \in 1..Len(v), i # r PROVE v[i] = Event(Due(v, l, r) + Place(r, i) - 1)
  <2>1. i + 1 \in 1..Len(w) /\ i + 1 # p /\ Place(p, i + 1) = Place(r, i) + 1
    BY <1>1, <1>2, <1>3, <1>5 DEF Place
  <2>2. w[i + 1] = Event(Due(w, l, p) + Place(p, i + 1) - 1)
    BY <2>1 DEF WireIs
  <2>3. Due(w, l, p) + Place(p, i + 1) - 1 = Due(v, l, r) + Place(r, i) - 1
    <3>1. Place(r, i) \in Int
      BY DEF Place
    <3>2. QED
      BY <1>3, <1>4, <2>1, <3>1
  <2>4. QED
    BY <1>2, <2>2, <2>3
<1>6. p # 0 => v[r] = w[p]
  <2>1. p # 0 => r \in 1..Len(v) /\ r + 1 = p
    BY <1>1, <1>2
  <2>2. QED
    BY <1>2, <2>1
<1>7. WireIs(v, l, r)
  BY <1>1, <1>2, <1>3, <1>5, <1>6 DEF WireIs
<1>8. r \in Nat
  BY <1>3, <1>2
<1>9. QED
  BY <1>3, <1>4, <1>6, <1>7, <1>8 DEF v

\* The size of an interval.
LEMMA IntervalFacts ==
  ASSUME NEW a \in Int, NEW b \in Int, a <= b + 1
  PROVE  IsFiniteSet(a..b) /\ Cardinality(a..b) = b - a + 1
<1>1. IsFiniteSet(a..b) /\ Cardinality(a..b) = IF a > b THEN 0 ELSE b - a + 1
  BY FS_Interval, Zenon
<1>2. QED
  BY <1>1

\* After a lost channel the events in flight, and no page, are on the wire.
LEMMA WireResent ==
  ASSUME NEW p \in Nat, WireIs(wire, log, p), log \in Nat, log <= MaxSeq
  PROVE  WireIs(Resent, log, 0) /\ Due(Resent, log, 0) = Due(wire, log, p)
<1> DEFINE E == {i \in DOMAIN wire : wire[i].t = "event"}
           n == Events(wire, p)
<1>1. /\ wire \in Seq(Lines) /\ Len(wire) \in Nat /\ p \in 0..Len(wire) /\ n <= log
      /\ DOMAIN wire = 1..Len(wire)
  BY DEF WireIs
<1>2. n \in Nat /\ (p = 0 => n = Len(wire)) /\ (p # 0 => n = Len(wire) - 1)
  BY EventsFacts
<1>3. E = (1..Len(wire)) \ {p}
  <2>1. \A i \in 1..Len(wire) : i # p => wire[i].t = "event"
    BY LineFacts DEF WireIs
  <2>2. p # 0 => wire[p].t = "page"
    BY DEF WireIs
  <2>3. QED
    BY <1>1, <2>1, <2>2
<1>4. Cardinality(E) = n
  <2>1. IsFiniteSet(1..Len(wire)) /\ Cardinality(1..Len(wire)) = Len(wire)
    <3>1. 1 \in Int /\ Len(wire) \in Int /\ 1 <= Len(wire) + 1 /\ Len(wire) - 1 + 1 = Len(wire)
      BY <1>1
    <3>2. QED
      BY <3>1, IntervalFacts
  <2>2. Cardinality(E) = IF p \in 1..Len(wire) THEN Len(wire) - 1 ELSE Len(wire)
    BY <1>3, <2>1, FS_RemoveElement, ZenonT(60)
  <2>3. QED
    BY <1>1, <1>2, <2>2
<1> HIDE DEF n
<1> DEFINE v == [i \in 1..n |-> Event(log - n + i - 1)]
<1>5. Resent = v
  BY <1>4 DEF Resent
<1>6. ASSUME NEW i \in 1..n PROVE log - n + i - 1 \in 0..MaxSeq
  <2>1. MaxSeq \in Nat /\ n \in Nat /\ n <= log
    BY <1>1, <1>2, MirrorAssumption, Zenon
  <2>2. QED
    BY <2>1, SMTT(60)
<1>7. v \in [1..n -> Lines] /\ \A i \in 1..n : v[i] = Event(log - n + i - 1)
  BY <1>6, LineFacts
<1> HIDE DEF v
<1>8. v \in Seq(Lines) /\ Len(v) = n
  BY <1>2, <1>7
<1>9. Events(v, 0) = n /\ Due(v, log, 0) = log - n
  BY <1>8 DEF Events, Due
<1>10. WireIs(v, log, 0)
  <2>1. ASSUME NEW i \in 1..Len(v) PROVE v[i] = Event(Due(v, log, 0) + Place(0, i) - 1)
    BY <1>7, <1>8, <1>9 DEF Place
  <2>2. QED
    <3>1. v \in Seq(Lines) /\ 0 \in 0..Len(v) /\ Events(v, 0) <= log
      <4>1. Len(v) \in Nat /\ Events(v, 0) <= log
        BY <1>1, <1>2, <1>8, <1>9, Zenon
      <4>2. QED
        BY <1>8, <4>1
    <3>2. QED
      BY <2>1, <3>1 DEF WireIs
<1>11. Due(v, log, 0) = Due(wire, log, p)
  BY <1>9 DEF Due, n
<1>12. QED
  BY <1>5, <1>10, <1>11

----------------------------------------------------------------------------
(* Pages and appends *)

\* The greater and the smaller of two numbers.
LEMMA TwoNumbers ==
  ASSUME NEW a \in Int, NEW b \in Int
  PROVE  /\ Max({a, b}) = IF a >= b THEN a ELSE b
         /\ Min({a, b}) = IF a <= b THEN a ELSE b
<1>1. Max({a, b}) = IF a >= b THEN a ELSE b
  <2> DEFINE m == IF a >= b THEN a ELSE b
  <2>1. m \in {a, b} /\ \A y \in {a, b} : m >= y
    OBVIOUS
  <2>2. \A x \in {a, b} : (\A y \in {a, b} : x >= y) => x = m
    OBVIOUS
  <2> HIDE DEF m
  <2>3. Max({a, b}) = m
    BY <2>1, <2>2 DEF Max
  <2>4. QED
    BY <2>3 DEF m
<1>2. Min({a, b}) = IF a <= b THEN a ELSE b
  <2> DEFINE m == IF a <= b THEN a ELSE b
  <2>1. m \in {a, b} /\ \A y \in {a, b} : m <= y
    OBVIOUS
  <2>2. \A x \in {a, b} : (\A y \in {a, b} : x <= y) => x = m
    OBVIOUS
  <2> HIDE DEF m
  <2>3. Min({a, b}) = m
    BY <2>1, <2>2 DEF Min
  <2>4. QED
    BY <2>3 DEF m
<1>3. QED
  BY <1>1, <1>2

\* broker.history serves a page that ends where it was asked to, and one that
\* is empty only at the start of the log.
LEMMA PageFacts ==
  ASSUME log \in Nat, NEW r \in Nat \cup {Newest}, r # Newest => r <= log
  PROVE  \E a, b \in 0..log :
           /\ Page(r) = PageOf(a, b) /\ a <= b /\ (a = b => a = 0)
           /\ b = IF r = Newest THEN log ELSE r
<1> DEFINE b == IF r = Newest THEN log ELSE Min({r, log})
           a == Max({0, b - PageSize})
<1>1. b \in 0..log /\ b = IF r = Newest THEN log ELSE r
  BY TwoNumbers DEF Newest
<1>2. Page(r) = PageOf(a, b)
  BY DEF Page, PageOf
<1> HIDE DEF b
<1>3. PageSize \in Nat /\ PageSize # 0
  BY MirrorAssumption
<1>4. a = IF 0 >= b - PageSize THEN 0 ELSE b - PageSize
  BY <1>1, <1>3, TwoNumbers
<1> HIDE DEF a
<1>5. a \in 0..log /\ a <= b /\ (a = b => a = 0)
  BY <1>1, <1>3, <1>4
<1>6. QED
  BY <1>1, <1>2, <1>5

\* The positions of the events from z on, and that those events are z, z + 1 ...
Kept(pages, z) == {i \in DOMAIN pages : pages[i] >= z}
Contiguous(pages, z) ==
  \A i \in Kept(pages, z) : pages[i] = z + Cardinality({j \in Kept(pages, z) : j < i})

\* What is kept of pages that reach the seed is contiguous from the seed on.
LEMMA KeptFacts ==
  ASSUME NEW a \in Nat, NEW z \in Nat, NEW n \in Nat, a <= z, z <= n
  PROVE  Cardinality(Kept(Run(a, n), z)) = n - z /\ Contiguous(Run(a, n), z)
<1> DEFINE pages == Run(a, n)
           kept == Kept(pages, z)
<1>0. kept = {i \in DOMAIN pages : pages[i] >= z}
  BY DEF Kept
<1>1. pages \in Seq(Nat) /\ Len(pages) = n - a /\ \A i \in 1..(n - a) : pages[i] = a + i - 1
  <2>1. a <= n
    OBVIOUS
  <2>2. QED
    BY <2>1, RunFacts
<1> HIDE DEF pages, kept
<1>2. DOMAIN pages = 1..(n - a)
  BY <1>1
<1> DEFINE f == z - a + 1
<1>3. kept = f..(n - a)
  <2>1. \A i \in 1..(n - a) : pages[i] >= z <=> i >= f
    BY <1>1
  <2>2. \A i \in f..(n - a) : i \in 1..(n - a) /\ i >= f
    OBVIOUS
  <2>3. \A i \in 1..(n - a) : i >= f => i \in f..(n - a)
    OBVIOUS
  <2> HIDE DEF f
  <2>4. QED
    BY <1>0, <1>2, <2>1, <2>2, <2>3
<1>4. Cardinality(kept) = n - z
  <2>1. f \in Int /\ n - a \in Int /\ f <= (n - a) + 1 /\ (n - a) - f + 1 = n - z
    OBVIOUS
  <2> HIDE DEF f
  <2>2. QED
    BY <1>3, <2>1, IntervalFacts
<1>5. ASSUME NEW i \in kept PROVE pages[i] = z + Cardinality({j \in kept : j < i})
  <2>1. i \in f..(n - a)
    BY <1>3
  <2>2. {j \in kept : j < i} = f..(i - 1)
    BY <1>3, <2>1
  <2>3. Cardinality(f..(i - 1)) = i - f
    <3>1. f \in Int /\ i - 1 \in Int /\ f <= (i - 1) + 1 /\ (i - 1) - f + 1 = i - f
      BY <2>1
    <3> HIDE DEF f
    <3>2. QED
      BY <3>1, IntervalFacts
  <2>4. pages[i] = a + i - 1
    BY <1>1, <2>1
  <2>5. z + (i - f) = a + i - 1
    BY <2>1
  <2> HIDE DEF f
  <2>6. QED
    BY <2>2, <2>3, <2>4, <2>5
<1>6. QED
  BY <1>4, <1>5 DEF Contiguous, pages, kept

\* A set of numbers that is not empty has a least one; one that is bounded has
\* a greatest one, which Max takes.
LEMMA LeastExists ==
  ASSUME NEW S \in SUBSET Nat, S # {}
  PROVE  \E x \in S : \A y \in S : x <= y
<1> DEFINE R == OpToRel(<, Nat)
<1>1. \E x \in S : \A y \in S : ~(<<y, x>> \in R)
  BY NatLessThanWellFounded, WFMin, Zenon
<1>2. R = {ss \in Nat \X Nat : ss[1] < ss[2]}
  BY Zenon DEF OpToRel
<1> HIDE DEF R
<1>3. \A x, y \in Nat : y < x => <<y, x>> \in R
  BY <1>2
<1>4. PICK x \in S : \A y \in S : ~(<<y, x>> \in R)
  BY <1>1
<1>5. ASSUME NEW y \in S PROVE x <= y
  <2>1. <<y, x>> \notin R
    BY <1>4
  <2>2. ~(y < x)
    BY <1>3, <2>1
  <2>3. QED
    BY <2>2
<1>6. QED
  BY <1>5

LEMMA GreatestTaken ==
  ASSUME NEW n \in Nat, NEW K \in SUBSET (0..n), K # {}
  PROVE  Max(K) \in K /\ \A y \in K : Max(K) >= y
<1> DEFINE S == {n - k : k \in K}
<1>1. S \in SUBSET Nat /\ S # {}
  OBVIOUS
<1>2. PICK x \in S : \A y \in S : x <= y
  <2> HIDE DEF S
  <2>1. QED
    BY <1>1, LeastExists
<1>3. PICK g \in K : x = n - g
  OBVIOUS
<1>4. ASSUME NEW y \in K PROVE g >= y
  <2>1. n - y \in S
    OBVIOUS
  <2>2. x <= n - y
    BY <1>2, <2>1
  <2>3. QED
    BY <1>3, <2>2
<1>5. QED
  BY <1>4 DEF Max

\* The events that appendEvent accepts are appended; when all that came before
\* joins the local log, only a race makes it refuse one.
LEMMA AppendFacts ==
  ASSUME NEW m \in Nat, local = Run(0, m), NEW ev, NEW d \in Nat, Tapped(ev, d), d <= log, m <= log,
         log \in Nat, log <= MaxSeq, NEW r \in BOOLEAN, Joins(ev, d, m, r), AppendEvents(ev), ev \in Seq(Nat)
  PROVE  /\ local' = Run(0, Len(local')) /\ Len(local') \in 0..log /\ local' \in Seq(0..MaxSeq)
         /\ phase' \in {"live", "failed"}
         /\ phase' = "live" => Joins(<<>>, d, Len(local'), r)
         /\ phase' = "failed" => r
<1> DEFINE k == Len(ev)
           b == d - k
           K == {c \in 0..k : \A j \in 1..c : ev[j] = m + j - 1}
           a == Accepted(ev)
<1>1. k \in Nat /\ b \in Nat /\ Len(local) = m /\ local \in Seq(Nat)
  <2>1. k \in Nat /\ k <= d
    BY DEF Tapped
  <2>2. Len(Run(0, m)) = m - 0 /\ Run(0, m) \in Seq(Nat)
    BY RunFacts
  <2>3. QED
    BY <2>1, <2>2
<1>2. \A j \in 1..k : ev[j] = b + j - 1
  <2>1. ev = Run(b, d) /\ b <= d /\ d - b = k
    BY <1>1 DEF Tapped
  <2> HIDE DEF b, k
  <2>2. QED
    BY <1>1, <2>1, RunFacts, ZenonT(60)
<1>3. a = Max(K)
  BY <1>1 DEF Accepted
<1>4. local' = local \o SubSeq(ev, 1, a) /\ phase' = IF a = k THEN "live" ELSE "failed"
  BY DEF AppendEvents
<1> HIDE DEF a
<1>5. a \in K /\ \A y \in K : a >= y
  <2>1. K \in SUBSET (0..k) /\ 0 \in K
    BY <1>1
  <2> HIDE DEF K, k
  <2>2. QED
    BY <1>1, <1>3, <2>1, GreatestTaken
<1>6. a \in 0..k /\ \A j \in 1..a : ev[j] = m + j - 1
  BY <1>5
<1>7. a # 0 => b = m
  <2>1. a # 0 => ev[1] = m /\ ev[1] = b
    BY <1>1, <1>2, <1>6
  <2>2. QED
    BY <2>1
<1>8. b = m => a = k
  <2>1. b = m => k \in K
    BY <1>1, <1>2
  <2>2. QED
    BY <1>1, <1>5, <1>6, <2>1, SMTT(60)
<1> HIDE DEF K, k, b
<1>9. SubSeq(ev, 1, a) = Run(m, m + a)
  <2> DEFINE s == SubSeq(ev, 1, a)
  <2>1. \A i \in 1..a : ev[i] \in Nat
    BY <1>1, <1>6
  <2>2. s \in Seq(Nat) /\ Len(s) = (IF 1 <= a THEN a - 1 + 1 ELSE 0) /\ \A i \in 1..(a - 1 + 1) : s[i] = ev[1 + i - 1]
    <3>1. a \in Int /\ 1 \in Int
      BY <1>1, <1>6
    <3>2. QED
      BY <2>1, <3>1, SubSeqProperties
  <2> HIDE DEF s
  <2>3. Len(s) = (m + a) - m /\ m <= m + a /\ m + a \in Nat /\ \A i \in 1..((m + a) - m) : s[i] = m + i - 1
    BY <1>1, <1>6, <2>2
  <2>4. s = Run(m, m + a)
    BY <2>2, <2>3, RunIs
  <2>5. QED
    BY <2>4 DEF s
<1>10. local' = Run(0, m + a) /\ Len(local') = m + a /\ m + a \in Nat
  <2>1. m + a \in Nat /\ m <= m + a /\ 0 <= m
    BY <1>1, <1>6
  <2>2. local' = Run(0, m + a)
    <3>1. Run(0, m) \o Run(m, m + a) = Run(0, m + a)
      BY <2>1, RunCat
    <3>2. QED
      BY <1>4, <1>9, <3>1
  <2>3. QED
    BY <2>1, <2>2, RunFacts, SMTT(60)
<1>11. m + a <= log
  <2>1. CASE a = 0
    BY <2>1
  <2>2. CASE a # 0
    <3>1. b = m /\ a <= k /\ b + k = d
      BY <1>1, <1>6, <1>7, <2>2 DEF b
    <3>2. QED
      BY <1>1, <1>6, <3>1
  <2>3. QED
    BY <2>1, <2>2
<1>12. local' \in Seq(0..MaxSeq)
  BY <1>10, <1>11, RunIn, MirrorAssumption
<1>13. b <= m /\ (~r => b = m)
  BY DEF Joins, b, k
<1>14. phase' = "live" => Joins(<<>>, d, m + a, r)
  <2> SUFFICES ASSUME a = k PROVE Joins(<<>>, d, m + a, r)
    BY <1>4
  <2>1. b + k = d
    BY <1>1 DEF b
  <2>2. d <= m + a /\ (b = m => d = m + a)
    BY <1>1, <1>6, <1>13, <2>1
  <2>3. Len(<<>>) = 0 /\ d - 0 = d
    BY EmptySeq
  <2>4. QED
    BY <1>13, <2>2, <2>3 DEF Joins
<1>15. phase' = "failed" => r
  BY <1>4, <1>8, <1>13
<1>16. phase' \in {"live", "failed"}
  BY <1>4
<1>17. local' = Run(0, Len(local')) /\ Len(local') \in 0..log /\ Len(local') = m + a
  BY <1>10, <1>11
<1>18. QED
  BY <1>12, <1>14, <1>15, <1>16, <1>17

----------------------------------------------------------------------------
(* The invariant and the steps *)

\* What an empty wire and an empty tap are.
LEMMA EmptyFacts ==
  ASSUME NEW l \in Nat
  PROVE  /\ WireIs(<<>>, l, 0) /\ Due(<<>>, l, 0) = l /\ Tapped(<<>>, l)
         /\ \A p : WireIs(<<>>, l, p) => p = 0
<1>1. <<>> \in Seq(Lines) /\ Len(<<>>) = 0
  OBVIOUS
<1>2. Events(<<>>, 0) = 0 /\ Due(<<>>, l, 0) = l
  BY <1>1 DEF Events, Due
<1>3. WireIs(<<>>, l, 0)
  BY <1>1, <1>2 DEF WireIs
<1>4. Tapped(<<>>, l)
  <2>1. Run(l, l) = <<>> /\ l - 0 = l
    BY RunEmpty
  <2>2. QED
    BY <1>1, <2>1 DEF Tapped
<1>5. ASSUME NEW p, WireIs(<<>>, l, p) PROVE p = 0
  <2>1. p \in 0..Len(<<>>)
    BY <1>5 DEF WireIs
  <2>2. QED
    BY <1>1, <2>1
<1>6. QED
  BY <1>2, <1>3, <1>4, <1>5

\* The next event is tapped: what is tapped still joins the history.
LEMMA TapFacts ==
  ASSUME NEW buf \in Seq(Nat), NEW d \in Nat, Tapped(buf, d)
  PROVE  /\ Tapped(Append(buf, d), d + 1)
         /\ \A n, r : Joins(buf, d, n, r) => Joins(Append(buf, d), d + 1, n, r)
<1> DEFINE s == Append(buf, d)
           b == d - Len(buf)
<1>1. Len(buf) \in Nat /\ b \in Nat /\ b <= d /\ buf = Run(b, d)
  BY DEF Tapped
<1>2. Len(s) = Len(buf) + 1
  OBVIOUS
<1>3. s = Run(b, d + 1)
  <2> HIDE DEF b
  <2>1. Append(Run(b, d), d) = Run(b, d + 1)
    BY <1>1, RunAppend
  <2>2. QED
    BY <1>1, <2>1
<1> HIDE DEF s
<1>4. (d + 1) - Len(s) = b /\ Len(s) <= d + 1
  BY <1>1, <1>2
<1>5. Tapped(s, d + 1)
  BY <1>3, <1>4 DEF Tapped
<1>6. \A n, r : Joins(buf, d, n, r) => Joins(s, d + 1, n, r)
  BY <1>4 DEF Joins
<1>7. QED
  BY <1>5, <1>6 DEF s

\* A witness of the shape.
LEMMA ShapedBy ==
  ASSUME NEW p, NEW n, Shape(p, n)
  PROVE  Shaped
<1>1. p \in 0..Len(wire) /\ n \in 0..log
  BY DEF Shape, WireIs
<1>2. QED
  BY <1>1 DEF Shaped

LEMMA ShapedThen ==
  ASSUME NEW p, NEW n, Shape(p, n)', TypeOK', (seed <= log)'
  PROVE  MirrorIInv'
<1>1. p \in 0..Len(wire') /\ n \in 0..log'
  BY DEF Shape, WireIs
<1>2. Shaped'
  BY <1>1 DEF Shaped
<1>3. QED
  BY <1>2 DEF MirrorIInv

\* The facts that every step starts from.
LEMMA Starts ==
  ASSUME MirrorIInv
  PROVE  /\ log \in Nat /\ log <= MaxSeq /\ MaxSeq \in Nat /\ seed \in Nat /\ seed <= log
         /\ \E p, n \in Nat : /\ Shape(p, n) /\ n <= log /\ WireIs(wire, log, p)
                              /\ Due(wire, log, p) \in Nat /\ Due(wire, log, p) <= log
         /\ buffered \in Seq(Nat) /\ history \in Seq(0..MaxSeq) /\ local \in Seq(0..MaxSeq)
         /\ Len(local) \in Nat
<1>1. /\ log \in Nat /\ log <= MaxSeq /\ MaxSeq \in Nat /\ seed \in Nat /\ seed <= log
      /\ history \in Seq(0..MaxSeq) /\ local \in Seq(0..MaxSeq)
  BY MirrorAssumption DEF MirrorIInv, TypeOK
<1>2. buffered \in Seq(Nat) /\ Len(local) \in Nat
  <2>1. buffered \in Seq(0..MaxSeq) /\ 0..MaxSeq \subseteq Nat
    BY <1>1 DEF MirrorIInv, TypeOK
  <2>2. QED
    BY <1>1, <2>1
<1>3. PICK p \in 0..Len(wire), n \in 0..log : Shape(p, n)
  BY DEF MirrorIInv, Shaped
<1>4. WireIs(wire, log, p)
  BY <1>3 DEF Shape
<1>5. p \in Nat /\ Due(wire, log, p) \in Nat /\ Due(wire, log, p) <= log
  <2>1. p \in Nat /\ Due(wire, log, p) \in 0..log
    BY <1>1, <1>4, EventsFacts
  <2>2. QED
    BY <1>1, <2>1
<1>6. n \in Nat /\ n <= log
  BY <1>1
<1>7. QED
  BY <1>1, <1>2, <1>3, <1>4, <1>5, <1>6

\* A bootstrap that was given the log up to some event starts.
LEMMA InitMirror ==
  ASSUME Init
  PROVE  MirrorIInv
<1>1. log \in Nat /\ log <= MaxSeq /\ MaxSeq \in Nat /\ seed \in Nat /\ seed <= log /\ seed <= MaxSeq
  BY MirrorAssumption DEF Init
<1>2. local \in Seq(0..MaxSeq) /\ Len(local) = seed /\ local = Run(0, seed)
  <2>1. local = Run(0, seed)
    BY DEF Init
  <2>2. Run(0, seed) \in Seq(0..MaxSeq) /\ Len(Run(0, seed)) = seed - 0
    BY <1>1, RunIn, RunFacts
  <2>3. QED
    BY <1>1, <2>1, <2>2
<1>3. TypeOK
  <2>1. request = -1 /\ phase = "paging" /\ history = <<>> /\ buffered = <<>> /\ raced = FALSE
    BY DEF Init, Newest
  <2>2. <<>> \in Seq(0..MaxSeq) /\ -1 \in -2..MaxSeq /\ log \in 0..MaxSeq /\ seed \in 0..MaxSeq
    BY <1>1
  <2>3. QED
    BY <1>2, <2>1, <2>2 DEF TypeOK, Phases
<1>4. Shape(0, log)
  <2>1. /\ wire = <<>> /\ request = Newest /\ phase = "paging" /\ history = <<>> /\ buffered = <<>>
    BY DEF Init
  <2>2. WireIs(wire, log, 0) /\ Tapped(buffered, Due(wire, log, 0))
    BY <1>1, <2>1, EmptyFacts
  <2>3. Paging(0, log)
    BY <1>2, <2>1 DEF Paging, Newest, NoRequest
  <2>4. QED
    BY <1>1, <1>2, <2>1, <2>2, <2>3 DEF Shape
<1>5. QED
  BY <1>1, <1>3, <1>4, ShapedBy DEF MirrorIInv

\* An event is emitted: nothing that is due changes, and one emitted before the
\* newest page is served is the race.
LEMMA RemoteEventKeeps ==
  ASSUME MirrorIInv, RemoteEvent
  PROVE  MirrorIInv'
<1>1. PICK p \in Nat, n \in Nat :
        Shape(p, n) /\ n <= log /\ WireIs(wire, log, p) /\ Due(wire, log, p) \in Nat /\ Due(wire, log, p) <= log
  BY Starts
<1>2. log \in Nat /\ log <= MaxSeq /\ MaxSeq \in Nat /\ seed \in Nat /\ seed <= log /\ Len(local) \in Nat
  BY Starts
<1>3. /\ log' = log + 1 /\ log < MaxSeq /\ wire' = Append(wire, Event(log))
      /\ request' = request /\ phase' = phase /\ seed' = seed /\ history' = history
      /\ buffered' = buffered /\ local' = local
  BY DEF RemoteEvent
<1>4. /\ raced' \in BOOLEAN /\ (request = Newest => raced') /\ (request # Newest => raced' = raced)
  BY Zenon DEF RemoteEvent, MirrorIInv, TypeOK
<1>5. /\ WireIs(wire', log', p) /\ Due(wire', log', p) = Due(wire, log, p)
      /\ p # 0 => wire'[p] = wire[p]
  BY <1>1, <1>2, <1>3, WireGrows
<1>6. TypeOK' /\ (seed <= log)'
  BY <1>2, <1>3, <1>4 DEF MirrorIInv, TypeOK
<1>7. phase # "paging" => request # Newest
  BY DEF MirrorIInv, TypeOK, Newest, NoRequest
<1>8. phase = "paging" => Paging(p, n)'
  <2> SUFFICES ASSUME phase = "paging" PROVE Paging(p, n)'
    OBVIOUS
  <2>1. Paging(p, n)
    BY <1>1 DEF Shape
  <2>2. PageIs(wire, p, n, history) /\ p # 0 => PageIs(wire', p, n, history')
    BY <1>3, <1>5 DEF PageIs
  <2>3. QED
    BY <1>3, <1>4, <1>5, <2>1, <2>2 DEF Paging
<1>9. Shape(p, n)'
  <2>1. n \in 0..log' /\ Len(local') <= log'
    BY <1>1, <1>2, <1>3 DEF Shape
  <2>2. QED
    BY <1>1, <1>3, <1>4, <1>5, <1>7, <1>8, <2>1 DEF Shape
<1>10. QED
  BY <1>6, <1>9, ShapedThen

\* The daemon answers the history call: the newest page ends where the log
\* does, any other where the pages already read begin.
LEMMA ServeHistoryKeeps ==
  ASSUME MirrorIInv, ServeHistory
  PROVE  MirrorIInv'
<1>1. PICK p \in Nat, n \in Nat :
        Shape(p, n) /\ n <= log /\ WireIs(wire, log, p) /\ Due(wire, log, p) \in Nat /\ Due(wire, log, p) <= log
  BY Starts
<1>2. log \in Nat /\ log <= MaxSeq /\ MaxSeq \in Nat /\ seed \in Nat /\ seed <= log /\ Len(local) \in Nat
  BY Starts
<1>3. /\ request # NoRequest /\ request' = NoRequest /\ wire' = Append(wire, Page(request))
      /\ log' = log /\ phase' = phase /\ seed' = seed /\ history' = history
      /\ buffered' = buffered /\ local' = local /\ raced' = raced
  BY DEF ServeHistory
<1>4. phase = "paging" /\ request \in Nat \cup {Newest}
  BY <1>2, <1>3 DEF MirrorIInv, TypeOK, Newest, NoRequest
<1>5. Paging(p, n) /\ Tapped(buffered, Due(wire, log, p)) /\ Len(local) <= log /\ local = Run(0, Len(local))
  BY <1>1, <1>4 DEF Shape
<1>6. request # Newest => request \in Nat /\ request <= n /\ request <= log /\ seed < request
  BY <1>1, <1>2, <1>4, <1>5 DEF Paging
<1>7. p = 0
  BY <1>4, <1>5 DEF Paging
<1>8. PICK a \in 0..log, b \in 0..log :
        /\ Page(request) = PageOf(a, b) /\ a <= b /\ (a = b => a = 0)
        /\ b = IF request = Newest THEN log ELSE request
  BY <1>2, <1>4, <1>6, PageFacts
<1>0. Len(wire) + 1 \in Nat /\ (IF request = Newest THEN log ELSE n) \in Nat
  BY <1>1, <1>2, EventsFacts
<1> PICK q \in Nat, m \in Nat : q = Len(wire) + 1 /\ m = IF request = Newest THEN log ELSE n
  BY <1>0
<1>9. /\ WireIs(wire', log', q) /\ q # 0 /\ Due(wire', log', q) = Due(wire, log, p)
      /\ wire'[q] = PageOf(a, b)
  <2>1. a \in 0..MaxSeq /\ b \in 0..MaxSeq
    BY <1>2
  <2>2. QED
    BY <1>1, <1>2, <1>3, <1>7, <1>8, <2>1, WirePage
<1>10. m \in Nat /\ m <= log /\ seed <= m /\ a \in 0..m /\ b \in 0..m
  BY <1>1, <1>2, <1>6, <1>8
<1>11. history = Run(b, m)
  <2>1. CASE request = Newest
    <3>1. history = <<>> /\ Run(log, log) = <<>>
      BY <1>2, <1>5, <2>1, RunEmpty DEF Paging
    <3>2. QED
      BY <1>8, <2>1, <3>1
  <2>2. CASE request # Newest
    BY <1>5, <1>6, <1>8, <2>2 DEF Paging
  <2>3. QED
    BY <2>1, <2>2
<1>12. Joins(buffered, Due(wire, log, p), m, raced)
  <2>1. CASE request = Newest
    <3>1. Len(buffered) \in Nat
      BY Starts
    <3>2. ~raced => Len(buffered) = 0 /\ Due(wire, log, p) = log
      <4> SUFFICES ASSUME ~raced PROVE Len(buffered) = 0 /\ Due(wire, log, p) = log
        OBVIOUS
      <4>1. wire = <<>> /\ buffered = <<>>
        BY <1>5, <2>1 DEF Paging
      <4>2. QED
        BY <1>2, <1>7, <4>1, EmptyFacts
    <3>3. Due(wire, log, p) - Len(buffered) <= log
      BY <1>1, <1>2, <3>1
    <3>4. ~raced => Due(wire, log, p) - Len(buffered) = log
      BY <1>2, <3>2
    <3>5. QED
      BY <2>1, <3>3, <3>4 DEF Joins
  <2>2. CASE request # Newest
    BY <1>5, <2>2 DEF Paging
  <2>3. QED
    BY <2>1, <2>2
<1>13. Paging(q, m)'
  <2>1. PageIs(wire', q, m, history')
    BY <1>3, <1>8, <1>9, <1>10, <1>11 DEF PageIs
  <2>2. Len(local') = seed'
    BY <1>3, <1>5 DEF Paging
  <2>3. request' # Newest /\ request' \notin Nat
    BY <1>3 DEF Newest, NoRequest
  <2>4. QED
    BY <1>3, <1>9, <1>10, <1>12, <2>1, <2>2, <2>3 DEF Paging
<1>14. Shape(q, m)'
  <2>1. m \in 0..log'
    BY <1>2, <1>3, <1>10
  <2>2. QED
    BY <1>3, <1>4, <1>5, <1>9, <1>13, <2>1 DEF Shape
<1>15. TypeOK' /\ (seed <= log)'
  BY <1>2, <1>3 DEF MirrorIInv, TypeOK, NoRequest
<1>16. QED
  BY <1>14, <1>15, ShapedThen

\* The page asked for is received: either the next one is asked for, or the
\* pages read reach the seed and complete the local log.
LEMMA ReceivePageKeeps ==
  ASSUME MirrorIInv, Receive, NEW n \in Nat, n <= log, Shape(1, n), WireIs(wire, log, 1)
  PROVE  MirrorIInv'
<1> DEFINE d == Due(wire, log, 1)
<1>1. log \in Nat /\ log <= MaxSeq /\ MaxSeq \in Nat /\ seed \in Nat /\ seed <= log /\ Len(local) \in Nat
  BY Starts
<1>2. /\ wire # <<>> /\ wire' = Tail(wire) /\ log' = log /\ seed' = seed /\ raced' = raced
  BY DEF Receive
<1>3. phase = "paging" /\ request = NoRequest /\ Paging(1, n) /\ Tapped(buffered, d) /\ local = Run(0, Len(local))
  BY DEF Shape
<1>4. PICK a \in 0..n, b \in 0..n : wire[1] = PageOf(a, b) /\ a <= b /\ (a = b => a = 0) /\ history = Run(b, n)
  BY <1>3 DEF Paging, PageIs
<1>5. WireIs(wire', log', 0) /\ Due(wire', log', 0) = d /\ Head(wire) = PageOf(a, b)
  BY <1>1, <1>2, <1>4, WireTurns
<1>6. Len(local) = seed /\ seed <= n /\ Joins(buffered, d, n, raced)
  BY <1>3 DEF Paging, Newest, NoRequest
<1> HIDE DEF d
<1>7. ReceivePage(PageOf(a, b))
  BY <1>5, LineFacts DEF Receive
<1> DEFINE pages == Run(PageOf(a, b).lo, PageOf(a, b).hi) \o history
           kept == {i \in DOMAIN pages : pages[i] >= seed}
           contiguous == \A i \in kept : pages[i] = seed + Cardinality({j \in kept : j < i})
           goes == PageOf(a, b).more /\ PageOf(a, b).hi > PageOf(a, b).lo /\ PageOf(a, b).lo > seed
<1>8. pages = Run(a, n)
  <2>1. a \in Nat /\ b \in Nat /\ a <= b /\ b <= n
    BY <1>4
  <2>2. pages = Run(a, b) \o history
    BY LineFacts
  <2>3. QED
    BY <1>4, <2>1, <2>2, RunCat
<1>9. /\ history' = pages /\ buffered' = buffered
      /\ goes => request' = NextPage(PageOf(a, b)) /\ phase' = phase /\ local' = local
      /\ ~goes => /\ request' = NoRequest
                  /\ contiguous => phase' = "setup" /\ local' = local \o Run(seed, seed + Cardinality(kept))
  <2>1. history' = pages /\ buffered' = buffered
    BY <1>7, Zenon DEF ReceivePage
  <2>2. goes => request' = NextPage(PageOf(a, b)) /\ phase' = phase /\ local' = local
    BY <1>7, Zenon DEF ReceivePage
  <2>3. ~goes => request' = NoRequest
    BY <1>7, Zenon DEF ReceivePage
  <2>4. ~goes /\ contiguous => phase' = "setup" /\ local' = local \o Run(seed, seed + Cardinality(kept))
    <3>1. ~goes => /\ phase' = IF contiguous THEN "setup" ELSE "diverged"
                   /\ local' = IF contiguous THEN local \o Run(seed, seed + Cardinality(kept)) ELSE local
      BY <1>7, Zenon DEF ReceivePage
    <3> HIDE DEF goes, contiguous, kept
    <3>2. QED
      BY <3>1
  <2>5. QED
    BY <2>1, <2>2, <2>3, <2>4
<1>10. goes <=> a > 0 /\ b > a /\ a > seed
  <2>1. PageOf(a, b).more = (a > 0) /\ PageOf(a, b).lo = a /\ PageOf(a, b).hi = b
    BY LineFacts, Zenon
  <2>2. QED
    BY <2>1, Zenon
<1> HIDE DEF goes
<1>11. a \in Nat /\ a <= n /\ n <= MaxSeq
  BY <1>1
<1> HIDE DEF pages, kept, contiguous
<1>12. history' \in Seq(0..MaxSeq) /\ Run(0, n) \in Seq(0..MaxSeq)
  <2>1. 0 \in Nat /\ 0 <= n /\ Run(0, n) \in Seq(0..MaxSeq)
    BY <1>1, <1>11, RunIn
  <2>2. Run(a, n) \in Seq(0..MaxSeq)
    BY <1>1, <1>11, RunIn
  <2>3. QED
    BY <1>8, <1>9, <2>1, <2>2
<1>13. CASE goes
  <2>1. request' = a /\ phase' = phase /\ local' = local /\ seed < a
    BY <1>9, <1>10, <1>13, LineFacts DEF NextPage
  <2>2. Paging(0, n)'
    <3>1. request' # Newest /\ request' # NoRequest
      BY <1>11, <2>1 DEF Newest, NoRequest
    <3>2. history' = Run(request', n) /\ seed' < request' /\ request' <= n
      BY <1>2, <1>8, <1>9, <1>11, <2>1
    <3>3. Len(local') = seed' /\ seed' <= n /\ Joins(buffered', Due(wire', log', 0), n, raced')
      BY <1>2, <1>5, <1>6, <1>9, <2>1
    <3>4. QED
      BY <3>1, <3>2, <3>3 DEF Paging
  <2>3. Shape(0, n)'
    <3>1. n \in 0..log' /\ Len(local') <= log'
      BY <1>1, <1>2, <1>6, <2>1
    <3>2. QED
      BY <1>2, <1>3, <1>5, <1>9, <2>1, <2>2, <3>1 DEF Shape
  <2>4. TypeOK' /\ (seed <= log)'
    <3>1. request' \in -2..MaxSeq
      BY <1>11, <2>1, <1>1
    <3>2. QED
      BY <1>1, <1>2, <1>3, <1>9, <1>12, <2>1, <3>1 DEF MirrorIInv, TypeOK
  <2>5. QED
    BY <2>3, <2>4, ShapedThen
<1>14. CASE ~goes
  <2>1. a <= seed
    BY <1>1, <1>4, <1>10, <1>14
  <2>2. Cardinality(kept) = n - seed /\ contiguous
    <3>1. kept = Kept(pages, seed) /\ (contiguous <=> Contiguous(pages, seed))
      BY DEF kept, contiguous, Kept, Contiguous
    <3>2. QED
      BY <1>1, <1>6, <1>8, <1>11, <2>1, <3>1, KeptFacts
  <2>3. request' = NoRequest /\ phase' = "setup" /\ local' = Run(0, n) /\ Len(local') = n
    <3>1. request' = NoRequest /\ phase' = "setup" /\ local' = local \o Run(seed, seed + Cardinality(kept))
      BY <1>9, <1>14, <2>2
    <3>2. seed + Cardinality(kept) = n
      BY <1>1, <2>2
    <3>3. Run(0, seed) \o Run(seed, n) = Run(0, n) /\ Len(Run(0, n)) = n - 0
      <4>1. 0 \in Nat /\ 0 <= seed /\ seed <= n /\ 0 <= n
        BY <1>1, <1>6
      <4>2. QED
        BY <1>1, <4>1, RunCat, RunFacts
    <3>4. local' = Run(0, n)
      BY <1>3, <1>6, <3>1, <3>2, <3>3
    <3>5. QED
      BY <3>1, <3>3, <3>4
  <2>4. Shape(0, n)'
    <3>1. n \in 0..log' /\ Len(local') <= log' /\ local' = Run(0, Len(local'))
      BY <1>1, <1>2, <2>3
    <3>2. Joins(buffered', Due(wire', log', 0), n, raced') /\ Tapped(buffered', Due(wire', log', 0))
      BY <1>2, <1>3, <1>5, <1>6, <1>9
    <3>3. QED
      BY <1>5, <2>3, <3>1, <3>2 DEF Shape
  <2>5. TypeOK' /\ (seed <= log)'
    <3>1. local' \in Seq(0..MaxSeq)
      BY <1>12, <2>3
    <3>2. request' \in -2..MaxSeq
      BY <1>1, <2>3 DEF NoRequest
    <3>3. QED
      BY <1>1, <1>2, <1>9, <1>12, <2>3, <3>1, <3>2 DEF MirrorIInv, TypeOK, Phases
  <2>6. QED
    BY <2>4, <2>5, ShapedThen
<1>15. QED
  BY <1>13, <1>14

\* One event that is due, tapped by a live mirror.
LEMMA OneTapped ==
  ASSUME NEW d \in Nat, NEW n, NEW r, Joins(<<>>, d, n, r), n \in Nat
  PROVE  Tapped(<<d>>, d + 1) /\ Joins(<<d>>, d + 1, n, r) /\ <<d>> \in Seq(Nat)
<1>1. Len(<<>>) = 0 /\ Len(<<d>>) = 1 /\ <<d>> \in Seq(Nat) /\ Append(<<>>, d) = <<d>> /\ <<>> \in Seq(Nat)
  OBVIOUS
<1>2. Tapped(<<>>, d)
  BY EmptyFacts
<1>3. QED
  BY <1>1, <1>2, TapFacts

\* An event is received: tapped while there is no live mirror, appended by a
\* live one, ignored by any other.
LEMMA ReceiveEventKeeps ==
  ASSUME MirrorIInv, Receive, NEW p \in Nat, NEW n \in Nat, p # 1, n <= log, Shape(p, n), WireIs(wire, log, p)
  PROVE  MirrorIInv'
<1>1. /\ log \in Nat /\ log <= MaxSeq /\ MaxSeq \in Nat /\ seed \in Nat /\ seed <= log /\ Len(local) \in Nat
      /\ buffered \in Seq(Nat)
  BY Starts
<1>2. /\ wire # <<>> /\ wire' = Tail(wire) /\ log' = log /\ seed' = seed /\ raced' = raced
  BY DEF Receive
<1>3. PICK q \in Nat :
        /\ WireIs(Tail(wire), log, q) /\ Due(Tail(wire), log, q) = Due(wire, log, p) + 1
        /\ Head(wire) = Event(Due(wire, log, p)) /\ Due(wire, log, p) \in 0..(log - 1)
        /\ q = 0 <=> p = 0
        /\ p # 0 => Tail(wire)[q] = wire[p]
  <2>1. log \in Nat /\ wire # <<>>
    BY <1>1, <1>2
  <2>2. QED
    BY <2>1, WireMoves, ZenonT(60)
<1>4. PICK d \in Nat : d = Due(wire, log, p) /\ d + 1 <= log
  <2>1. Due(wire, log, p) \in Nat /\ Due(wire, log, p) + 1 <= log
    BY <1>1, <1>3
  <2>2. QED
    BY <2>1
<1>5. ReceiveEvent(d)
  <2>1. Head(wire) = Event(d)
    BY <1>3, <1>4
  <2>2. QED
    BY <2>1, LineFacts DEF Receive
<1>6. WireIs(wire', log', q) /\ Due(wire', log', q) = d + 1
  BY <1>2, <1>3, <1>4
<1>7. d \in 0..MaxSeq
  BY <1>1, <1>4
<1>8. /\ request' = request /\ history' = history
      /\ buffered' = IF phase \in {"paging", "setup"} THEN Append(buffered, d) ELSE buffered
      /\ phase = "live" => AppendEvents(<<d>>)
      /\ phase # "live" => phase' = phase /\ local' = local
  BY <1>5 DEF ReceiveEvent
<1>9. buffered' \in Seq(0..MaxSeq)
  <2>1. buffered \in Seq(0..MaxSeq)
    BY DEF MirrorIInv, TypeOK
  <2>2. QED
    <3>1. Append(buffered, d) \in Seq(0..MaxSeq)
      BY <1>7, <2>1
    <3>2. QED
      BY <1>8, <2>1, <3>1
<1>10. Len(local) <= log /\ local = Run(0, Len(local)) /\ phase # "diverged" /\ (phase = "failed" => raced)
  BY DEF Shape
<1>11. CASE phase \in {"paging", "setup"}
  <2>1. Tapped(buffered, d)
    BY <1>4, <1>11 DEF Shape
  <2>2. /\ buffered' = Append(buffered, d) /\ Tapped(buffered', d + 1)
        /\ \A m, r : Joins(buffered, d, m, r) => Joins(buffered', d + 1, m, r)
    BY <1>1, <1>8, <1>11, <2>1, TapFacts
  <2>3. phase' = phase /\ local' = local
    BY <1>8, <1>11
  <2>4. phase = "paging" => Paging(q, n)'
    <3> SUFFICES ASSUME phase = "paging" PROVE Paging(q, n)'
      OBVIOUS
    <3>1. Paging(p, n)
      BY DEF Shape
    <3>2. PageIs(wire, p, n, history) /\ p # 0 => PageIs(wire', q, n, history')
      BY <1>2, <1>3, <1>8 DEF PageIs
    <3>3. request = Newest => raced
      BY <1>2, <3>1 DEF Paging
    <3>4. request # Newest => Joins(buffered', Due(wire', log', q), n, raced')
      BY <1>2, <1>4, <1>6, <2>2, <3>1 DEF Paging
    <3>5. QED
      BY <1>2, <1>3, <1>8, <2>3, <3>1, <3>2, <3>3, <3>4 DEF Paging
  <2>5. Shape(q, n)'
    <3>1. n \in 0..log' /\ Len(local') <= log'
      BY <1>1, <1>2, <1>10, <2>3
    <3>2. q # 0 => phase' = "paging" /\ request' = NoRequest
      BY <1>3, <1>8, <2>3 DEF Shape
    <3>3. phase = "setup" => n = Len(local') /\ Joins(buffered', Due(wire', log', q), n, raced')
      BY <1>2, <1>4, <1>6, <2>2, <2>3 DEF Shape
    <3>4. QED
      BY <1>2, <1>6, <1>10, <1>11, <2>2, <2>3, <2>4, <3>1, <3>2, <3>3 DEF Shape
  <2>6. TypeOK' /\ (seed <= log)'
    BY <1>1, <1>2, <1>8, <1>9, <2>3 DEF MirrorIInv, TypeOK
  <2>7. QED
    BY <2>5, <2>6, ShapedThen
<1>12. CASE phase = "live"
  <2>1. n = Len(local) /\ Joins(<<>>, d, n, raced) /\ q = 0 /\ request = NoRequest
    BY <1>3, <1>4, <1>12 DEF Shape, MirrorIInv, TypeOK
  <2>2. Tapped(<<d>>, d + 1) /\ Joins(<<d>>, d + 1, n, raced) /\ <<d>> \in Seq(Nat)
    BY <2>1, OneTapped
  <2>3. AppendEvents(<<d>>) /\ raced \in BOOLEAN /\ local = Run(0, n)
    BY <1>8, <1>10, <1>12, <2>1 DEF MirrorIInv, TypeOK
  <2>4. /\ local' = Run(0, Len(local')) /\ Len(local') \in 0..log /\ local' \in Seq(0..MaxSeq)
        /\ phase' \in {"live", "failed"}
        /\ phase' = "live" => Joins(<<>>, d + 1, Len(local'), raced)
        /\ phase' = "failed" => raced
    <3>1. d + 1 \in Nat /\ d + 1 <= log /\ n <= log /\ log \in Nat /\ log <= MaxSeq
      BY <1>1, <1>4
    <3>2. QED
      BY <2>2, <2>3, <3>1, AppendFacts, Zenon
  <2>5. PICK m \in Nat : m = Len(local') /\ m <= log
    BY <1>1, <2>4
  <2>6. Shape(0, m)'
    <3>1. m \in 0..log' /\ Len(local') <= log'
      BY <1>1, <1>2, <2>5
    <3>2. QED
      BY <1>2, <1>6, <2>1, <2>4, <2>5, <3>1 DEF Shape
  <2>7. TypeOK' /\ (seed <= log)'
    BY <1>1, <1>2, <1>8, <1>9, <2>1, <2>4 DEF MirrorIInv, TypeOK, Phases
  <2>8. QED
    BY <2>6, <2>7, ShapedThen
<1>13. CASE phase \notin {"paging", "setup", "live"}
  <2>1. phase' = phase /\ local' = local /\ q = 0
    BY <1>3, <1>8, <1>13 DEF Shape
  <2>2. Shape(0, n)'
    <3>1. n \in 0..log' /\ Len(local') <= log'
      BY <1>1, <1>2, <1>10, <2>1
    <3>2. QED
      BY <1>2, <1>6, <1>10, <1>13, <2>1, <3>1 DEF Shape
  <2>3. TypeOK' /\ (seed <= log)'
    BY <1>1, <1>2, <1>8, <1>9, <2>1 DEF MirrorIInv, TypeOK
  <2>4. QED
    BY <2>2, <2>3, ShapedThen
<1>14. QED
  BY <1>11, <1>12, <1>13

LEMMA ReceiveKeeps ==
  ASSUME MirrorIInv, Receive
  PROVE  MirrorIInv'
<1>1. PICK p \in Nat, n \in Nat : Shape(p, n) /\ n <= log /\ WireIs(wire, log, p)
  BY Starts
<1>2. CASE p = 1
  BY <1>1, <1>2, ReceivePageKeeps
<1>3. CASE p # 1
  BY <1>1, <1>3, ReceiveEventKeeps
<1>4. QED
  BY <1>2, <1>3

\* The buffer is drained: all of it is accepted unless it overlaps the history.
LEMMA GoLiveKeeps ==
  ASSUME MirrorIInv, GoLive
  PROVE  MirrorIInv'
<1>1. PICK p \in Nat, n \in Nat :
        Shape(p, n) /\ n <= log /\ WireIs(wire, log, p) /\ Due(wire, log, p) \in Nat /\ Due(wire, log, p) <= log
  BY Starts
<1>2. /\ log \in Nat /\ log <= MaxSeq /\ MaxSeq \in Nat /\ seed \in Nat /\ seed <= log /\ Len(local) \in Nat
      /\ buffered \in Seq(Nat)
  BY Starts
<1>3. /\ phase = "setup" /\ AppendEvents(buffered) /\ buffered' = <<>>
      /\ log' = log /\ wire' = wire /\ request' = request /\ seed' = seed /\ history' = history /\ raced' = raced
  BY DEF GoLive
<1>4. PICK d \in Nat : d = Due(wire, log, p) /\ d <= log
  BY <1>1
<1>5. /\ n = Len(local) /\ Joins(buffered, d, n, raced) /\ Tapped(buffered, d) /\ p = 0
      /\ local = Run(0, n) /\ request = NoRequest /\ raced \in BOOLEAN
  BY <1>1, <1>3, <1>4 DEF Shape, MirrorIInv, TypeOK
<1>6. /\ local' = Run(0, Len(local')) /\ Len(local') \in 0..log /\ local' \in Seq(0..MaxSeq)
      /\ phase' \in {"live", "failed"}
      /\ phase' = "live" => Joins(<<>>, d, Len(local'), raced)
      /\ phase' = "failed" => raced
  BY <1>1, <1>2, <1>3, <1>4, <1>5, AppendFacts
<1>7. PICK m \in Nat : m = Len(local') /\ m <= log
  BY <1>2, <1>6
<1>8. Shape(0, m)'
  <2>1. m \in 0..log' /\ Len(local') <= log' /\ WireIs(wire', log', 0) /\ Due(wire', log', 0) = d
    BY <1>1, <1>2, <1>3, <1>4, <1>5, <1>7
  <2>2. QED
    BY <1>3, <1>6, <1>7, <2>1 DEF Shape
<1>9. TypeOK' /\ (seed <= log)'
  <2>1. <<>> \in Seq(0..MaxSeq)
    OBVIOUS
  <2>2. QED
    BY <1>2, <1>3, <1>5, <1>6, <2>1 DEF MirrorIInv, TypeOK, Phases
<1>10. QED
  BY <1>8, <1>9, ShapedThen

\* A bootstrap or a mirror that has ended keeps its wire and its local log.
LEMMA EndKeeps ==
  ASSUME MirrorIInv, SetupFails \/ Dispose
  PROVE  MirrorIInv'
<1>1. PICK p \in Nat, n \in Nat : Shape(p, n) /\ n <= log /\ WireIs(wire, log, p)
  BY Starts
<1>2. /\ log' = log /\ wire' = wire /\ request' = request /\ seed' = seed /\ history' = history
      /\ raced' = raced /\ buffered' = buffered /\ local' = local
      /\ phase # "paging" /\ phase' \in {"rejected", "disposed"}
  BY DEF SetupFails, Dispose
<1>3. Shape(p, n)'
  BY <1>1, <1>2 DEF Shape
<1>4. TypeOK' /\ (seed <= log)'
  BY <1>2 DEF MirrorIInv, TypeOK, Phases
<1>5. QED
  BY <1>3, <1>4, ShapedThen

\* A lost channel takes the history call with it and no event.
LEMMA ChannelLostKeeps ==
  ASSUME MirrorIInv, ChannelLost
  PROVE  MirrorIInv'
<1>1. PICK p \in Nat, n \in Nat : Shape(p, n) /\ n <= log /\ WireIs(wire, log, p)
  BY Starts
<1>2. log \in Nat /\ log <= MaxSeq
  BY Starts
<1>3. /\ log' = log /\ wire' = Resent /\ request' = NoRequest /\ seed' = seed /\ history' = history
      /\ raced' = raced /\ buffered' = buffered /\ local' = local
      /\ phase' = IF phase = "paging" THEN "rejected" ELSE phase
  BY DEF ChannelLost
<1>4. WireIs(wire', log', 0) /\ Due(wire', log', 0) = Due(wire, log, p)
  BY <1>1, <1>2, <1>3, WireResent
<1>5. Shape(0, n)'
  BY <1>1, <1>3, <1>4 DEF Shape
<1>6. TypeOK' /\ (seed <= log)'
  <2>1. request' \in -2..MaxSeq
    BY <1>3, MirrorAssumption DEF NoRequest
  <2>2. QED
    BY <1>3, <2>1 DEF MirrorIInv, TypeOK, Phases
<1>7. QED
  BY <1>5, <1>6, ShapedThen

\* A bootstrap that is started again taps at the next event that is due.
LEMMA RetryKeeps ==
  ASSUME MirrorIInv, Retry
  PROVE  MirrorIInv'
<1>1. PICK p \in Nat, n \in Nat :
        Shape(p, n) /\ n <= log /\ WireIs(wire, log, p) /\ Due(wire, log, p) \in Nat
  BY Starts
<1>2. log \in Nat /\ log <= MaxSeq /\ MaxSeq \in Nat
  BY Starts
<1>3. /\ log' = log /\ wire' = wire /\ request' = Newest /\ seed' = 0 /\ history' = <<>>
      /\ buffered' = <<>> /\ local' = <<>> /\ phase' = "paging" /\ phase # "paging"
  BY DEF Retry
<1>4. raced' \in BOOLEAN /\ (~raced' => wire' = <<>>)
  BY Zenon DEF Retry
<1>5. p = 0
  BY <1>1, <1>3 DEF Shape
<1>6. Len(local') = 0 /\ local' = Run(0, 0) /\ Len(local') <= log' /\ <<>> \in Seq(0..MaxSeq)
  BY <1>2, <1>3, RunEmpty
<1>7. Tapped(buffered', Due(wire', log', 0)) /\ WireIs(wire', log', 0)
  BY <1>1, <1>3, <1>5, EmptyFacts
<1>8. Paging(0, n)'
  BY <1>3, <1>4, <1>6 DEF Paging, Newest, NoRequest
<1>9. Shape(0, n)'
  <2>1. n \in 0..log'
    BY <1>1, <1>2, <1>3
  <2>2. QED
    BY <1>3, <1>6, <1>7, <1>8, <2>1 DEF Shape
<1>10. TypeOK' /\ (seed <= log)'
  <2>1. request' \in -2..MaxSeq /\ log' \in 0..MaxSeq /\ seed' \in 0..MaxSeq /\ seed' <= log'
    BY <1>2, <1>3 DEF Newest
  <2>2. QED
    BY <1>3, <1>4, <1>6, <2>1 DEF TypeOK, Phases
<1>11. QED
  BY <1>9, <1>10, ShapedThen

\* A step that changes nothing.
LEMMA MirrorStutters ==
  ASSUME MirrorIInv, UNCHANGED vars
  PROVE  MirrorIInv'
<1>1. PICK p \in Nat, n \in Nat : Shape(p, n)
  BY Starts
<1>2. /\ log' = log /\ wire' = wire /\ request' = request /\ seed' = seed /\ history' = history
      /\ raced' = raced /\ buffered' = buffered /\ local' = local /\ phase' = phase
  BY DEF vars
<1>3. Shape(p, n)'
  <2>1. phase = "paging" => Paging(p, n)'
    BY <1>1, <1>2 DEF Shape, Paging
  <2>2. QED
    BY <1>1, <1>2, <2>1 DEF Shape
<1>4. TypeOK' /\ (seed <= log)'
  BY <1>2 DEF MirrorIInv, TypeOK
<1>5. QED
  BY <1>3, <1>4, ShapedThen

----------------------------------------------------------------------------
(* The theorems *)

\* What is read, tapped and still on its way is one gapless run of the remote
\* log in every reachable state, whatever is lost or started again (mirror.ts
\* bootstrap, events.ts readRemoteHistory).
THEOREM MirrorInvariant == Spec => []MirrorIInv
<1>1. Init => MirrorIInv
  BY InitMirror
<1>2. MirrorIInv /\ [Next]_vars => MirrorIInv'
  <2> SUFFICES ASSUME MirrorIInv, [Next]_vars PROVE MirrorIInv'
    OBVIOUS
  <2>1. CASE RemoteEvent
    BY <2>1, RemoteEventKeeps
  <2>2. CASE ServeHistory
    BY <2>2, ServeHistoryKeeps
  <2>3. CASE Receive
    BY <2>3, ReceiveKeeps
  <2>4. CASE GoLive
    BY <2>4, GoLiveKeeps
  <2>5. CASE SetupFails \/ Dispose
    BY <2>5, EndKeeps
  <2>6. CASE ChannelLost
    BY <2>6, ChannelLostKeeps
  <2>7. CASE Retry
    BY <2>7, RetryKeeps
  <2>8. CASE UNCHANGED vars
    BY <2>8, MirrorStutters
  <2>9. QED
    BY <2>1, <2>2, <2>3, <2>4, <2>5, <2>6, <2>7, <2>8 DEF Next
<1>3. QED
  BY <1>1, <1>2, PTL DEF Spec

\* The event at position n of the local log is event n of the remote one, and
\* paging backwards through a growing log never finds it non-contiguous
\* (mirror.ts appendEvent, events.ts readRemoteHistory).
THEOREM MirrorExactHolds == Spec => []MirrorExact
<1>1. MirrorIInv => MirrorExact
  BY DEF MirrorIInv, Shaped, Shape, MirrorExact
<1>2. QED
  BY <1>1, MirrorInvariant, PTL

\* A live mirror with nothing in flight holds the whole remote log, and only the
\* race of a tapped event with the newest page freezes one (mirror.ts bootstrap,
\* drain, appendEvent).
THEOREM MirrorSafe == Spec => []MirrorInv
<1>1. MirrorIInv => MirrorInv
  <2> SUFFICES ASSUME MirrorIInv PROVE MirrorInv
    OBVIOUS
  <2>1. PICK p \in Nat, n \in Nat : Shape(p, n) /\ n <= log /\ WireIs(wire, log, p)
    BY Starts
  <2>2. log \in Nat
    BY Starts
  <2>3. NothingLost
    <3> SUFFICES ASSUME phase = "live", wire = <<>> PROVE Len(local) = log
      BY DEF NothingLost
    <3>1. Due(wire, log, p) = log
      BY <2>1, <2>2, EmptyFacts
    <3>2. log - Len(<<>>) <= n /\ n = Len(local) /\ Len(<<>>) = 0
      BY <2>1, <3>1 DEF Shape, Joins
    <3>3. QED
      BY <2>1, <2>2, <3>2
  <2>4. OnlyRaceFreezes
    BY <2>1 DEF Shape, OnlyRaceFreezes
  <2>5. QED
    BY <2>3, <2>4 DEF MirrorIInv, MirrorInv
<1>2. QED
  BY <1>1, MirrorInvariant, PTL

=============================================================================
