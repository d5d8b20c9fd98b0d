-------------------------- MODULE HandleFeedProofs --------------------------
(***************************************************************************)
(* Proofs about HandleFeed, for every set of handles and every bound on    *)
(* the log, the calls, the lost channels and the queue.                    *)
(***************************************************************************)
EXTENDS HandleFeed, SequenceTheorems, TLAPS

----------------------------------------------------------------------------
(* The inductive invariant *)

\* Of the lines dn[j + 1], dn[j + 2] ..., every event is at most the next one
\* of a reader at cursor c, or follows the event before it.
Supported(dn, j, c) ==
  \A i \in (j + 1)..Len(dn) : dn[i].t = "event" =>
    \/ dn[i].seq <= c + 1
    \/ \E k \in (j + 1)..(i - 1) : dn[k].t = "event" /\ dn[k].seq + 1 = dn[i].seq

\* While the daemon sends, the last event of a log of length l has been read
\* or is among those lines.
Complete(dn, j, c, a, l) ==
  a => \/ l - 1 <= c
       \/ \E k \in (j + 1)..Len(dn) : dn[k].t = "event" /\ dn[k].seq = l - 1

Fed(dn, j, c, a, l) == Supported(dn, j, c) /\ Complete(dn, j, c, a, l)

\* The calls in flight and the answered ones, by what they do.
Pending(h, ops) == pend[h].op \in ops
Due(i, ops) == cont[i].call.op \in ops
Loop == {"reattach", "retry"}

\* At most one call of these kinds is in flight or answered.
Sole(ops) ==
  /\ \A g, h \in Handles : Pending(g, ops) /\ Pending(h, ops) => g = h
  /\ \A h \in Handles : Pending(h, ops) => \A i \in 1..Len(cont) : ~Due(i, ops)
  /\ \A i, j \in 1..Len(cont) : Due(i, ops) /\ Due(j, ops) => i = j

\* There is one live handle, no second one is on its way, and only the loop
\* re-attaches one and has handles to go through.
OneLive ==
  /\ Live \subseteq {registry} /\ (chan # "opening" => todo = {})
  /\ Sole({"attach"}) /\ Sole(Loop)
  /\ \A h \in Handles : Pending(h, {"attach"}) => chan = "up" /\ Live = {} /\ handle[h] = "none"
  /\ \A i \in 1..Len(cont) : Due(i, {"attach"}) => chan = "up" /\ Live = {} /\ handle[cont[i].h] = "none"
  /\ \A h \in Handles : Pending(h, Loop) => chan = "opening" /\ Live \subseteq {h} /\ h \notin todo
  /\ \A i \in 1..Len(cont) :
       Due(i, Loop) => chan = "opening" /\ Live \subseteq {cont[i].h} /\ cont[i].h \notin todo

\* A response is for one call.
IdsApart ==
  /\ \A h \in Handles : pend[h] # NoCall => pend[h].id <= calls
  /\ \A g, h \in Handles : pend[g] # NoCall /\ pend[g].id = pend[h].id => g = h
  /\ \A i \in 1..Len(up) : up[i].id <= calls
  /\ \A i \in 1..Len(down) : down[i].t = "result" => down[i].id <= calls

\* The first attach of a handle is the last request on its way ...
Asked(n) ==
  /\ up # <<>> /\ up[Len(up)].method = "attach" /\ up[Len(up)].since = -2 /\ up[Len(up)].id = n
  /\ \A i \in 1..(Len(up) - 1) : up[i].id # n
  /\ \A i \in 1..Len(down) : down[i].t = "result" => down[i].id # n

\* ... or served, and what follows its response is what the handle will need.
Served(n) ==
  /\ up = <<>>
  /\ \E j \in 1..Len(down) :
       /\ down[j].t = "result" /\ down[j].id = n
       /\ \A k \in 1..Len(down) : down[k].t = "result" /\ down[k].id = n => k = j
       /\ down[j].ok => Fed(down, j, down[j].last, att, log)

Attaches ==
  /\ \A h \in Handles : Pending(h, {"attach"}) => Asked(pend[h].id) \/ Served(pend[h].id)
  /\ \A i \in 1..Len(cont) : Due(i, {"attach"}) =>
       /\ up = <<>>
       /\ cont[i].ok /\ "event" \notin early => Fed(down, 0, cont[i].last, att, log)

\* What a live handle has delivered is gap-free and what is on its way goes on
\* from there; a replay starts no later than at its cursor.
Feeds ==
  /\ \A h \in Handles : handle[h] = "none" => delivered[h] = <<>>
  /\ \A h \in Live : "event" \notin early => GapFree(h) /\ Fed(down, 0, cursor[h], att, log)
  /\ \A h \in Live : \A i \in 1..Len(up) : up[i].method = "attach" => up[i].since \in -1..cursor[h]

\* Nothing speaks of an event that is not in the log.
InLog ==
  /\ \A h \in Handles : first[h] <= cursor[h] /\ cursor[h] < log
  /\ \A i \in 1..Len(down) :
       /\ down[i].t = "event" => down[i].seq < log
       /\ down[i].t = "result" => down[i].last < log
  /\ \A i \in 1..Len(cont) : cont[i].last < log
  /\ \A i \in 1..Len(up) : up[i].since < log

\* The calls the re-attach loop may still make.
Owed ==
  IF chan = "down" \/ todo \intersect Live # {} THEN 2
  ELSE IF (\E h \in Handles : Pending(h, {"reattach"})) \/ (\E i \in 1..Len(cont) : Due(i, {"reattach"}))
  THEN 1 ELSE 0

CallsBounded == calls + Owed <= MaxCalls + 2 * drops

FeedIInv == TypeOK /\ OneLive /\ IdsApart /\ Attaches /\ Feeds /\ InLog /\ CallsBounded

\* What a re-attach asks for, and its retry again, starts within what its handle
\* has seen.
Within(c, n) == c.op = "reattach" => c.since \in -1..n

Bases ==
  /\ \A h \in Handles : Within(pend[h], cursor[h])
  /\ \A i \in 1..Len(cont) : Within(cont[i].call, cursor[cont[i].h])

\* Write control: the lease is ours, or a line after dn[j] says that it is not.
Held(dn, j, l) ==
  l = "me" \/ \E i \in (j + 1)..Len(dn) : dn[i].t = "control" /\ dn[i].holder # "me"

\* The re-attach loop has still to find out what the mode of h is.
Unsettled(h) ==
  \/ chan = "down" \/ h \in todo
  \/ pend[h].op = "retry" \/ (pend[h].op = "reattach" /\ pend[h].mode = "write")
  \/ \E i \in 1..Len(cont) :
       /\ cont[i].h = h
       /\ cont[i].call.op = "retry" \/ (cont[i].call.op = "reattach" /\ ~cont[i].ok)

\* The holder of the lease is told when it loses it, and every way to write mode
\* is followed by that news: a line that grants it, a response that grants it, an
\* answered call that will set it, and a mode already set.
LeaseTold == lease = "me" => att

LinesHeld ==
  \A j \in 1..Len(down) : down[j].t = "control" /\ down[j].holder = "me" => Held(down, j, lease)

ResultsHeld ==
  \A h \in Handles, j \in 1..Len(down) :
    /\ pend[h] # NoCall /\ pend[h].mode = "write"
    /\ down[j].t = "result" /\ down[j].id = pend[h].id /\ down[j].ok
    => Held(down, j, lease)

ContsHeld ==
  \A i \in 1..Len(cont) :
    /\ Due(i, {"attach", "acquire"}) /\ cont[i].ok /\ cont[i].call.mode = "write"
    /\ "control" \notin early
    => Held(down, 0, lease)

ModesHeld ==
  \A h \in Live : mode[h] = "write" /\ "control" \notin early => Held(down, 0, lease) \/ Unsettled(h)

Granted == LeaseTold /\ LinesHeld /\ ResultsHeld /\ ContsHeld /\ ModesHeld

\* A request is made for the mode its caller waits for.
ModesAgree ==
  /\ \A h \in Handles : pend[h].op = "acquire" => pend[h].mode = "write"
  /\ \A i \in 1..Len(cont) : Due(i, {"acquire"}) => cont[i].call.mode = "write"
  /\ \A h \in Handles, i \in 1..Len(up) : pend[h] # NoCall /\ up[i].id = pend[h].id =>
       up[i].mode = pend[h].mode /\ (pend[h].mode = "write" => up[i].method = "attach")

ModeIInv == FeedIInv /\ Bases /\ Granted /\ ModesAgree



----------------------------------------------------------------------------
(* Sequences *)

\* What is appended to a sequence, and what is left of one.
LEMMA CatFacts ==
  ASSUME NEW S, NEW s \in Seq(S), NEW u \in Seq(S)
  PROVE  /\ s \o u \in Seq(S) /\ Len(s \o u) = Len(s) + Len(u) /\ Len(s) \in Nat /\ Len(u) \in Nat
         /\ \A i \in 1..Len(s) : (s \o u)[i] = s[i] /\ i \in 1..Len(s \o u)
         /\ \A i \in 1..Len(u) : (s \o u)[Len(s) + i] = u[i] /\ Len(s) + i \in 1..Len(s \o u)
         /\ \A i \in 1..Len(s \o u) : i \in 1..Len(s) \/ \E k \in 1..Len(u) : i = Len(s) + k
<1>1. /\ s \o u \in Seq(S) /\ Len(s \o u) = Len(s) + Len(u) /\ Len(s) \in Nat /\ Len(u) \in Nat
      /\ \A i \in 1..(Len(s) + Len(u)) : (s \o u)[i] = IF i <= Len(s) THEN s[i] ELSE u[i - Len(s)]
  BY ConcatProperties
<1> DEFINE w == s \o u
<1> HIDE DEF w
<1>2. Len(w) = Len(s) + Len(u) /\ \A i \in 1..(Len(s) + Len(u)) : w[i] = IF i <= Len(s) THEN s[i] ELSE u[i - Len(s)]
  BY <1>1 DEF w
<1>3. ASSUME NEW i \in 1..Len(s) PROVE w[i] = s[i] /\ i \in 1..Len(w)
  BY <1>1, <1>2
<1>4. ASSUME NEW i \in 1..Len(u) PROVE w[Len(s) + i] = u[i] /\ Len(s) + i \in 1..Len(w)
  <2>1. Len(s) + i \in 1..(Len(s) + Len(u)) /\ ~(Len(s) + i <= Len(s)) /\ (Len(s) + i) - Len(s) = i
    BY <1>1
  <2>2. QED
    BY <1>2, <2>1
<1>5. ASSUME NEW i \in 1..Len(w) PROVE i \in 1..Len(s) \/ \E k \in 1..Len(u) : i = Len(s) + k
  <2>1. CASE i <= Len(s)
    BY <1>1, <2>1
  <2>2. CASE ~(i <= Len(s))
    <3>1. i - Len(s) \in 1..Len(u) /\ i = Len(s) + (i - Len(s))
      BY <1>1, <1>2, <2>2
    <3>2. QED
      BY <3>1
  <2>3. QED
    BY <2>1, <2>2
<1>6. QED
  BY <1>1, <1>3, <1>4, <1>5 DEF w

Assoc(s, t, u) == (s \o t) \o u = s \o (t \o u)

LEMMA CatThree ==
  ASSUME NEW s \in Seq(Lines), NEW t \in Seq(Lines), NEW u \in Seq(Lines)
  PROVE  Assoc(s, t, u)
BY ConcatAssociative, SMTT(30) DEF Assoc

Regroups(s, t, u, v) == ((s \o t) \o u) \o v = s \o ((t \o u) \o v)

LEMMA CatFour ==
  ASSUME NEW s \in Seq(Lines), NEW t \in Seq(Lines), NEW u \in Seq(Lines), NEW v \in Seq(Lines)
  PROVE  Regroups(s, t, u, v)
<1>1. PICK m : m = t \o u
  OBVIOUS
<1>2. m \in Seq(Lines)
  BY <1>1, CatFacts
<1>3. Assoc(s, t, u)
  BY CatThree
<1>4. Assoc(s, m, v)
  BY <1>2, CatThree
<1>5. QED
  BY <1>1, <1>3, <1>4, Zenon DEF Regroups, Assoc

LEMMA SnocFacts ==
  ASSUME NEW S, NEW s \in Seq(S), NEW e \in S
  PROVE  /\ Append(s, e) \in Seq(S) /\ Len(Append(s, e)) = Len(s) + 1 /\ Append(s, e)[Len(s) + 1] = e
         /\ \A i \in 1..Len(s) : Append(s, e)[i] = s[i] /\ i \in 1..Len(Append(s, e))
         /\ \A i \in 1..Len(Append(s, e)) : i \in 1..Len(s) \/ i = Len(s) + 1
         /\ Len(s) \in Nat /\ Append(s, e) # <<>>
<1> DEFINE w == Append(s, e)
<1>1. w \in Seq(S) /\ Len(w) = Len(s) + 1 /\ w[Len(s) + 1] = e /\ Len(s) \in Nat /\ \A i \in 1..Len(s) : w[i] = s[i]
  BY AppendProperties
<1> HIDE DEF w
<1>2. w # <<>>
  <2>1. Len(w) # 0
    BY <1>1
  <2>2. QED
    BY <2>1, EmptySeq
<1>3. QED
  BY <1>1, <1>2 DEF w

LEMMA RestFacts ==
  ASSUME NEW S, NEW s \in Seq(S), s # <<>>
  PROVE  /\ Tail(s) \in Seq(S) /\ Len(Tail(s)) = Len(s) - 1 /\ Len(s) \in Nat /\ Len(s) >= 1
         /\ Head(s) = s[1] /\ Head(s) \in S
         /\ \A i \in 1..Len(Tail(s)) : Tail(s)[i] = s[i + 1] /\ i + 1 \in 1..Len(s)
         /\ Len(s) = 1 => Tail(s) = <<>>
<1> DEFINE w == Tail(s)
<1>1. Len(s) \in Nat /\ Len(s) # 0
  BY EmptySeq
<1>2. w \in Seq(S) /\ Len(w) = Len(s) - 1 /\ Head(s) = s[1] /\ Head(s) \in S /\ \A i \in 1..Len(w) : w[i] = s[i + 1]
  BY <1>1, HeadTailProperties
<1> HIDE DEF w
<1>3. Len(s) = 1 => w = <<>>
  <2>1. Len(s) = 1 => Len(w) = 0
    BY <1>2
  <2>2. QED
    BY <1>2, <2>1, EmptySeq
<1>4. QED
  BY <1>1, <1>2, <1>3 DEF w

LEMMA NoneFacts ==
  /\ Len(<<>>) = 0 /\ \A S : <<>> \in Seq(S)
  /\ \A S : \A s \in Seq(S) : Len(s) = 0 <=> s = <<>>
<1>1. Len(<<>>) = 0 /\ \A S : <<>> \in Seq(S)
  OBVIOUS
<1>2. \A S : \A s \in Seq(S) : Len(s) = 0 <=> s = <<>>
  BY EmptySeq
<1>3. QED
  BY <1>1, <1>2

----------------------------------------------------------------------------
(* Lines and feeds *)

\* What a line is.
LEMMA LineFacts ==
  /\ \A l \in Lines : l.t \in {"event", "control", "result"}
  /\ \A l \in Lines : l.t = "event" => l.seq \in 0..MaxSeq /\ l.seq \in Int
  /\ \A l \in Lines : l.t = "result" => l.id \in Nat /\ l.ok \in BOOLEAN /\ l.last \in -1..MaxSeq
  /\ \A n \in 0..MaxSeq : Event(n) \in Lines
  /\ \A n : Event(n).t = "event" /\ Event(n).seq = n
  /\ \A h \in {"me", "rival", "none"}, w \in {"acquired", "preempted", "released", "disconnected"} :
       Control(h, w) \in Lines
  /\ \A h, w : Control(h, w).t = "control" /\ Control(h, w).holder = h
<1>0. MaxSeq \in Nat
  BY FeedAssumption
<1>1. \A l \in Lines : l.t \in {"event", "control", "result"}
  BY DEF Lines
<1>2. \A l \in Lines : l.t = "event" => l.seq \in 0..MaxSeq
  BY DEF Lines
<1>3. \A l \in Lines : l.t = "result" => l.id \in Nat /\ l.ok \in BOOLEAN /\ l.last \in -1..MaxSeq
  BY DEF Lines
<1>4. \A n \in 0..MaxSeq : Event(n) \in Lines
  BY DEF Lines, Event
<1>5. \A n : Event(n).t = "event" /\ Event(n).seq = n
  BY DEF Event
<1>6. \A h \in {"me", "rival", "none"}, w \in {"acquired", "preempted", "released", "disconnected"} :
       Control(h, w) \in Lines
  BY DEF Lines, Control
<1>7. \A h, w : Control(h, w).t = "control" /\ Control(h, w).holder = h
  BY DEF Control
<1>8. QED
  BY <1>0, <1>1, <1>2, <1>3, <1>4, <1>5, <1>6, <1>7

\* Events of L that go on from a reader at cursor c, or from the end of the log
\* when the daemon sends (a).
GoesOn(L, c, a, l) ==
  \A i \in 1..Len(L) : L[i].t = "event" =>
    \/ L[i].seq <= c + 1
    \/ \E k \in 1..(i - 1) : L[k].t = "event" /\ L[k].seq + 1 = L[i].seq
    \/ a /\ L[i].seq = l

\* The end of a log of length l2 is among L, or as near as that of l was.
Reaches(L, c, a, l, a2, l2) ==
  a2 => \/ \E k \in 1..Len(L) : L[k].t = "event" /\ L[k].seq = l2 - 1
        \/ l2 - 1 <= c
        \/ a /\ l2 = l

\* A feed goes on with such lines.
LEMMA FedGrows ==
  ASSUME NEW dn \in Seq(Lines), NEW L \in Seq(Lines), NEW j \in 0..Len(dn), NEW c \in Int,
         NEW a \in BOOLEAN, NEW l \in Nat, NEW a2 \in BOOLEAN, NEW l2 \in Nat,
         Fed(dn, j, c, a, l), GoesOn(L, c, a, l), Reaches(L, c, a, l, a2, l2)
  PROVE  Fed(dn \o L, j, c, a2, l2)
<1> DEFINE w == dn \o L
<1>1. /\ w \in Seq(Lines) /\ Len(w) = Len(dn) + Len(L) /\ Len(dn) \in Nat /\ Len(L) \in Nat
      /\ \A i \in 1..Len(dn) : w[i] = dn[i] /\ i \in 1..Len(w)
      /\ \A i \in 1..Len(L) : w[Len(dn) + i] = L[i] /\ Len(dn) + i \in 1..Len(w)
      /\ \A i \in 1..Len(w) : i \in 1..Len(dn) \/ \E k \in 1..Len(L) : i = Len(dn) + k
  BY CatFacts
<1> HIDE DEF w
<1>2. \A k \in (j + 1)..Len(dn) : k \in 1..Len(dn) /\ k \in (j + 1)..Len(w) /\ w[k] = dn[k]
  BY <1>1
<1>3. \A k \in 1..Len(L) : Len(dn) + k \in (j + 1)..Len(w) /\ w[Len(dn) + k] = L[k]
  BY <1>1
<1>4. a => \/ l - 1 <= c
           \/ \E k \in (j + 1)..Len(dn) : w[k].t = "event" /\ w[k].seq = l - 1
  BY <1>2 DEF Fed, Complete
<1>5. ASSUME NEW i \in (j + 1)..Len(w), w[i].t = "event"
      PROVE  \/ w[i].seq <= c + 1
             \/ \E k \in (j + 1)..(i - 1) : w[k].t = "event" /\ w[k].seq + 1 = w[i].seq
  <2>1. CASE i \in 1..Len(dn)
    <3>1. i \in (j + 1)..Len(dn) /\ dn[i].t = "event" /\ w[i] = dn[i]
      BY <1>1, <1>2, <1>5, <2>1
    <3>2. \/ dn[i].seq <= c + 1
          \/ \E k \in (j + 1)..(i - 1) : dn[k].t = "event" /\ dn[k].seq + 1 = dn[i].seq
      BY <3>1 DEF Fed, Supported
    <3>3. \A k \in (j + 1)..(i - 1) : w[k] = dn[k]
      BY <1>1, <1>2, <3>1
    <3>4. QED
      BY <3>1, <3>2, <3>3
  <2>2. CASE i \notin 1..Len(dn)
    <3>1. PICK m \in 1..Len(L) : i = Len(dn) + m
      BY <1>1, <2>2
    <3>2. w[i] = L[m] /\ L[m].t = "event" /\ L[m] \in Lines
      BY <1>1, <1>5, <3>1
    <3>3. CASE L[m].seq <= c + 1
      BY <3>2, <3>3
    <3>4. CASE \E k \in 1..(m - 1) : L[k].t = "event" /\ L[k].seq + 1 = L[m].seq
      <4>1. PICK k \in 1..(m - 1) : L[k].t = "event" /\ L[k].seq + 1 = L[m].seq
        BY <3>4
      <4>2. Len(dn) + k \in (j + 1)..(i - 1) /\ w[Len(dn) + k] = L[k]
        BY <1>1, <1>3, <3>1
      <4>3. QED
        BY <3>2, <4>1, <4>2
    <3>5. CASE a /\ L[m].seq = l
      <4>1. CASE l - 1 <= c
        BY <3>2, <3>5, <4>1
      <4>2. CASE \E k \in (j + 1)..Len(dn) : w[k].t = "event" /\ w[k].seq = l - 1
        <5>1. PICK k \in (j + 1)..Len(dn) : w[k].t = "event" /\ w[k].seq = l - 1
          BY <4>2
        <5>2. k \in (j + 1)..(i - 1)
          BY <1>1, <3>1
        <5>3. w[k].seq + 1 = w[i].seq
          BY <3>2, <3>5, <5>1
        <5>4. QED
          BY <5>1, <5>2, <5>3
      <4>3. QED
        BY <1>4, <3>5, <4>1, <4>2
    <3>6. QED
      BY <3>2, <3>3, <3>4, <3>5 DEF GoesOn
  <2>3. QED
    BY <2>1, <2>2
<1>6. a2 => \/ l2 - 1 <= c
            \/ \E k \in (j + 1)..Len(w) : w[k].t = "event" /\ w[k].seq = l2 - 1
  BY <1>2, <1>3, <1>4 DEF Reaches
<1>7. Fed(w, j, c, a2, l2)
  BY <1>5, <1>6 DEF Fed, Supported, Complete
<1>8. QED
  BY <1>7 DEF w

\* A line is taken from a feed.
LEMMA FedMoves ==
  ASSUME NEW dn \in Seq(Lines), dn # <<>>, NEW j \in 0..Len(dn), NEW c \in Int, NEW a, NEW l \in Nat,
         Fed(dn, j, c, a, l)
  PROVE  /\ j # 0 => Fed(Tail(dn), j - 1, c, a, l)
         /\ j = 0 /\ dn[1].t # "event" => Fed(Tail(dn), 0, c, a, l)
         /\ j = 0 /\ dn[1].t = "event" =>
              /\ dn[1].seq <= c + 1
              /\ dn[1].seq <= c => Fed(Tail(dn), 0, c, a, l)
              /\ dn[1].seq > c => Fed(Tail(dn), 0, dn[1].seq, a, l)
<1> DEFINE w == Tail(dn)
<1>1. /\ w \in Seq(Lines) /\ Len(w) = Len(dn) - 1 /\ Len(dn) \in Nat /\ Len(dn) >= 1
      /\ \A i \in 1..Len(w) : w[i] = dn[i + 1] /\ i + 1 \in 1..Len(dn)
  BY RestFacts
<1>2. \A i \in 1..Len(dn) : dn[i].t = "event" => dn[i].seq \in Int
  BY LineFacts
<1> HIDE DEF w
<1>3. j = 0 /\ dn[1].t = "event" => dn[1].seq <= c + 1
  <2> SUFFICES ASSUME j = 0, dn[1].t = "event" PROVE dn[1].seq <= c + 1
    OBVIOUS
  <2>1. 1 \in (j + 1)..Len(dn) /\ ~ \E k \in (j + 1)..(1 - 1) : TRUE
    BY <1>1
  <2>2. QED
    BY <2>1 DEF Fed, Supported
<1>4. ASSUME NEW m \in Nat, NEW d \in Int, c <= d, m + 1 >= j,
             \A k \in (j + 1)..(m + 1) : dn[k].t = "event" => dn[k].seq <= d
      PROVE  Fed(w, m, d, a, l)
  <2>1. ASSUME NEW i \in (m + 1)..Len(w), w[i].t = "event"
        PROVE  w[i].seq <= d + 1 \/ \E k \in (m + 1)..(i - 1) : w[k].t = "event" /\ w[k].seq + 1 = w[i].seq
    <3>1. i + 1 \in (j + 1)..Len(dn) /\ w[i] = dn[i + 1] /\ dn[i + 1].seq \in Int
      BY <1>1, <1>2, <1>4, <2>1
    <3>2. CASE dn[i + 1].seq <= c + 1
      BY <1>4, <3>1, <3>2
    <3>3. CASE \E k \in (j + 1)..((i + 1) - 1) : dn[k].t = "event" /\ dn[k].seq + 1 = dn[i + 1].seq
      <4>1. PICK k \in (j + 1)..((i + 1) - 1) : dn[k].t = "event" /\ dn[k].seq + 1 = dn[i + 1].seq
        BY <3>3
      <4>2. CASE k <= m + 1
        <5>1. dn[k].seq <= d
          BY <1>4, <4>1, <4>2
        <5>2. k \in 1..Len(dn) /\ dn[k].seq \in Int
          BY <1>1, <1>2, <4>1
        <5>3. dn[i + 1].seq <= d + 1
          BY <4>1, <5>1, <5>2
        <5>4. QED
          BY <3>1, <5>3
      <4>3. CASE k > m + 1
        <5>1. k - 1 \in (m + 1)..(i - 1) /\ k - 1 \in 1..Len(w) /\ (k - 1) + 1 = k
          BY <1>1, <4>3
        <5>2. w[k - 1] = dn[k]
          BY <1>1, <5>1
        <5>3. QED
          BY <3>1, <4>1, <5>1, <5>2
      <4>4. QED
        BY <4>2, <4>3
    <3>4. QED
      BY <2>1, <3>1, <3>2, <3>3 DEF Fed, Supported
  <2>2. a => l - 1 <= d \/ \E k \in (m + 1)..Len(w) : w[k].t = "event" /\ w[k].seq = l - 1
    <3> SUFFICES ASSUME a PROVE l - 1 <= d \/ \E k \in (m + 1)..Len(w) : w[k].t = "event" /\ w[k].seq = l - 1
      OBVIOUS
    <3>1. CASE l - 1 <= c
      BY <1>4, <3>1
    <3>2. CASE \E k \in (j + 1)..Len(dn) : dn[k].t = "event" /\ dn[k].seq = l - 1
      <4>1. PICK k \in (j + 1)..Len(dn) : dn[k].t = "event" /\ dn[k].seq = l - 1
        BY <3>2
      <4>2. CASE k <= m + 1
        BY <1>4, <4>1, <4>2
      <4>3. CASE k > m + 1
        <5>1. k - 1 \in (m + 1)..Len(w) /\ k - 1 \in 1..Len(w) /\ (k - 1) + 1 = k
          BY <1>1, <4>3
        <5>2. w[k - 1] = dn[k]
          BY <1>1, <5>1
        <5>3. QED
          BY <4>1, <5>1, <5>2
      <4>4. QED
        BY <4>2, <4>3
    <3>3. QED
      BY <3>1, <3>2 DEF Fed, Complete
  <2>3. QED
    BY <2>1, <2>2 DEF Fed, Supported, Complete
<1>5. j # 0 => Fed(w, j - 1, c, a, l)
  <2> SUFFICES ASSUME j # 0 PROVE Fed(w, j - 1, c, a, l)
    OBVIOUS
  <2>1. j - 1 \in Nat /\ c <= c /\ (j - 1) + 1 >= j /\ ~ \E k \in (j + 1)..((j - 1) + 1) : TRUE
    BY <1>1
  <2>2. QED
    BY <1>4, <2>1
<1>6. j = 0 => \A k \in (j + 1)..(0 + 1) : k = 1
  OBVIOUS
<1>7. j = 0 /\ dn[1].t # "event" => Fed(w, 0, c, a, l)
  BY <1>4, <1>6
<1>8. j = 0 /\ dn[1].t = "event" /\ dn[1].seq <= c => Fed(w, 0, c, a, l)
  BY <1>4, <1>6
<1>9. j = 0 /\ dn[1].t = "event" /\ dn[1].seq > c => Fed(w, 0, dn[1].seq, a, l)
  <2> SUFFICES ASSUME j = 0, dn[1].t = "event", dn[1].seq > c PROVE Fed(w, 0, dn[1].seq, a, l)
    OBVIOUS
  <2>1. dn[1].seq \in Int /\ c <= dn[1].seq /\ dn[1].seq <= dn[1].seq
    BY <1>1, <1>2
  <2>2. QED
    BY <1>4, <1>6, <2>1
<1>10. QED
  BY <1>3, <1>5, <1>7, <1>8, <1>9 DEF w

\* A feed that has nothing to send, and one that starts at the end of the log.
LEMMA FedStarts ==
  ASSUME NEW dn \in Seq(Lines), NEW l \in Nat, NEW a
  PROVE  Fed(dn, Len(dn), l - 1, a, l) /\ \A c : Fed(<<>>, 0, c, FALSE, l)
<1>1. Len(dn) \in Nat
  OBVIOUS
<1>2. Fed(dn, Len(dn), l - 1, a, l)
  <2>1. ~ \E k \in (Len(dn) + 1)..Len(dn) : TRUE
    BY <1>1
  <2>2. QED
    BY <2>1 DEF Fed, Supported, Complete
<1>3. \A c : Fed(<<>>, 0, c, FALSE, l)
  BY DEF Fed, Supported, Complete
<1>4. QED
  BY <1>2, <1>3

----------------------------------------------------------------------------
(* What stays when its variables do *)

LEMMA LiveKept ==
  ASSUME UNCHANGED handle
  PROVE  Live' = Live
BY DEF Live

LEMMA OneLiveKept ==
  ASSUME OneLive, UNCHANGED <<chan, todo, pend, cont, registry, handle>>
  PROVE  OneLive'
<1>1. Live' = Live
  BY LiveKept
<1>2. QED
  BY <1>1 DEF OneLive, Sole, Pending, Due

LEMMA CallsBoundedKept ==
  ASSUME CallsBounded, UNCHANGED <<chan, todo, pend, cont, calls, drops, handle>>
  PROVE  CallsBounded'
<1>1. Live' = Live
  BY LiveKept
<1>2. QED
  BY <1>1 DEF CallsBounded, Owed, Pending, Due

LEMMA TypeKept ==
  /\ TypeOK => log \in Nat /\ drops \in Nat /\ calls \in Nat /\ MaxSeq \in Nat
  /\ TypeOK => \A h \in Handles : cursor[h] \in Int /\ cursor[h] \in -1..MaxSeq /\ first[h] \in Int
  /\ TypeOK => \A i \in 1..Len(down) : down[i] \in Lines
  /\ TypeOK => \A i \in 1..Len(up) : up[i] \in Sent
  /\ TypeOK => \A i \in 1..Len(cont) : cont[i] \in [h : Handles, call : Calls, ok : BOOLEAN, last : -1..MaxSeq]
<1>1. TypeOK => log \in Nat /\ drops \in Nat /\ calls \in Nat /\ MaxSeq \in Nat
  BY FeedAssumption DEF TypeOK
<1>2. TypeOK => \A h \in Handles : cursor[h] \in Int /\ cursor[h] \in -1..MaxSeq /\ first[h] \in Int
  BY FeedAssumption DEF TypeOK
<1>3. TypeOK => \A i \in 1..Len(down) : down[i] \in Lines
  BY DEF TypeOK
<1>4. TypeOK => \A i \in 1..Len(up) : up[i] \in Sent
  BY DEF TypeOK
<1>5. TypeOK => \A i \in 1..Len(cont) : cont[i] \in [h : Handles, call : Calls, ok : BOOLEAN, last : -1..MaxSeq]
  <2> DEFINE Settled == [h : Handles, call : Calls, ok : BOOLEAN, last : -1..MaxSeq]
  <2>1. TypeOK => cont \in Seq(Settled)
    BY DEF TypeOK
  <2> HIDE DEF Settled
  <2>2. TypeOK => \A i \in 1..Len(cont) : cont[i] \in Settled
    BY <2>1
  <2>3. QED
    BY <2>2 DEF Settled
<1>6. QED
  BY <1>1, <1>2, <1>3, <1>4, <1>5

\* Lines appended to those on their way.
Joined(w, s, u) ==
  /\ w \in Seq(Lines) /\ Len(w) = Len(s) + Len(u) /\ Len(s) \in Nat /\ Len(u) \in Nat
  /\ \A i \in 1..Len(s) : w[i] = s[i] /\ i \in 1..Len(w)
  /\ \A i \in 1..Len(u) : w[Len(s) + i] = u[i] /\ Len(s) + i \in 1..Len(w)
  /\ \A i \in 1..Len(w) : i \in 1..Len(s) \/ \E k \in 1..Len(u) : i = Len(s) + k

LEMMA JoinedLines ==
  ASSUME NEW s \in Seq(Lines), NEW u \in Seq(Lines)
  PROVE  Joined(s \o u, s, u)
BY CatFacts DEF Joined

----------------------------------------------------------------------------
(* The daemon speaks unasked *)

\* Lines that are not responses, that go on from the end of the log while the
\* client is attached, and with which the log may grow.
Pushed(L, l, l2) ==
  /\ L \in Seq(Lines) /\ l2 \in l..MaxSeq
  /\ \A i \in 1..Len(L) : L[i].t # "result" /\ (L[i].t = "event" => L[i].seq < l2)
  /\ \A c \in Int : GoesOn(L, c, att, l) /\ Reaches(L, c, att, l, att, l2)

\* A feed goes on with what the daemon pushes.
LEMMA PushFeeds ==
  ASSUME TypeOK, NEW L, NEW l2, Pushed(L, log, l2), NEW j \in 0..Len(down), NEW c \in Int,
         Fed(down, j, c, att, log)
  PROVE  Fed(down \o L, j, c, att, l2)
<1>1. down \in Seq(Lines) /\ L \in Seq(Lines) /\ att \in BOOLEAN /\ log \in Nat /\ l2 \in Nat
  BY TypeKept DEF TypeOK, Pushed
<1>2. GoesOn(L, c, att, log) /\ Reaches(L, c, att, log, att, l2)
  BY DEF Pushed
<1>3. QED
  BY <1>1, <1>2, FedGrows

LEMMA PushKeeps ==
  ASSUME FeedIInv, NEW L, Pushed(L, log, log'), down' = down \o L,
         UNCHANGED <<att, up, chan, todo, callVars, handleVars, drops, early, orphaned>>,
         lease' \in {"free", "me", "rival", "stale"}
  PROVE  FeedIInv'
<1> USE DEF callVars, handleVars
<1>1. TypeOK /\ OneLive /\ IdsApart /\ Attaches /\ Feeds /\ InLog /\ CallsBounded
  BY DEF FeedIInv
<1>2. /\ log \in Nat /\ log' \in log..MaxSeq /\ MaxSeq \in Nat /\ log' \in Nat /\ log <= log' /\ log' \in 0..MaxSeq
      /\ L \in Seq(Lines) /\ down \in Seq(Lines)
      /\ \A i \in 1..Len(L) : L[i].t # "result" /\ (L[i].t = "event" => L[i].seq < log')
  <2>1. /\ L \in Seq(Lines) /\ log' \in log..MaxSeq
        /\ \A i \in 1..Len(L) : L[i].t # "result" /\ (L[i].t = "event" => L[i].seq < log')
    BY Zenon DEF Pushed
  <2>2. log \in Nat /\ MaxSeq \in Nat /\ down \in Seq(Lines)
    BY <1>1, TypeKept DEF TypeOK
  <2>3. QED
    BY <2>1, <2>2
<1>3. /\ down' \in Seq(Lines) /\ Len(down') = Len(down) + Len(L) /\ Len(down) \in Nat /\ Len(L) \in Nat
      /\ \A i \in 1..Len(down) : down'[i] = down[i] /\ i \in 1..Len(down')
      /\ \A i \in 1..Len(L) : down'[Len(down) + i] = L[i] /\ Len(down) + i \in 1..Len(down')
      /\ \A i \in 1..Len(down') : i \in 1..Len(down) \/ \E k \in 1..Len(L) : i = Len(down) + k
  <2>1. Joined(down', down, L)
    BY <1>2, JoinedLines
  <2>2. QED
    BY <2>1 DEF Joined
<1>4. ASSUME NEW i \in 1..Len(down'), down'[i].t = "result" PROVE i \in 1..Len(down) /\ down'[i] = down[i]
  <2>1. ASSUME NEW k \in 1..Len(L), i = Len(down) + k PROVE FALSE
    <3>1. down'[i] = L[k]
      BY <1>3, <2>1
    <3>2. QED
      BY <1>2, <1>4, <3>1
  <2>2. i \in 1..Len(down)
    BY <1>3, <2>1
  <2>3. QED
    BY <1>3, <2>2
<1>5. Live' = Live
  BY LiveKept
<1>6. TypeOK'
  BY <1>1, <1>2, <1>3 DEF TypeOK
<1>7. OneLive' /\ CallsBounded'
  BY <1>1, OneLiveKept, CallsBoundedKept
<1>8. IdsApart'
  BY <1>1, <1>4 DEF IdsApart
<1>9. ASSUME NEW j \in 0..Len(down), NEW c \in Int, Fed(down, j, c, att, log) PROVE Fed(down', j, c, att', log')
  <2>1. Fed(down \o L, j, c, att, log')
    BY <1>1, <1>9, PushFeeds
  <2>2. QED
    BY <2>1
<1>10. ASSUME NEW n PROVE Asked(n) => Asked(n)'
  BY <1>4 DEF Asked
<1>11. ASSUME NEW n, Served(n) PROVE Served(n)'
  <2>1. PICK j \in 1..Len(down) :
       /\ down[j].t = "result" /\ down[j].id = n
       /\ \A k \in 1..Len(down) : down[k].t = "result" /\ down[k].id = n => k = j
       /\ down[j].ok => Fed(down, j, down[j].last, att, log)
    BY <1>11 DEF Served
  <2>2. down[j].last \in Int /\ j \in 0..Len(down) /\ j \in 1..Len(down') /\ down'[j] = down[j]
    <3>1. down[j] \in Lines
      BY <1>1, TypeKept
    <3>2. down[j].last \in -1..MaxSeq
      BY <2>1, <3>1, LineFacts
    <3>3. QED
      BY <1>2, <1>3, <3>2
  <2>3. down[j].ok => Fed(down', j, down[j].last, att', log')
    BY <1>9, <2>1, <2>2
  <2>4. \A k \in 1..Len(down') : down'[k].t = "result" /\ down'[k].id = n => k = j
    BY <1>4, <2>1
  <2>5. up' = <<>>
    BY <1>11 DEF Served
  <2>6. /\ down'[j].t = "result" /\ down'[j].id = n
        /\ down'[j].ok => Fed(down', j, down'[j].last, att', log')
    BY <2>1, <2>2, <2>3
  <2>7. QED
    BY <2>2, <2>4, <2>5, <2>6 DEF Served
<1>12. Attaches'
  <2>1. ASSUME NEW h \in Handles, Pending(h, {"attach"})' PROVE Asked(pend[h].id)' \/ Served(pend[h].id)'
    <3>1. Pending(h, {"attach"}) /\ pend'[h].id = pend[h].id
      BY <2>1 DEF Pending
    <3>2. PICK n : n = pend[h].id
      OBVIOUS
    <3>3. Asked(n) \/ Served(n)
      BY <1>1, <3>1, <3>2 DEF Attaches
    <3>4. Asked(n)' \/ Served(n)'
      BY <1>10, <1>11, <3>3
    <3>5. QED
      BY <3>1, <3>2, <3>4
  <2>2. ASSUME NEW i \in 1..Len(cont'), Due(i, {"attach"})'
        PROVE  up' = <<>> /\ (cont'[i].ok /\ "event" \notin early' => Fed(down', 0, cont'[i].last, att', log'))
    <3>1. Due(i, {"attach"}) /\ i \in 1..Len(cont) /\ 0 \in 0..Len(down) /\ cont[i].last \in Int
      BY <1>1, <1>2, <1>3, <2>2, TypeKept DEF Due
    <3>2. up = <<>> /\ (cont[i].ok /\ "event" \notin early => Fed(down, 0, cont[i].last, att, log))
      BY <1>1, <3>1 DEF Attaches
    <3>3. QED
      BY <1>9, <3>1, <3>2
  <2>3. QED
    BY <2>1, <2>2 DEF Attaches
<1>13. Feeds'
  <2>1. ASSUME NEW h \in Live, "event" \notin early PROVE GapFree(h)' /\ Fed(down', 0, cursor'[h], att', log')
    <3>1. h \in Handles /\ cursor[h] \in Int /\ 0 \in 0..Len(down)
      BY <1>1, <1>3, TypeKept DEF Live
    <3>2. GapFree(h) /\ Fed(down, 0, cursor[h], att, log)
      BY <1>1, <2>1 DEF Feeds
    <3>3. GapFree(h)'
      BY <3>2 DEF GapFree
    <3>4. QED
      BY <1>9, <3>1, <3>2, <3>3
  <2>2. QED
    BY <1>1, <1>5, <2>1 DEF Feeds
<1>14. InLog'
  <2>1. \A h \in Handles : first'[h] <= cursor'[h] /\ cursor'[h] < log'
    BY <1>1, <1>2, TypeKept DEF InLog
  <2>2. \A i \in 1..Len(down') : (down'[i].t = "event" => down'[i].seq < log') /\ (down'[i].t = "result" => down'[i].last < log')
    <3> SUFFICES ASSUME NEW i \in 1..Len(down')
                 PROVE  (down'[i].t = "event" => down'[i].seq < log') /\ (down'[i].t = "result" => down'[i].last < log')
      OBVIOUS
    <3>1. CASE i \in 1..Len(down)
      <4>1. down'[i] = down[i] /\ down[i] \in Lines
        BY <1>1, <1>3, <3>1, TypeKept
      <4>2. (down[i].t = "event" => down[i].seq < log) /\ (down[i].t = "result" => down[i].last < log)
        BY <1>1, <3>1 DEF InLog
      <4>3. (down[i].t = "event" => down[i].seq \in Int) /\ (down[i].t = "result" => down[i].last \in Int)
        BY <1>2, <4>1, LineFacts
      <4>4. QED
        BY <1>2, <4>1, <4>2, <4>3
    <3>2. CASE i \notin 1..Len(down)
      <4>1. PICK k \in 1..Len(L) : i = Len(down) + k
        BY <1>3, <3>2
      <4>2. down'[i] = L[k]
        BY <1>3, <4>1
      <4>3. QED
        BY <1>2, <4>2
    <3>3. QED
      BY <3>1, <3>2
  <2>3. \A i \in 1..Len(cont') : cont'[i].last < log'
    BY <1>1, <1>2, TypeKept DEF InLog
  <2>4. \A i \in 1..Len(up') : up'[i].since < log'
    BY <1>1, <1>2, TypeKept DEF InLog, Sent
  <2>5. QED
    BY <2>1, <2>2, <2>3, <2>4 DEF InLog
<1>15. QED
  BY <1>6, <1>7, <1>8, <1>12, <1>13, <1>14 DEF FeedIInv

\* One line, sent to an attached client, is such a push: the next event of the
\* log, or a change of the lease.
LEMMA PushOne ==
  ASSUME TypeOK, NEW x \in Lines, NEW l2 \in log..MaxSeq,
         \/ x.t = "event" /\ x.seq = log /\ l2 = log + 1
         \/ x.t = "control" /\ l2 = log
  PROVE  Pushed(IfAttached(att, <<x>>), log, l2)
<1>1. att \in BOOLEAN /\ log \in Nat /\ l2 \in Int
  BY TypeKept DEF TypeOK
<1>2. CASE att
  <2>1. IfAttached(att, <<x>>) = <<x>>
    BY <1>2 DEF IfAttached
  <2> DEFINE L == <<x>>
  <2>2. L \in Seq(Lines) /\ Len(L) = 1 /\ L[1] = x /\ 1..Len(L) = {1}
    OBVIOUS
  <2> HIDE DEF L
  <2>3. \A i \in 1..Len(L) : L[i].t # "result" /\ (L[i].t = "event" => L[i].seq < l2)
    BY <1>1, <2>2
  <2>4. ASSUME NEW c \in Int PROVE GoesOn(L, c, att, log) /\ Reaches(L, c, att, log, att, l2)
    BY <1>1, <1>2, <2>2 DEF GoesOn, Reaches
  <2>5. Pushed(L, log, l2)
    BY <2>2, <2>3, <2>4 DEF Pushed
  <2>6. QED
    BY <2>1, <2>5 DEF L
<1>3. CASE ~att
  <2>1. IfAttached(att, <<x>>) = <<>>
    BY <1>3 DEF IfAttached
  <2> DEFINE L == <<>>
  <2>2. L \in Seq(Lines) /\ Len(L) = 0 /\ 1..Len(L) = {}
    OBVIOUS
  <2> HIDE DEF L
  <2>3. \A c \in Int : GoesOn(L, c, att, log) /\ Reaches(L, c, att, log, att, l2)
    BY <1>3, <2>2 DEF GoesOn, Reaches
  <2>4. Pushed(L, log, l2)
    BY <2>2, <2>3 DEF Pushed
  <2>5. QED
    BY <2>1, <2>4 DEF L
<1>4. QED
  BY <1>1, <1>2, <1>3

LEMMA DaemonEventKeeps ==
  ASSUME FeedIInv, DaemonEvent
  PROVE  FeedIInv'
<1>1. TypeOK /\ log \in Nat /\ MaxSeq \in Nat /\ log < MaxSeq /\ log' = log + 1
  BY TypeKept DEF FeedIInv, DaemonEvent
<1>2. PICK l2 : l2 = log'
  OBVIOUS
<1>3. l2 \in log..MaxSeq /\ l2 = log + 1 /\ log \in 0..MaxSeq
  BY <1>1, <1>2
<1>4. Event(log) \in Lines /\ Event(log).t = "event" /\ Event(log).seq = log
  BY <1>3, LineFacts
<1>5. Pushed(IfAttached(att, <<Event(log)>>), log, l2)
  BY <1>1, <1>3, <1>4, PushOne
<1>6. Pushed(IfAttached(att, <<Event(log)>>), log, log')
  BY <1>2, <1>5
<1>7. /\ down' = down \o IfAttached(att, <<Event(log)>>) /\ lease' \in {"free", "me", "rival", "stale"}
      /\ UNCHANGED <<att, up, chan, todo, callVars, handleVars, drops, early, orphaned>>
  BY <1>1 DEF DaemonEvent, TypeOK
<1>8. QED
  BY <1>6, <1>7, PushKeeps

\* The lines RivalTakes and LeaseFreed send.
RivalLine == Control("rival", IF lease = "free" THEN "acquired" ELSE "preempted")
FreedLine == Control("none", IF lease = "rival" THEN "released" ELSE "disconnected")

LEMMA RivalTakesKeeps ==
  ASSUME FeedIInv, RivalTakes
  PROVE  FeedIInv'
<1>1. TypeOK /\ log \in Nat /\ MaxSeq \in Nat /\ log \in 0..MaxSeq /\ log' = log
  BY TypeKept DEF FeedIInv, TypeOK, RivalTakes
<1>2. log \in log..MaxSeq
  BY <1>1
<1>3. RivalLine \in Lines /\ RivalLine.t = "control"
  BY LineFacts DEF RivalLine
<1>4. Pushed(IfAttached(att, <<RivalLine>>), log, log)
  BY <1>1, <1>2, <1>3, PushOne
<1>5. /\ down' = down \o IfAttached(att, <<RivalLine>>) /\ lease' = "rival"
      /\ UNCHANGED <<att, up, chan, todo, callVars, handleVars, drops, early, orphaned>>
  BY DEF RivalTakes, RivalLine
<1>6. QED
  BY <1>1, <1>4, <1>5, PushKeeps

LEMMA LeaseFreedKeeps ==
  ASSUME FeedIInv, LeaseFreed
  PROVE  FeedIInv'
<1>1. TypeOK /\ log \in Nat /\ MaxSeq \in Nat /\ log \in 0..MaxSeq /\ log' = log
  BY TypeKept DEF FeedIInv, TypeOK, LeaseFreed
<1>2. log \in log..MaxSeq
  BY <1>1
<1>3. FreedLine \in Lines /\ FreedLine.t = "control"
  BY LineFacts DEF FreedLine
<1>4. Pushed(IfAttached(att, <<FreedLine>>), log, log)
  BY <1>1, <1>2, <1>3, PushOne
<1>5. /\ down' = down \o IfAttached(att, <<FreedLine>>) /\ lease' = "free"
      /\ UNCHANGED <<att, up, chan, todo, callVars, handleVars, drops, early, orphaned>>
  BY DEF LeaseFreed, FreedLine
<1>6. QED
  BY <1>1, <1>4, <1>5, PushKeeps

----------------------------------------------------------------------------
(* The daemon answers *)

\* The lines that answer request r: what goes before and its response, the last.
\* A feed at cursor c goes on with them when the replay starts at or before c,
\* which the first attach of a handle, without a replay, need not do.
Answers(L, r, a, a2, l) ==
  /\ L \in Seq(Lines) /\ Len(L) >= 1 /\ a2 \in BOOLEAN
  /\ L[Len(L)].t = "result" /\ L[Len(L)].id = r.id /\ L[Len(L)].last = l - 1
  /\ \A i \in 1..Len(L) : i # Len(L) => L[i].t # "result"
  /\ \A i \in 1..Len(L) : L[i].t = "event" => L[i].seq < l
  /\ \A c \in Int : (r.method = "attach" => r.since \in -1..c) =>
       GoesOn(L, c, a, l) /\ Reaches(L, c, a, l, a2, l)

\* The replay, when there is one.
LEMMA ReplayFacts ==
  ASSUME TypeOK, NEW since \in -2..MaxSeq, since < log
  PROVE  /\ Replayed(since) \in Seq(Lines)
         /\ since = -2 => Len(Replayed(since)) = 0
         /\ since # -2 => /\ Len(Replayed(since)) = log - 1 - since
                          /\ \A i \in 1..Len(Replayed(since)) : Replayed(since)[i] = Event(since + i)
<1>1. log \in 0..MaxSeq /\ MaxSeq \in Nat
  BY TypeKept DEF TypeOK
<1> DEFINE from == IF since = -2 THEN log - 1 ELSE since
           n == log - 1 - from
<1>2. from \in -1..(log - 1) /\ n \in Nat /\ (since = -2 => n = 0) /\ (since # -2 => n = log - 1 - since /\ from = since)
  BY <1>1
<1>3. Replayed(since) = [i \in 1..n |-> Event(from + i)]
  BY DEF Replayed
<1> HIDE DEF from, n
<1>4. \A i \in 1..n : Event(from + i) \in Lines
  <2> SUFFICES ASSUME NEW i \in 1..n PROVE Event(from + i) \in Lines
    OBVIOUS
  <2>1. from + i \in 0..MaxSeq
    BY <1>1, <1>2 DEF n
  <2>2. QED
    BY <2>1, LineFacts
<1>5. Replayed(since) \in Seq(Lines) /\ Len(Replayed(since)) = n
  BY <1>2, <1>3, <1>4
<1>6. \A i \in 1..n : Replayed(since)[i] = Event(from + i)
  BY <1>3
<1>7. QED
  BY <1>2, <1>5, <1>6

\* Events, lease changes, a response: the lines of an answer.
Assembled(L, R, C, x) ==
  /\ L \in Seq(Lines) /\ Len(L) = Len(R) + Len(C) + 1 /\ Len(R) \in Nat /\ Len(C) \in Nat
  /\ L[Len(L)] = x
  /\ \A i \in 1..Len(R) : L[i] = R[i]
  /\ \A i \in 1..Len(L) :
       \/ i \in 1..Len(R)
       \/ L[i].t = "control" /\ \E k \in 1..Len(C) : L[i] = C[k]
       \/ i = Len(L)
  /\ \A k \in 1..Len(C) : \E i \in 1..Len(L) : L[i] = C[k]

LEMMA AnswerLines ==
  ASSUME NEW R \in Seq(Lines), NEW C \in Seq(Lines), NEW x \in Lines,
         \A i \in 1..Len(C) : C[i].t = "control"
  PROVE  Assembled((R \o C) \o <<x>>, R, C, x)
<1> DEFINE u == R \o C
           w == u \o <<x>>
<1>1. /\ u \in Seq(Lines) /\ Len(u) = Len(R) + Len(C) /\ Len(R) \in Nat /\ Len(C) \in Nat
      /\ \A i \in 1..Len(R) : u[i] = R[i] /\ i \in 1..Len(u)
      /\ \A i \in 1..Len(C) : u[Len(R) + i] = C[i]
      /\ \A i \in 1..Len(u) : i \in 1..Len(R) \/ \E k \in 1..Len(C) : i = Len(R) + k
  BY CatFacts
<1> HIDE DEF u
<1> DEFINE v == <<x>>
<1>2. v \in Seq(Lines) /\ Len(v) = 1 /\ v[1] = x
  OBVIOUS
<1> HIDE DEF v
<1> DEFINE z == u \o v
<1>3. /\ z \in Seq(Lines) /\ Len(z) = Len(u) + Len(v)
      /\ \A i \in 1..Len(u) : z[i] = u[i]
      /\ \A i \in 1..Len(v) : z[Len(u) + i] = v[i]
      /\ \A i \in 1..Len(z) : i \in 1..Len(u) \/ \E k \in 1..Len(v) : i = Len(u) + k
  <2>1. u \in Seq(Lines) /\ v \in Seq(Lines)
    BY <1>1, <1>2
  <2>2. QED
    BY <2>1, CatFacts
<1> HIDE DEF z
<1>4. z \in Seq(Lines) /\ Len(z) = Len(R) + Len(C) + 1 /\ z[Len(z)] = x
  BY <1>1, <1>2, <1>3
<1>5. \A i \in 1..Len(R) : z[i] = R[i]
  BY <1>1, <1>3
<1>6. ASSUME NEW i \in 1..Len(z)
      PROVE  i \in 1..Len(R) \/ (z[i].t = "control" /\ \E k \in 1..Len(C) : z[i] = C[k]) \/ i = Len(z)
  <2>1. CASE i \in 1..Len(u)
    <3>1. z[i] = u[i]
      BY <1>3, <2>1
    <3>2. CASE i \in 1..Len(R)
      BY <3>2
    <3>3. CASE i \notin 1..Len(R)
      <4>1. PICK k \in 1..Len(C) : i = Len(R) + k
        BY <1>1, <2>1, <3>3
      <4>2. z[i] = C[k]
        BY <1>1, <3>1, <4>1
      <4>3. QED
        BY <4>2
    <3>4. QED
      BY <3>2, <3>3
  <2>2. CASE i \notin 1..Len(u)
    <3>1. PICK k \in 1..Len(v) : i = Len(u) + k
      BY <1>3, <2>2
    <3>2. QED
      BY <1>1, <1>2, <1>3, <3>1
  <2>3. QED
    BY <2>1, <2>2
<1>7. ASSUME NEW k \in 1..Len(C) PROVE \E i \in 1..Len(z) : z[i] = C[k]
  <2>1. Len(R) + k \in 1..Len(u) /\ Len(R) + k \in 1..Len(z)
    BY <1>1, <1>4
  <2>2. z[Len(R) + k] = C[k]
    BY <1>1, <1>3, <2>1
  <2>3. QED
    BY <2>1, <2>2
<1>8. z = (R \o C) \o <<x>>
  BY DEF z, u, v
<1>9. Assembled(z, R, C, x)
  BY <1>1, <1>4, <1>5, <1>6, <1>7 DEF Assembled
<1>10. QED
  BY <1>8, <1>9

\* The lines around a lease change.
LEMMA ChangeFacts ==
  ASSUME NEW b \in BOOLEAN, NEW x \in Lines, x.t = "control"
  PROVE  LET C == IF b THEN <<x>> ELSE <<>> IN
         /\ C \in Seq(Lines) /\ \A i \in 1..Len(C) : C[i].t = "control" /\ C[i] = x
<1>1. CASE b
  <2> DEFINE C == <<x>>
  <2>1. C \in Seq(Lines) /\ Len(C) = 1 /\ C[1] = x
    OBVIOUS
  <2> HIDE DEF C
  <2>2. \A i \in 1..Len(C) : C[i].t = "control" /\ C[i] = x
    BY <2>1
  <2>3. QED
    BY <1>1, <2>1, <2>2 DEF C
<1>2. CASE ~b
  BY <1>2
<1>3. QED
  BY <1>1, <1>2

\* What an answer says of the lease: it is announced when it is got or lost, and
\* a write attach that succeeds has it.
Leases(L, r) ==
  /\ \A i \in 1..Len(L) : L[i].t = "control" /\ L[i].holder = "me" => lease' = "me"
  /\ lease = "me" /\ att /\ lease' # "me" => \E i \in 1..Len(L) : L[i].t = "control" /\ L[i].holder # "me"
  /\ lease' = "me" => att'
  /\ r.method = "attach" /\ r.mode = "write" /\ L[Len(L)].ok => lease' = "me"

LEMMA AttachAnswers ==
  ASSUME TypeOK, NEW r \in Sent, r.method = "attach", r.since < log, ServeAttach(r), r.id \in Nat
  PROVE  \E L : /\ down' = down \o L /\ Answers(L, r, att, att', log)
                /\ r.since = -2 => \A i \in 1..Len(L) : L[i].t # "event"
                /\ lease' \in {"free", "me", "rival", "stale"} /\ Leases(L, r)
<1> DEFINE locked == r.mode = "write" /\ lease \notin {"free", "me"} /\ ~r.force
           taken == r.mode = "write" /\ lease # "me" /\ ~locked
           why == IF lease = "free" THEN "acquired" ELSE "preempted"
           R == Replayed(r.since)
           C == IF taken THEN <<Control("me", why)>> ELSE <<>>
           x == Result(r.id, ~locked)
           L == (R \o C) \o <<x>>
<1>1. log \in Nat /\ log \in 0..MaxSeq /\ MaxSeq \in Nat /\ r.since \in -2..MaxSeq /\ r.since \in Int /\ down \in Seq(Lines)
  <2>1. log \in Nat /\ log \in 0..MaxSeq /\ MaxSeq \in Nat /\ down \in Seq(Lines)
    BY TypeKept DEF TypeOK
  <2>2. r.since \in -2..MaxSeq
    BY DEF Sent
  <2>3. QED
    BY <2>1, <2>2
<1>2. /\ R \in Seq(Lines)
      /\ r.since = -2 => Len(R) = 0
      /\ r.since # -2 => Len(R) = log - 1 - r.since /\ \A i \in 1..Len(R) : R[i] = Event(r.since + i)
  BY <1>1, ReplayFacts
<1>3. C \in Seq(Lines) /\ \A i \in 1..Len(C) : C[i].t = "control"
  <2>1. Control("me", why) \in Lines /\ Control("me", why).t = "control" /\ taken \in BOOLEAN
    BY LineFacts
  <2>2. QED
    BY <2>1, ChangeFacts
<1>4. x \in Lines /\ x.t = "result" /\ x.id = r.id /\ x.last = log - 1
  BY <1>1 DEF Result, Lines
<1>5. att' = ~locked /\ lease' = (IF taken THEN "me" ELSE lease) /\ down' = ((down \o R) \o C) \o <<x>>
  BY DEF ServeAttach
<1>6. att' \in BOOLEAN /\ lease' \in {"free", "me", "rival", "stale"}
  BY <1>5 DEF TypeOK
<1>7. lease = "me" \/ taken \/ lease' # "me"
  BY <1>5
<1>8. (lease = "me" => lease' = "me") /\ (taken => lease' = "me") /\ (Len(C) # 0 => taken)
  BY <1>5
<1>9. (lease' = "me" => att') /\ (r.mode = "write" /\ ~locked => lease' = "me")
  BY <1>5
<1>10. x.ok = ~locked
  BY DEF Result
<1> HIDE DEF locked, taken, why, R, C, x
<1>11. down' = down \o L
  <2>1. down \in Seq(Lines) /\ R \in Seq(Lines) /\ C \in Seq(Lines) /\ <<x>> \in Seq(Lines)
    BY <1>1, <1>2, <1>3, <1>4
  <2> DEFINE X == <<x>>
  <2>2. X \in Seq(Lines)
    BY <2>1
  <2> HIDE DEF X
  <2>3. Regroups(down, R, C, X)
    BY <2>1, <2>2, CatFour
  <2>4. QED
    BY <1>5, <2>3, Zenon DEF Regroups, X, L
<1>12. /\ L \in Seq(Lines) /\ Len(L) = Len(R) + Len(C) + 1 /\ Len(R) \in Nat /\ Len(C) \in Nat
       /\ L[Len(L)] = x
       /\ \A i \in 1..Len(R) : L[i] = R[i]
       /\ \A i \in 1..Len(L) : i \in 1..Len(R) \/ (L[i].t = "control" /\ \E k \in 1..Len(C) : L[i] = C[k]) \/ i = Len(L)
  <2>1. R \in Seq(Lines) /\ C \in Seq(Lines) /\ x \in Lines /\ \A i \in 1..Len(C) : C[i].t = "control"
    BY <1>2, <1>3, <1>4
  <2>2. Assembled(L, R, C, x)
    BY <2>1, AnswerLines
  <2> HIDE DEF L
  <2>3. QED
    BY <2>2 DEF Assembled
<1> HIDE DEF L
<1>13. \A i \in 1..Len(R) : R[i].t = "event" /\ R[i].seq = r.since + i /\ r.since # -2
  BY <1>2, LineFacts
<1>14. \A i \in 1..Len(L) : L[i].t = "event" => i \in 1..Len(R) /\ L[i].seq = r.since + i
  BY <1>4, <1>12, <1>13
<1>15. \A i \in 1..Len(L) : i # Len(L) => L[i].t # "result"
  BY <1>12, <1>13
<1>16. \A i \in 1..Len(L) : L[i].t = "event" => L[i].seq < log
  <2> SUFFICES ASSUME NEW i \in 1..Len(L), L[i].t = "event" PROVE L[i].seq < log
    OBVIOUS
  <2>1. i \in 1..Len(R) /\ L[i].seq = r.since + i
    BY <1>14
  <2>2. Len(R) = log - 1 - r.since
    BY <1>2, <1>13, <2>1
  <2>3. QED
    BY <1>1, <2>1, <2>2
<1>17. ASSUME NEW c \in Int, r.since \in -1..c PROVE GoesOn(L, c, att, log) /\ Reaches(L, c, att, log, att', log)
  <2>1. Len(R) = log - 1 - r.since /\ \A i \in 1..Len(R) : L[i].t = "event" /\ L[i].seq = r.since + i /\ i \in 1..Len(L)
    <3>1. r.since # -2
      BY <1>1, <1>17
    <3>2. \A i \in 1..Len(R) : i \in 1..Len(L) /\ L[i] = R[i]
      BY <1>12
    <3>3. QED
      BY <1>2, <1>13, <3>1, <3>2
  <2>2. ASSUME NEW i \in 1..Len(L), L[i].t = "event"
        PROVE  L[i].seq <= c + 1 \/ \E k \in 1..(i - 1) : L[k].t = "event" /\ L[k].seq + 1 = L[i].seq
    <3>1. i \in 1..Len(R) /\ L[i].seq = r.since + i
      BY <1>14, <2>2
    <3>2. CASE i = 1
      <4>1. r.since + 1 <= c + 1
        BY <1>1, <1>17
      <4>2. QED
        BY <3>1, <3>2, <4>1
    <3>3. CASE i # 1
      <4>1. i - 1 \in 1..Len(R) /\ i - 1 \in 1..(i - 1)
        BY <1>12, <3>1, <3>3
      <4>2. L[i - 1].t = "event" /\ L[i - 1].seq = r.since + (i - 1)
        BY <2>1, <4>1
      <4>3. (r.since + (i - 1)) + 1 = r.since + i
        BY <1>1
      <4>4. QED
        BY <3>1, <4>1, <4>2, <4>3
    <3>4. QED
      BY <3>2, <3>3
  <2>3. (\E k \in 1..Len(L) : L[k].t = "event" /\ L[k].seq = log - 1) \/ log - 1 <= c
    <3>1. CASE Len(R) = 0
      BY <1>1, <1>17, <2>1, <3>1
    <3>2. CASE Len(R) # 0
      <4>1. Len(R) \in 1..Len(R) /\ r.since + Len(R) = log - 1
        BY <1>1, <1>12, <2>1, <3>2
      <4>2. L[Len(R)].t = "event" /\ L[Len(R)].seq = log - 1 /\ Len(R) \in 1..Len(L)
        BY <2>1, <4>1
      <4>3. QED
        BY <4>2
    <3>3. QED
      BY <3>1, <3>2
  <2>4. QED
    BY <2>2, <2>3 DEF GoesOn, Reaches
<1>18. Answers(L, r, att, att', log)
  <2>1. Len(L) >= 1
    BY <1>12
  <2>2. \A c \in Int : (r.method = "attach" => r.since \in -1..c) =>
          GoesOn(L, c, att, log) /\ Reaches(L, c, att, log, att', log)
    BY <1>17
  <2>3. QED
    BY <1>4, <1>6, <1>12, <1>15, <1>16, <2>1, <2>2 DEF Answers
<1>19. r.since = -2 => \A i \in 1..Len(L) : L[i].t # "event"
  BY <1>13, <1>14
<1>20. Leases(L, r)
  <2>1. ASSUME NEW i \in 1..Len(L), L[i].t = "control" PROVE lease' = "me"
    <3>1. \E k \in 1..Len(C) : TRUE
      BY <1>4, <1>12, <1>13, <2>1
    <3>2. QED
      BY <1>8, <1>12, <3>1
  <2>2. QED
    BY <1>8, <1>9, <1>10, <1>12, <2>1 DEF Leases
<1>21. QED
  BY <1>6, <1>11, <1>18, <1>19, <1>20

LEMMA ReleaseAnswers ==
  ASSUME TypeOK, NEW r \in Sent, r.method # "attach", ServeRelease(r), r.id \in Nat
  PROVE  \E L : /\ down' = down \o L /\ Answers(L, r, att, att', log)
                /\ r.since = -2 => \A i \in 1..Len(L) : L[i].t # "event"
                /\ lease' \in {"free", "me", "rival", "stale"} /\ Leases(L, r)
<1> DEFINE C == IF att /\ lease = "me" THEN <<Control("none", "released")>> ELSE <<>>
           x == Result(r.id, TRUE)
           L == (<<>> \o C) \o <<x>>
<1>1. log \in Nat /\ log \in 0..MaxSeq /\ MaxSeq \in Nat /\ down \in Seq(Lines) /\ att \in BOOLEAN
  BY TypeKept DEF TypeOK
<1>2. <<>> \in Seq(Lines) /\ Len(<<>>) = 0
  OBVIOUS
<1>3. C \in Seq(Lines) /\ \A i \in 1..Len(C) : C[i].t = "control"
  <2>1. Control("none", "released") \in Lines /\ Control("none", "released").t = "control"
    BY LineFacts
  <2>2. (att /\ lease = "me") \in BOOLEAN
    OBVIOUS
  <2>3. QED
    BY <2>1, <2>2, ChangeFacts
<1>4. x \in Lines /\ x.t = "result" /\ x.id = r.id /\ x.last = log - 1
  BY <1>1 DEF Result, Lines
<1>5. att' = (att /\ r.method # "detach") /\ lease' = (IF lease = "me" THEN "free" ELSE lease) /\ down' = (down \o C) \o <<x>>
  BY DEF ServeRelease, IfAttached
<1>6. att' \in BOOLEAN /\ (att' => att) /\ lease' \in {"free", "me", "rival", "stale"} /\ lease' # "me"
  BY <1>5 DEF TypeOK
<1>7. (\A i \in 1..Len(C) : C[i].holder # "me") /\ (att /\ lease = "me" => 1 \in 1..Len(C))
  <2>1. CASE att /\ lease = "me"
    <3>1. C = <<Control("none", "released")>>
      BY <2>1
    <3>2. Len(C) = 1 /\ C[1] = Control("none", "released")
      BY <3>1
    <3> HIDE DEF C
    <3>3. QED
      BY <3>2, LineFacts
  <2>2. CASE ~(att /\ lease = "me")
    BY <2>2
  <2>3. QED
    BY <2>1, <2>2
<1> HIDE DEF C, x
<1>8. down' = down \o L
  <2>1. <<>> \o C = C
    BY <1>3
  <2>2. QED
    BY <1>1, <1>3, <1>4, <1>5, <2>1, ConcatAssociative
<1>9. /\ L \in Seq(Lines) /\ Len(L) = Len(<<>>) + Len(C) + 1 /\ Len(C) \in Nat
      /\ L[Len(L)] = x
      /\ \A i \in 1..Len(L) : i \in 1..Len(<<>>) \/ (L[i].t = "control" /\ \E k \in 1..Len(C) : L[i] = C[k]) \/ i = Len(L)
      /\ \A k \in 1..Len(C) : \E i \in 1..Len(L) : L[i] = C[k]
  <2>1. Assembled(L, <<>>, C, x)
    BY <1>2, <1>3, <1>4, AnswerLines
  <2> HIDE DEF L
  <2>2. QED
    BY <2>1 DEF Assembled
<1> HIDE DEF L
<1>10. \A i \in 1..Len(L) : (L[i].t = "control" /\ \E k \in 1..Len(C) : L[i] = C[k]) \/ i = Len(L)
  BY <1>2, <1>9
<1>11. \A i \in 1..Len(L) : L[i].t # "event"
  BY <1>4, <1>9, <1>10
<1>12. \A c \in Int : GoesOn(L, c, att, log) /\ Reaches(L, c, att, log, att', log)
  BY <1>6, <1>11 DEF GoesOn, Reaches
<1>13. Answers(L, r, att, att', log)
  <2>1. Len(L) >= 1
    BY <1>2, <1>9
  <2>2. QED
    BY <1>4, <1>6, <1>9, <1>10, <1>11, <1>12, <2>1 DEF Answers
<1>14. Leases(L, r)
  <2>1. \A i \in 1..Len(L) : L[i].t = "control" => L[i].holder # "me"
    BY <1>4, <1>7, <1>9, <1>10
  <2>2. att /\ lease = "me" => \E i \in 1..Len(L) : L[i].t = "control" /\ L[i].holder # "me"
    BY <1>3, <1>7, <1>9
  <2>3. QED
    BY <1>6, <2>1, <2>2 DEF Leases
<1>15. QED
  BY <1>6, <1>8, <1>11, <1>13, <1>14

\* A request is served: the first attach of a handle with the queue behind it
\* empty, any other one with a replay that starts within what was seen.
LEMMA ServeKeeps ==
  ASSUME FeedIInv, Serve
  PROVE  FeedIInv'
<1> DEFINE r == Head(up)
<1>1. TypeOK /\ OneLive /\ IdsApart /\ Attaches /\ Feeds /\ InLog /\ CallsBounded
  BY DEF FeedIInv
<1>2. up \in Seq(Sent) /\ up # <<>> /\ down \in Seq(Lines) /\ log \in Nat /\ MaxSeq \in Nat /\ att \in BOOLEAN
  BY <1>1, TypeKept DEF TypeOK, Serve
<1>3. /\ Tail(up) \in Seq(Sent) /\ Len(Tail(up)) = Len(up) - 1 /\ Len(up) \in Nat /\ Len(up) >= 1
      /\ r = up[1] /\ r \in Sent
      /\ \A i \in 1..Len(Tail(up)) : Tail(up)[i] = up[i + 1] /\ i + 1 \in 1..Len(up)
      /\ Len(up) = 1 => Tail(up) = <<>>
  BY <1>2, RestFacts
<1>4. /\ up' = Tail(up) /\ UNCHANGED <<log, chan, todo, callVars, handleVars, drops, early, orphaned>>
      /\ r.method = "attach" => ServeAttach(r)
      /\ r.method # "attach" => ServeRelease(r)
  BY DEF Serve
<1>5. r.since < log /\ r.id \in Nat /\ r.id <= calls /\ 1 \in 1..Len(up)
  <2>1. 1 \in 1..Len(up)
    BY <1>3
  <2>2. QED
    BY <1>1, <1>3, <2>1 DEF InLog, IdsApart, Sent
<1> HIDE DEF r
<1>6. PICK L : /\ down' = down \o L /\ Answers(L, r, att, att', log)
               /\ r.since = -2 => \A i \in 1..Len(L) : L[i].t # "event"
               /\ lease' \in {"free", "me", "rival", "stale"}
  <2>1. CASE r.method = "attach"
    BY <1>1, <1>3, <1>4, <1>5, <2>1, AttachAnswers
  <2>2. CASE r.method # "attach"
    BY <1>1, <1>3, <1>4, <1>5, <2>2, ReleaseAnswers
  <2>3. QED
    BY <2>1, <2>2
<1>7. /\ L \in Seq(Lines) /\ Len(L) >= 1 /\ att' \in BOOLEAN
      /\ L[Len(L)].t = "result" /\ L[Len(L)].id = r.id /\ L[Len(L)].last = log - 1
      /\ \A i \in 1..Len(L) : i # Len(L) => L[i].t # "result"
      /\ \A i \in 1..Len(L) : L[i].t = "event" => L[i].seq < log
  BY <1>6, Zenon DEF Answers
<1>8. \A c \in Int : (r.method = "attach" => r.since \in -1..c) =>
        GoesOn(L, c, att, log) /\ Reaches(L, c, att, log, att', log)
  BY <1>6, Zenon DEF Answers
<1>9. /\ down' \in Seq(Lines) /\ Len(down') = Len(down) + Len(L) /\ Len(down) \in Nat /\ Len(L) \in Nat
      /\ \A i \in 1..Len(down) : down'[i] = down[i] /\ i \in 1..Len(down')
      /\ \A i \in 1..Len(L) : down'[Len(down) + i] = L[i] /\ Len(down) + i \in 1..Len(down')
      /\ \A i \in 1..Len(down') : i \in 1..Len(down) \/ \E k \in 1..Len(L) : i = Len(down) + k
  <2>1. down \in Seq(Lines) /\ L \in Seq(Lines) /\ down' = down \o L
    BY <1>2, <1>6, <1>7
  <2>2. Joined(down', down, L)
    BY <2>1, JoinedLines
  <2>3. QED
    BY <2>2 DEF Joined
<1>10. /\ Len(down') \in 1..Len(down') /\ down'[Len(down')].t = "result" /\ down'[Len(down')].id = r.id
       /\ down'[Len(down')].last = log - 1
  <2>1. Len(L) \in 1..Len(L)
    BY <1>7, <1>9
  <2>2. QED
    BY <1>7, <1>9, <2>1
<1>11. \A i \in 1..Len(down') : down'[i].t = "result" => (i \in 1..Len(down) /\ down'[i] = down[i]) \/ i = Len(down')
  <2> SUFFICES ASSUME NEW i \in 1..Len(down'), down'[i].t = "result", i \notin 1..Len(down) PROVE i = Len(down')
    BY <1>9
  <2>1. PICK k \in 1..Len(L) : i = Len(down) + k
    BY <1>9
  <2>2. down'[i] = L[k]
    BY <1>9, <2>1
  <2>3. k = Len(L)
    BY <1>7, <2>2
  <2>4. QED
    BY <1>9, <2>1, <2>3
<1>12. Live' = Live
  BY <1>4, LiveKept DEF handleVars
<1>13. TypeOK'
  <2>1. up' \in Seq(Sent) /\ down' \in Seq(Lines) /\ att' \in BOOLEAN /\ lease' \in {"free", "me", "rival", "stale"}
    BY <1>3, <1>4, <1>6, <1>7, <1>9
  <2>2. QED
    BY <1>1, <1>4, <2>1 DEF TypeOK, callVars, handleVars
<1>14. OneLive' /\ CallsBounded'
  BY <1>1, <1>4, OneLiveKept, CallsBoundedKept DEF callVars, handleVars
<1>15. IdsApart'
  <2>1. \A i \in 1..Len(up') : up'[i].id <= calls
    BY <1>1, <1>3, <1>4 DEF IdsApart
  <2>2. \A i \in 1..Len(down') : down'[i].t = "result" => down'[i].id <= calls
    BY <1>1, <1>5, <1>10, <1>11 DEF IdsApart
  <2>3. QED
    BY <1>1, <1>4, <2>1, <2>2 DEF IdsApart, callVars
<1>16. ASSUME NEW n, Asked(n) PROVE Asked(n)' \/ Served(n)'
  <2>1. CASE Len(up) = 1
    <3>1. r.method = "attach" /\ r.since = -2 /\ r.id = n /\ up' = <<>>
      BY <1>3, <1>4, <1>16, <2>1 DEF Asked
    <3>2. \A k \in 1..Len(down') : down'[k].t = "result" /\ down'[k].id = n => k = Len(down')
      BY <1>11, <1>16 DEF Asked
    <3>3. Fed(down', Len(down'), log - 1, att', log)
      BY <1>2, <1>9, FedStarts
    <3>4. QED
      BY <1>4, <1>10, <3>1, <3>2, <3>3 DEF Served
  <2>2. CASE Len(up) # 1
    <3>1. /\ Len(up') = Len(up) - 1 /\ Len(up') \in 1..Len(up') /\ up'[Len(up')] = up[Len(up)]
          /\ \A i \in 1..(Len(up') - 1) : up'[i] = up[i + 1] /\ i + 1 \in 1..(Len(up) - 1)
          /\ 1 \in 1..(Len(up) - 1)
      BY <1>3, <1>4, <2>2
    <3>2. up' # <<>>
      BY <3>1
    <3>3. r.id # n
      BY <1>3, <1>16, <3>1 DEF Asked
    <3>4. \A i \in 1..Len(down') : down'[i].t = "result" => down'[i].id # n
      BY <1>10, <1>11, <1>16, <3>3 DEF Asked
    <3>5. QED
      BY <1>16, <3>1, <3>2, <3>4 DEF Asked
  <2>3. QED
    BY <2>1, <2>2
<1>17. Attaches'
  <2>1. ASSUME NEW h \in Handles, Pending(h, {"attach"})' PROVE Asked(pend[h].id)' \/ Served(pend[h].id)'
    <3>1. Pending(h, {"attach"}) /\ pend'[h].id = pend[h].id
      BY <1>4, <2>1 DEF Pending, callVars
    <3>2. PICK n : n = pend[h].id
      OBVIOUS
    <3>3. Asked(n) \/ Served(n)
      BY <1>1, <3>1, <3>2 DEF Attaches
    <3>4. Asked(n)
      BY <1>2, <3>3 DEF Served
    <3>5. Asked(n)' \/ Served(n)'
      BY <1>16, <3>4
    <3>6. QED
      BY <3>1, <3>2, <3>5
  <2>2. ASSUME NEW i \in 1..Len(cont'), Due(i, {"attach"})' PROVE FALSE
    <3>1. Due(i, {"attach"}) /\ i \in 1..Len(cont)
      BY <1>4, <2>2 DEF Due, callVars
    <3>2. QED
      BY <1>1, <1>2, <3>1 DEF Attaches
  <2>3. QED
    BY <2>1, <2>2 DEF Attaches
<1>18. Feeds'
  <2>1. ASSUME NEW h \in Live, "event" \notin early PROVE GapFree(h)' /\ Fed(down', 0, cursor'[h], att', log')
    <3>1. h \in Handles /\ cursor[h] \in Int /\ 0 \in 0..Len(down)
      BY <1>1, <1>9, TypeKept DEF Live
    <3>2. GapFree(h) /\ Fed(down, 0, cursor[h], att, log)
      BY <1>1, <2>1 DEF Feeds
    <3>3. GapFree(h)'
      BY <1>4, <3>2 DEF GapFree, handleVars
    <3>4. r.method = "attach" => r.since \in -1..cursor[h]
      BY <1>1, <1>3, <1>5, <2>1 DEF Feeds
    <3>5. GoesOn(L, cursor[h], att, log) /\ Reaches(L, cursor[h], att, log, att', log)
      BY <1>8, <3>1, <3>4
    <3>6. PICK a2 \in BOOLEAN : a2 = att'
      BY <1>7
    <3>7. Fed(down \o L, 0, cursor[h], a2, log)
      <4>1. Reaches(L, cursor[h], att, log, a2, log)
        BY <3>5, <3>6
      <4>2. QED
        BY <1>2, <1>7, <3>1, <3>2, <3>5, <4>1, FedGrows
    <3>8. QED
      BY <1>4, <1>6, <3>3, <3>6, <3>7 DEF handleVars
  <2>2. \A h \in Live : \A i \in 1..Len(up') : up'[i].method = "attach" => up'[i].since \in -1..cursor[h]
    BY <1>1, <1>3, <1>4 DEF Feeds
  <2>3. QED
    BY <1>1, <1>4, <1>12, <2>1, <2>2 DEF Feeds, handleVars
<1>19. InLog'
  <2>1. \A i \in 1..Len(down') : (down'[i].t = "event" => down'[i].seq < log) /\ (down'[i].t = "result" => down'[i].last < log)
    <3> SUFFICES ASSUME NEW i \in 1..Len(down')
                 PROVE  (down'[i].t = "event" => down'[i].seq < log) /\ (down'[i].t = "result" => down'[i].last < log)
      OBVIOUS
    <3>1. CASE i \in 1..Len(down)
      BY <1>1, <1>9, <3>1 DEF InLog
    <3>2. CASE i \notin 1..Len(down)
      <4>1. PICK k \in 1..Len(L) : i = Len(down) + k
        BY <1>9, <3>2
      <4>2. down'[i] = L[k]
        BY <1>9, <4>1
      <4>3. log - 1 < log
        BY <1>2
      <4>4. QED
        BY <1>7, <4>2, <4>3
    <3>3. QED
      BY <3>1, <3>2
  <2>2. \A i \in 1..Len(up') : up'[i].since < log
    BY <1>1, <1>3, <1>4 DEF InLog
  <2>3. QED
    BY <1>1, <1>4, <2>1, <2>2 DEF InLog, callVars, handleVars
<1>20. QED
  BY <1>13, <1>14, <1>15, <1>17, <1>18, <1>19 DEF FeedIInv

----------------------------------------------------------------------------
(* The client calls *)

\* A continuation and the fields of it.
Settled == [h : Handles, call : Calls, ok : BOOLEAN, last : -1..MaxSeq]

\* The queue of continuations has lost its head at most.
Shrunk == cont' \in Seq(Settled) /\ \A i \in 1..Len(cont') : \E k \in 1..Len(cont) : cont'[i] = cont[k]

\* No first attach is in progress.
NoAttach ==
  /\ \A g \in Handles : ~Pending(g, {"attach"})
  /\ \A i \in 1..Len(cont) : ~Due(i, {"attach"})

\* A call goes out: its number is new, and a replay it asks for starts within
\* what the live handle has seen.
LEMMA CallKeeps ==
  ASSUME FeedIInv, NEW h \in Handles, NEW op \in Ops, NEW m \in {"attach", "release"}, NEW md \in Modes,
         NEW force \in BOOLEAN, NEW since \in -2..MaxSeq, since < log,
         Call(h, op, m, md, force, since), calls + 1 <= MaxCalls + 2 * MaxDrops, Shrunk, NoAttach,
         op = "attach" => m = "attach" /\ since = -2,
         \A g \in Live : m = "attach" => since \in -1..cursor[g],
         UNCHANGED <<daemonVars, down, handleVars, drops, early, orphaned>>,
         chan' \in {"up", "down", "opening"}, todo' \in SUBSET Handles
  PROVE  TypeOK' /\ IdsApart' /\ Attaches' /\ Feeds' /\ InLog'
<1> USE DEF daemonVars, handleVars
<1> DEFINE n == calls + 1
           q == Request(m, n, md, force, since)
<1>1. TypeOK /\ OneLive /\ IdsApart /\ Attaches /\ Feeds /\ InLog /\ CallsBounded
  BY DEF FeedIInv
<1>2. calls \in Nat /\ n \in Nat /\ n # 0 /\ n > calls /\ log \in Nat /\ MaxSeq \in Nat /\ MaxCalls \in Nat /\ MaxDrops \in Nat
  BY <1>1, TypeKept, FeedAssumption
<1>3. /\ q \in Sent /\ q.method = m /\ q.since = since /\ q.id = n /\ q.mode = md
      /\ [id |-> n, op |-> op, mode |-> md, since |-> since] \in Calls
  BY <1>2 DEF Request, Sent, Calls
<1>4. /\ calls' = n /\ pend' = [pend EXCEPT ![h] = [id |-> n, op |-> op, mode |-> md, since |-> since]] /\ up' = Append(up, q)
  BY DEF Call
<1>5. up \in Seq(Sent) /\ down \in Seq(Lines) /\ pend \in [Handles -> Calls \union {NoCall}]
  BY <1>1 DEF TypeOK
<1>6. /\ pend'[h].id = n /\ pend'[h].op = op /\ \A g \in Handles : g # h => pend'[g] = pend[g]
      /\ pend' \in [Handles -> Calls \union {NoCall}]
  BY <1>3, <1>4, <1>5
<1> HIDE DEF q, n
<1>7. /\ up' \in Seq(Sent) /\ Len(up') = Len(up) + 1 /\ up'[Len(up) + 1] = q
      /\ \A i \in 1..Len(up) : up'[i] = up[i] /\ i \in 1..Len(up')
      /\ \A i \in 1..Len(up') : i \in 1..Len(up) \/ i = Len(up) + 1
      /\ Len(up) \in Nat /\ up' # <<>>
  BY <1>3, <1>4, <1>5, SnocFacts
<1>8. \A i \in 1..Len(up) : up[i].id \in Nat /\ up[i].id <= calls
  <2>1. \A i \in 1..Len(up) : up[i].id <= calls /\ up[i] \in Sent
    BY <1>1, TypeKept DEF IdsApart
  <2>2. QED
    BY <2>1 DEF Sent
<1>9. Live' = Live
  BY LiveKept
<1>10. TypeOK'
  <2>1. calls' \in 0..(MaxCalls + 2 * MaxDrops)
    BY <1>2, <1>4 DEF n
  <2>2. cont' \in Seq([h : Handles, call : Calls, ok : BOOLEAN, last : -1..MaxSeq])
    BY DEF Shrunk, Settled
  <2>3. QED
    BY <1>1, <1>6, <1>7, <2>1, <2>2 DEF TypeOK
<1>11. IdsApart'
  <2>1. \A g \in Handles : pend'[g] # NoCall => pend'[g].id <= n
    <3> SUFFICES ASSUME NEW g \in Handles, pend'[g] # NoCall PROVE pend'[g].id <= n
      OBVIOUS
    <3>1. CASE g = h
      BY <1>2, <1>6, <3>1
    <3>2. CASE g # h
      <4>1. pend'[g] = pend[g] /\ pend[g].id <= calls /\ pend[g].id \in Nat
        BY <1>1, <1>5, <1>6, <3>2 DEF IdsApart, Calls, NoCall
      <4>2. QED
        BY <1>2, <4>1
    <3>3. QED
      BY <3>1, <3>2
  <2>2. \A g \in Handles : g # h => pend'[g].id # n /\ pend'[g].id = pend[g].id
    <3> SUFFICES ASSUME NEW g \in Handles, g # h PROVE pend'[g].id # n /\ pend'[g].id = pend[g].id
      OBVIOUS
    <3>1. pend'[g] = pend[g] /\ pend[g].id \in Nat /\ (pend[g] = NoCall => pend[g].id = 0)
      BY <1>5, <1>6 DEF Calls, NoCall
    <3>2. pend[g] # NoCall => pend[g].id <= calls
      BY <1>1 DEF IdsApart
    <3>3. QED
      BY <1>2, <3>1, <3>2
  <2>3. \A g, k \in Handles : pend'[g] # NoCall /\ pend'[g].id = pend'[k].id => g = k
    <3> SUFFICES ASSUME NEW g \in Handles, NEW k \in Handles, pend'[g] # NoCall, pend'[g].id = pend'[k].id PROVE g = k
      OBVIOUS
    <3>1. CASE g = h \/ k = h
      BY <1>6, <2>2, <3>1
    <3>2. CASE g # h /\ k # h
      BY <1>1, <1>6, <3>2 DEF IdsApart
    <3>3. QED
      BY <3>1, <3>2
  <2>4. \A i \in 1..Len(up') : up'[i].id <= n
    <3> SUFFICES ASSUME NEW i \in 1..Len(up') PROVE up'[i].id <= n
      OBVIOUS
    <3>1. CASE i \in 1..Len(up)
      <4>1. up'[i] = up[i] /\ up[i].id <= calls /\ up[i].id \in Nat
        BY <1>7, <1>8, <3>1
      <4>2. QED
        BY <1>2, <4>1
    <3>2. CASE i = Len(up) + 1
      BY <1>2, <1>3, <1>7, <3>2
    <3>3. QED
      BY <1>7, <3>1, <3>2
  <2>5. \A i \in 1..Len(down') : down'[i].t = "result" => down'[i].id <= n
    <3> SUFFICES ASSUME NEW i \in 1..Len(down), down[i].t = "result" PROVE down[i].id <= n
      OBVIOUS
    <3>1. down[i].id <= calls /\ down[i].id \in Nat
      BY <1>1, TypeKept, LineFacts DEF IdsApart
    <3>2. QED
      BY <1>2, <3>1
  <2>6. QED
    BY <1>4, <2>1, <2>3, <2>4, <2>5 DEF IdsApart
<1>12. Attaches'
  <2>1. ASSUME NEW g \in Handles, Pending(g, {"attach"})' PROVE Asked(pend[g].id)'
    <3>1. g = h /\ op = "attach" /\ pend'[g].id = n
      BY <1>6, <2>1 DEF NoAttach, Pending
    <3>2. up'[Len(up')] = q /\ q.method = "attach" /\ q.since = -2 /\ q.id = n
      BY <1>3, <1>7, <3>1
    <3>3. \A i \in 1..(Len(up') - 1) : up'[i].id # n
      <4> SUFFICES ASSUME NEW i \in 1..(Len(up') - 1) PROVE up'[i].id # n
        OBVIOUS
      <4>1. i \in 1..Len(up)
        BY <1>7
      <4>2. up'[i] = up[i] /\ up[i].id <= calls /\ up[i].id \in Nat
        BY <1>7, <1>8, <4>1
      <4>3. QED
        BY <1>2, <4>2
    <3>4. \A i \in 1..Len(down') : down'[i].t = "result" => down'[i].id # n
      <4> SUFFICES ASSUME NEW i \in 1..Len(down), down[i].t = "result" PROVE down[i].id # n
        OBVIOUS
      <4>1. down[i].id <= calls /\ down[i].id \in Nat
        BY <1>1, TypeKept, LineFacts DEF IdsApart
      <4>2. QED
        BY <1>2, <4>1
    <3>5. QED
      BY <1>7, <3>1, <3>2, <3>3, <3>4 DEF Asked
  <2>2. ASSUME NEW i \in 1..Len(cont'), Due(i, {"attach"})' PROVE FALSE
    BY <2>2 DEF Shrunk, NoAttach, Due
  <2>3. QED
    BY <2>1, <2>2 DEF Attaches
<1>13. Feeds'
  <2>1. \A g \in Live : "event" \notin early => GapFree(g)' /\ Fed(down', 0, cursor'[g], att', log')
    BY <1>1 DEF Feeds, GapFree
  <2>2. \A g \in Live : \A i \in 1..Len(up') : up'[i].method = "attach" => up'[i].since \in -1..cursor[g]
    <3> SUFFICES ASSUME NEW g \in Live, NEW i \in 1..Len(up'), up'[i].method = "attach" PROVE up'[i].since \in -1..cursor[g]
      OBVIOUS
    <3>1. CASE i \in 1..Len(up)
      BY <1>1, <1>7, <3>1 DEF Feeds
    <3>2. CASE i = Len(up) + 1
      BY <1>3, <1>7, <3>2
    <3>3. QED
      BY <1>7, <3>1, <3>2
  <2>3. QED
    BY <1>1, <1>9, <2>1, <2>2 DEF Feeds
<1>14. InLog'
  <2>1. \A i \in 1..Len(up') : up'[i].since < log
    <3> SUFFICES ASSUME NEW i \in 1..Len(up') PROVE up'[i].since < log
      OBVIOUS
    <3>1. CASE i \in 1..Len(up)
      BY <1>1, <1>7, <3>1 DEF InLog
    <3>2. CASE i = Len(up) + 1
      BY <1>3, <1>7, <3>2
    <3>3. QED
      BY <1>7, <3>1, <3>2
  <2>2. \A i \in 1..Len(cont') : cont'[i].last < log
    BY <1>1 DEF InLog, Shrunk
  <2>3. QED
    BY <1>1, <2>1, <2>2 DEF InLog
<1>15. QED
  BY <1>10, <1>11, <1>12, <1>13, <1>14

\* What no call in progress means for the re-attach loop on an open channel.
LEMMA UserCalls ==
  ASSUME FeedIInv, NEW h \in Handles, UserReady(h)
  PROVE  /\ todo = {} /\ calls + 1 <= MaxCalls /\ calls + 1 <= MaxCalls + 2 * MaxDrops
         /\ \A g \in Handles : ~Pending(g, Loop)
         /\ Len(cont) = 0 /\ cont \in Seq(Settled)
<1>1. TypeOK /\ OneLive /\ chan = "up" /\ cont = <<>> /\ calls < MaxCalls
  BY DEF FeedIInv, UserReady
<1>2. calls \in Nat /\ MaxCalls \in Nat /\ MaxDrops \in Nat
  BY <1>1, TypeKept, FeedAssumption
<1>3. calls + 1 <= MaxCalls /\ calls + 1 <= MaxCalls + 2 * MaxDrops
  BY <1>1, <1>2
<1>4. todo = {} /\ \A g \in Handles : ~Pending(g, Loop)
  BY <1>1 DEF OneLive
<1>5. QED
  BY <1>1, <1>3, <1>4

\* A call of the user leaves the loop with nothing to do.
LEMMA UserCallsBounded ==
  ASSUME FeedIInv, NEW h \in Handles, UserReady(h), NEW op \in {"attach", "acquire", "release"}, NEW c, c.op = op,
         calls' = calls + 1, pend' = [pend EXCEPT ![h] = c], UNCHANGED <<chan, todo, cont, drops>>
  PROVE  /\ CallsBounded'
         /\ \A g \in Handles : ~Pending(g, Loop)' /\ (Pending(g, {"attach"})' => Pending(g, {"attach"}) \/ (g = h /\ op = "attach"))
<1>1. /\ todo = {} /\ calls + 1 <= MaxCalls /\ \A g \in Handles : ~Pending(g, Loop)
      /\ Len(cont) = 0 /\ chan = "up" /\ TypeOK
  BY UserCalls DEF UserReady, FeedIInv
<1>2. calls \in Nat /\ MaxCalls \in Nat /\ drops \in Nat /\ pend \in [Handles -> Calls \union {NoCall}]
  BY <1>1, TypeKept, FeedAssumption DEF TypeOK
<1>3. pend'[h] = c /\ \A g \in Handles : g # h => pend'[g] = pend[g]
  BY <1>2
<1>4. \A g \in Handles : ~Pending(g, Loop)' /\ (Pending(g, {"attach"})' => Pending(g, {"attach"}) \/ (g = h /\ op = "attach"))
  <2> SUFFICES ASSUME NEW g \in Handles
               PROVE  ~Pending(g, Loop)' /\ (Pending(g, {"attach"})' => Pending(g, {"attach"}) \/ (g = h /\ op = "attach"))
    OBVIOUS
  <2>1. CASE g = h
    <3>1. pend'[g].op = op
      BY <1>3, <2>1
    <3>2. QED
      BY <2>1, <3>1 DEF Pending, Loop
  <2>2. CASE g # h
    <3>1. pend'[g] = pend[g]
      BY <1>3, <2>2
    <3>2. QED
      BY <1>1, <3>1 DEF Pending
  <2>3. QED
    BY <2>1, <2>2
<1>5. Owed' = 0
  <2>1. ~ \E g \in Handles : Pending(g, {"reattach"})'
    BY <1>4 DEF Pending, Loop
  <2>2. ~ \E i \in 1..Len(cont') : Due(i, {"reattach"})'
    BY <1>1
  <2>3. ~(chan' = "down" \/ todo' \intersect Live' # {})
    BY <1>1
  <2>4. QED
    BY <2>1, <2>2, <2>3 DEF Owed
<1>6. (calls + 1) + 0 <= MaxCalls + 2 * drops
  BY <1>1, <1>2
<1>7. CallsBounded'
  BY <1>5, <1>6 DEF CallsBounded
<1>8. QED
  BY <1>4, <1>7

LEMMA AttachCallKeeps ==
  ASSUME FeedIInv, NEW h \in Handles, NEW md \in Modes, NEW force \in BOOLEAN, AttachCall(h, md, force)
  PROVE  FeedIInv'
<1> DEFINE c == [id |-> calls + 1, op |-> "attach", mode |-> md, since |-> -2]
<1>1. TypeOK /\ OneLive /\ UserReady(h) /\ log \in Nat /\ MaxSeq \in Nat
  BY TypeKept DEF FeedIInv, AttachCall
<1>2. /\ todo = {} /\ calls + 1 <= MaxCalls + 2 * MaxDrops /\ \A g \in Handles : ~Pending(g, Loop)
      /\ Len(cont) = 0 /\ cont \in Seq(Settled) /\ chan = "up"
  BY <1>1, UserCalls DEF UserReady
<1>3. /\ Call(h, "attach", "attach", md, force, -2) /\ handle[h] = "none"
      /\ UNCHANGED <<daemonVars, down, chan, todo, cont, handleVars, drops, early, orphaned>>
      /\ \A g \in Handles : ~Pending(g, {"attach"})
  BY DEF AttachCall, Pending
<1>4. Live = {} /\ Live' = {}
  <2>1. Live = {}
    BY <1>1 DEF AttachCall, OneLive
  <2>2. QED
    BY <1>3, <2>1, LiveKept DEF handleVars
<1>5. Shrunk /\ NoAttach
  BY <1>2, <1>3 DEF Shrunk, NoAttach
<1>6. -2 \in -2..MaxSeq /\ -2 < log /\ "attach" \in Ops
  BY <1>1 DEF Ops
<1>7. chan' \in {"up", "down", "opening"} /\ todo' \in SUBSET Handles
  BY <1>2, <1>3
<1>8. \A g \in Live : -2 \in -1..cursor[g]
  BY <1>4
<1>9. TypeOK' /\ IdsApart' /\ Attaches' /\ Feeds' /\ InLog'
  BY <1>2, <1>3, <1>5, <1>6, <1>7, <1>8, CallKeeps
<1>10. c.op = "attach" /\ calls' = calls + 1 /\ pend' = [pend EXCEPT ![h] = c]
  BY <1>3 DEF Call
<1> HIDE DEF c
<1>11. /\ CallsBounded'
       /\ \A g \in Handles : ~Pending(g, Loop)' /\ (Pending(g, {"attach"})' => Pending(g, {"attach"}) \/ g = h)
  BY <1>1, <1>3, <1>10, UserCallsBounded
<1>12. OneLive'
  <2>1. Len(cont') = 0 /\ chan' = "up" /\ todo' = {} /\ handle'[h] = "none"
    BY <1>2, <1>3 DEF handleVars
  <2>2. \A g \in Handles : Pending(g, {"attach"})' => g = h
    BY <1>3, <1>11
  <2>3. QED
    BY <1>4, <1>11, <2>1, <2>2 DEF OneLive, Sole
<1>13. QED
  BY <1>9, <1>11, <1>12 DEF FeedIInv

\* acquireWrite and releaseControl of a live handle.
LEMMA LiveCallKeeps ==
  ASSUME FeedIInv, NEW h \in Handles, UserReady(h), handle[h] = "live",
         NEW op \in {"acquire", "release"}, NEW m \in {"attach", "release"}, NEW md \in Modes,
         NEW force \in BOOLEAN, NEW since \in -2..MaxSeq, m = "attach" => since = cursor[h], since < log,
         Call(h, op, m, md, force, since),
         UNCHANGED <<daemonVars, down, chan, todo, cont, handleVars, drops, early, orphaned>>
  PROVE  FeedIInv'
<1> DEFINE c == [id |-> calls + 1, op |-> op, mode |-> md, since |-> since]
<1>1. TypeOK /\ OneLive /\ log \in Nat /\ MaxSeq \in Nat
  BY TypeKept DEF FeedIInv
<1>2. /\ todo = {} /\ calls + 1 <= MaxCalls + 2 * MaxDrops /\ \A g \in Handles : ~Pending(g, Loop)
      /\ Len(cont) = 0 /\ cont \in Seq(Settled) /\ chan = "up"
  BY <1>1, UserCalls DEF UserReady
<1>3. h \in Live /\ Live' = Live /\ \A g \in Live : g = h
  BY <1>1, LiveKept DEF OneLive, Live, handleVars
<1>4. \A g \in Handles : ~Pending(g, {"attach"})
  BY <1>1, <1>3 DEF OneLive
<1>5. Shrunk /\ NoAttach
  BY <1>2, <1>4 DEF Shrunk, NoAttach
<1>6. op \in Ops /\ op # "attach" /\ chan' \in {"up", "down", "opening"} /\ todo' \in SUBSET Handles
  BY <1>2 DEF Ops
<1>7. \A g \in Live : m = "attach" => since \in -1..cursor[g]
  <2>1. cursor[h] \in -1..cursor[h]
    BY <1>1, TypeKept
  <2>2. QED
    BY <1>3, <2>1
<1>8. TypeOK' /\ IdsApart' /\ Attaches' /\ Feeds' /\ InLog'
  BY <1>2, <1>5, <1>6, <1>7, CallKeeps
<1>9. c.op = op /\ calls' = calls + 1 /\ pend' = [pend EXCEPT ![h] = c] /\ op \in {"attach", "acquire", "release"}
  BY DEF Call
<1> HIDE DEF c
<1>10. /\ CallsBounded'
       /\ \A g \in Handles : ~Pending(g, Loop)' /\ (Pending(g, {"attach"})' => Pending(g, {"attach"}) \/ (g = h /\ op = "attach"))
  BY <1>9, UserCallsBounded
<1>11. OneLive'
  <2>1. Len(cont') = 0 /\ chan' = "up" /\ todo' = {}
    BY <1>2
  <2>2. \A g \in Handles : ~Pending(g, {"attach"})'
    BY <1>4, <1>6, <1>10
  <2>3. Live' \subseteq {registry'}
    BY <1>1, <1>3 DEF OneLive, handleVars
  <2>4. QED
    BY <1>10, <2>1, <2>2, <2>3 DEF OneLive, Sole
<1>12. QED
  BY <1>8, <1>10, <1>11 DEF FeedIInv

LEMMA AcquireWriteKeeps ==
  ASSUME FeedIInv, NEW h \in Handles, NEW force \in BOOLEAN, AcquireWrite(h, force)
  PROVE  FeedIInv'
<1>1. cursor[h] \in -2..MaxSeq /\ cursor[h] < log
  <2>1. cursor[h] \in -1..MaxSeq /\ MaxSeq \in Nat /\ cursor[h] < log
    BY TypeKept DEF FeedIInv, InLog
  <2>2. QED
    BY <2>1
<1>2. /\ UserReady(h) /\ handle[h] = "live" /\ Call(h, "acquire", "attach", "write", force, cursor[h])
      /\ UNCHANGED <<daemonVars, down, chan, todo, cont, handleVars, drops, early, orphaned>>
  BY DEF AcquireWrite
<1>3. "write" \in Modes
  BY DEF Modes
<1>4. QED
  BY <1>1, <1>2, <1>3, LiveCallKeeps

LEMMA ReleaseControlKeeps ==
  ASSUME FeedIInv, NEW h \in Handles, ReleaseControl(h)
  PROVE  FeedIInv'
<1>1. -2 \in -2..MaxSeq /\ -2 < log
  BY TypeKept DEF FeedIInv
<1>2. /\ UserReady(h) /\ handle[h] = "live" /\ Call(h, "release", "release", "read", FALSE, -2)
      /\ UNCHANGED <<daemonVars, down, chan, todo, cont, handleVars, drops, early, orphaned>>
  BY DEF ReleaseControl
<1>3. "read" \in Modes
  BY DEF Modes
<1>4. QED
  BY <1>1, <1>2, <1>3, LiveCallKeeps

----------------------------------------------------------------------------
(* Handles and calls that end *)

\* The calls of the loop that are in flight or answered.
Reattaching == (\E h \in Handles : Pending(h, {"reattach"})) \/ (\E i \in 1..Len(cont) : Due(i, {"reattach"}))

\* The loop owes no more calls than before when it has no more to do.
LEMMA OwedShrinks ==
  ASSUME TypeOK, CallsBounded, calls' = calls, drops' = drops, Live' \subseteq Live, todo' \subseteq todo,
         chan' = "down" => chan = "down", Reattaching' => Reattaching
  PROVE  CallsBounded'
<1>1. calls \in Nat /\ drops \in Nat /\ MaxCalls \in Nat
  BY TypeKept, FeedAssumption
<1>2. /\ Owed = IF chan = "down" \/ todo \intersect Live # {} THEN 2 ELSE IF Reattaching THEN 1 ELSE 0
      /\ Owed' = IF chan' = "down" \/ todo' \intersect Live' # {} THEN 2 ELSE IF Reattaching' THEN 1 ELSE 0
  BY DEF Owed, Reattaching
<1>3. todo' \intersect Live' # {} => todo \intersect Live # {}
  OBVIOUS
<1>4. Owed \in 0..2 /\ Owed' \in 0..2
  BY <1>2
<1>5. \/ Owed' = 0
      \/ Owed' = 1 /\ (Owed = 1 \/ Owed = 2)
      \/ Owed' = 2 /\ Owed = 2
  BY <1>2, <1>3
<1>6. calls + Owed' <= MaxCalls + 2 * drops
  <2>1. PICK o2 \in 0..2 : o2 = Owed'
    BY <1>4
  <2>2. PICK o \in 0..2 : o = Owed
    BY <1>4
  <2>3. o2 <= o
    BY <1>5, <2>1, <2>2
  <2>4. calls + o <= MaxCalls + 2 * drops
    BY <2>2 DEF CallsBounded
  <2>5. calls + o2 <= MaxCalls + 2 * drops
    BY <1>1, <2>3, <2>4
  <2>6. QED
    BY <2>1, <2>5
<1>7. QED
  BY <1>6 DEF CallsBounded

LEMMA DetachKeeps ==
  ASSUME FeedIInv, NEW h \in Handles, Detach(h)
  PROVE  FeedIInv'
<1> DEFINE q == Request("detach", 0, "read", FALSE, -2)
<1>1. TypeOK /\ OneLive /\ IdsApart /\ Attaches /\ Feeds /\ InLog /\ CallsBounded
  BY DEF FeedIInv
<1>2. /\ cont = <<>> /\ handle[h] = "live" /\ handle' = [handle EXCEPT ![h] = "detached"] /\ registry' = NoHandle
      /\ up' = (IF chan = "up" THEN Append(up, q) ELSE up)
      /\ UNCHANGED <<log, att, lease, down, chan, todo, calls, pend, cont, mode, first, cursor, delivered, drops, early>>
      /\ orphaned' \in BOOLEAN
  BY DEF Detach, daemonVars, callVars
<1>3. log \in Nat /\ calls \in Nat /\ up \in Seq(Sent) /\ handle \in [Handles -> {"none", "live", "detached"}]
  BY <1>1, TypeKept DEF TypeOK
<1>4. q \in Sent /\ q.id = 0 /\ q.method # "attach" /\ q.since = -2
  BY FeedAssumption DEF Request, Sent, Modes
<1> HIDE DEF q
<1>5. up' \in Seq(Sent) /\ \A i \in 1..Len(up') : (i \in 1..Len(up) /\ up'[i] = up[i]) \/ up'[i] = q
  <2>1. CASE chan = "up"
    BY <1>2, <1>3, <1>4, <2>1, SnocFacts
  <2>2. CASE chan # "up"
    BY <1>2, <1>3, <2>2
  <2>3. QED
    BY <2>1, <2>2
<1>6. h \in Live /\ \A g \in Live : g = h
  BY <1>1, <1>2 DEF OneLive, Live
<1>7. handle'[h] = "detached" /\ \A g \in Handles : g # h => handle'[g] = handle[g]
  BY <1>2, <1>3
<1>8. Live' = {}
  BY <1>6, <1>7 DEF Live
<1>9. NoAttach
  BY <1>1, <1>6 DEF OneLive, NoAttach
<1>10. TypeOK'
  <2>1. handle' \in [Handles -> {"none", "live", "detached"}]
    BY <1>2, <1>3
  <2>2. QED
    BY <1>1, <1>2, <1>5, <2>1 DEF TypeOK
<1>11. OneLive'
  BY <1>1, <1>2, <1>8, <1>9 DEF OneLive, Sole, NoAttach, Pending, Due
<1>12. CallsBounded'
  <2>1. Reattaching' => Reattaching
    BY <1>2 DEF Reattaching, Pending, Due
  <2>2. QED
    BY <1>1, <1>2, <1>8, <2>1, OwedShrinks
<1>13. IdsApart'
  <2>1. \A i \in 1..Len(up') : up'[i].id <= calls
    <3>1. 0 <= calls
      BY <1>3
    <3>2. QED
      BY <1>1, <1>4, <1>5, <3>1 DEF IdsApart
  <2>2. QED
    BY <1>1, <1>2, <2>1 DEF IdsApart
<1>14. Attaches'
  <2>1. \A g \in Handles : ~Pending(g, {"attach"})'
    BY <1>2, <1>9 DEF NoAttach, Pending
  <2>2. \A i \in 1..Len(cont') : ~Due(i, {"attach"})'
    BY <1>2, <1>9 DEF NoAttach, Due
  <2>3. QED
    BY <2>1, <2>2 DEF Attaches
<1>15. Feeds'
  <2>1. \A g \in Handles : handle'[g] = "none" => handle[g] = "none"
    BY <1>7
  <2>2. QED
    BY <1>1, <1>2, <1>8, <2>1 DEF Feeds
<1>16. InLog'
  <2>1. \A i \in 1..Len(up') : up'[i].since < log
    <3>1. -2 < log
      BY <1>3
    <3>2. QED
      BY <1>1, <1>4, <1>5, <3>1 DEF InLog
  <2>2. QED
    BY <1>1, <1>2, <2>1 DEF InLog
<1>17. QED
  BY <1>10, <1>11, <1>12, <1>13, <1>14, <1>15, <1>16 DEF FeedIInv

\* Handles that end in a failed re-attach.
LEMMA TornDownFacts ==
  ASSUME TypeOK, NEW hs, TornDown(hs)
  PROVE  /\ handle' \in [Handles -> {"none", "live", "detached"}] /\ mode' \in [Handles -> Modes]
         /\ registry' \in Handles \union {NoHandle}
         /\ Live' \subseteq Live /\ (hs = {} => registry' = registry)
         /\ \A g \in Handles : handle'[g] = handle[g] \/ handle'[g] = "detached"
         /\ \A g \in Live' : g \notin hs
<1>1. /\ handle' = [h \in Handles |-> IF h \in hs THEN "detached" ELSE handle[h]]
      /\ mode' = [h \in Handles |-> IF h \in hs THEN "read" ELSE mode[h]]
      /\ registry' = IF hs # {} THEN NoHandle ELSE registry
  BY DEF TornDown
<1>2. handle \in [Handles -> {"none", "live", "detached"}] /\ mode \in [Handles -> Modes] /\ registry \in Handles \union {NoHandle}
  BY DEF TypeOK
<1>3. mode' \in [Handles -> Modes]
  BY <1>1, <1>2 DEF Modes
<1>4. handle' \in [Handles -> {"none", "live", "detached"}] /\ registry' \in Handles \union {NoHandle} /\ (hs = {} => registry' = registry)
  BY <1>1, <1>2
<1>5. \A g \in Handles : handle'[g] = (IF g \in hs THEN "detached" ELSE handle[g])
  BY <1>1
<1>6. QED
  BY <1>3, <1>4, <1>5 DEF Live

LEMMA CallTimesOutKeeps ==
  ASSUME FeedIInv, NEW h \in Handles, CallTimesOut(h)
  PROVE  FeedIInv'
<1> DEFINE hs == IF pend[h].op \in {"reattach", "retry"} THEN {h} \intersect Live ELSE {}
<1>1. TypeOK /\ OneLive /\ IdsApart /\ Attaches /\ Feeds /\ InLog /\ CallsBounded
  BY DEF FeedIInv
<1>2. /\ cont = <<>> /\ pend' = [pend EXCEPT ![h] = NoCall] /\ TornDown(hs)
      /\ UNCHANGED <<log, att, lease, up, down, chan, todo, calls, cont, first, cursor, delivered, drops, early>>
      /\ orphaned' \in BOOLEAN
  BY DEF CallTimesOut, daemonVars, wireVars
<1>3. hs # {} => Pending(h, Loop) /\ h \in Live /\ h \in hs
  BY DEF Pending, Loop
<1> HIDE DEF hs
<1>4. /\ handle' \in [Handles -> {"none", "live", "detached"}] /\ mode' \in [Handles -> Modes]
      /\ registry' \in Handles \union {NoHandle}
      /\ Live' \subseteq Live /\ (hs = {} => registry' = registry)
      /\ \A g \in Handles : handle'[g] = handle[g] \/ handle'[g] = "detached"
      /\ \A g \in Live' : g \notin hs
  BY <1>1, <1>2, TornDownFacts
<1>5. pend \in [Handles -> Calls \union {NoCall}]
  BY <1>1 DEF TypeOK
<1>6. /\ pend' \in [Handles -> Calls \union {NoCall}] /\ pend'[h] = NoCall
      /\ \A g \in Handles : g # h => pend'[g] = pend[g]
  BY <1>2, <1>5
<1>7. \A g \in Handles : \A ops \in {{"attach"}, Loop, {"reattach"}} : Pending(g, ops)' => Pending(g, ops) /\ g # h
  BY <1>6 DEF Pending, NoCall, Loop
<1>8. Len(cont) = 0 /\ Len(cont') = 0
  BY <1>2
<1>9. TypeOK'
  BY <1>1, <1>2, <1>4, <1>6 DEF TypeOK
<1>10. OneLive'
  <2>1. Live' \subseteq {registry'}
    <3>1. CASE hs = {}
      BY <1>1, <1>4, <3>1 DEF OneLive
    <3>2. CASE hs # {}
      BY <1>1, <1>3, <1>4, <3>2 DEF OneLive
    <3>3. QED
      BY <3>1, <3>2
  <2>2. Sole({"attach"})' /\ Sole(Loop)'
    BY <1>1, <1>7, <1>8 DEF OneLive, Sole
  <2>3. ASSUME NEW g \in Handles, Pending(g, {"attach"})' PROVE chan' = "up" /\ Live' = {} /\ handle'[g] = "none"
    <3>1. chan = "up" /\ Live = {} /\ handle[g] = "none" /\ chan # "opening"
      BY <1>1, <1>7, <2>3 DEF OneLive
    <3>2. hs = {}
      BY <1>1, <1>3, <3>1 DEF OneLive
    <3>3. handle' = [k \in Handles |-> handle[k]]
      BY <1>2, <3>2 DEF TornDown
    <3>4. QED
      BY <1>2, <1>4, <3>1, <3>3
  <2>4. ASSUME NEW g \in Handles, Pending(g, Loop)' PROVE chan' = "opening" /\ Live' \subseteq {g} /\ g \notin todo'
    BY <1>1, <1>2, <1>4, <1>7, <2>4 DEF OneLive
  <2>5. QED
    BY <1>1, <1>2, <1>8, <2>1, <2>2, <2>3, <2>4 DEF OneLive
<1>11. CallsBounded'
  <2>1. Reattaching' => Reattaching
    BY <1>2, <1>7 DEF Reattaching, Due
  <2>2. QED
    BY <1>1, <1>2, <1>4, <2>1, OwedShrinks
<1>12. IdsApart'
  <2>1. \A g \in Handles : pend'[g] # NoCall => pend'[g] = pend[g]
    BY <1>6
  <2>2. ASSUME NEW g \in Handles, NEW k \in Handles, pend'[g] # NoCall, pend'[g].id = pend'[k].id PROVE g = k
    <3>1. pend'[g] = pend[g] /\ pend[g].id # 0
      BY <1>5, <1>6, <2>1, <2>2 DEF Calls
    <3>2. pend'[k] = pend[k]
      BY <1>6, <2>2, <3>1 DEF NoCall
    <3>3. QED
      BY <1>1, <2>2, <3>1, <3>2 DEF IdsApart
  <2>3. QED
    BY <1>1, <1>2, <2>1, <2>2 DEF IdsApart
<1>13. Attaches'
  <2>1. ASSUME NEW g \in Handles, Pending(g, {"attach"})' PROVE Asked(pend[g].id)' \/ Served(pend[g].id)'
    <3>1. Pending(g, {"attach"}) /\ pend'[g].id = pend[g].id
      BY <1>6, <1>7, <2>1
    <3>2. PICK n : n = pend[g].id
      OBVIOUS
    <3>3. Asked(n) \/ Served(n)
      BY <1>1, <3>1, <3>2 DEF Attaches
    <3>4. Asked(n)' \/ Served(n)'
      BY <1>2, <3>3 DEF Asked, Served
    <3>5. QED
      BY <3>1, <3>2, <3>4
  <2>2. QED
    BY <1>8, <2>1 DEF Attaches
<1>14. Feeds'
  <2>1. \A g \in Handles : handle'[g] = "none" => handle[g] = "none"
    BY <1>4
  <2>2. ASSUME NEW g \in Live', "event" \notin early'
        PROVE  GapFree(g)' /\ Fed(down', 0, cursor'[g], att', log')
    <3>1. g \in Live /\ "event" \notin early
      BY <1>2, <1>4, <2>2
    <3>2. GapFree(g) /\ Fed(down, 0, cursor[g], att, log)
      BY <1>1, <3>1 DEF Feeds
    <3>3. /\ delivered' = delivered /\ cursor' = cursor /\ first' = first
          /\ down' = down /\ att' = att /\ log' = log
      BY <1>2
    <3>4. QED
      BY <3>2, <3>3 DEF GapFree
  <2>3. ASSUME NEW g \in Live', NEW i \in 1..Len(up'), up'[i].method = "attach"
        PROVE  up'[i].since \in -1..cursor'[g]
    <3>1. g \in Live /\ up' = up /\ cursor' = cursor
      BY <1>2, <1>4, <2>3
    <3>2. QED
      BY <1>1, <2>3, <3>1 DEF Feeds
  <2>4. \A g \in Handles : handle'[g] = "none" => delivered'[g] = <<>>
    BY <1>1, <1>2, <2>1 DEF Feeds
  <2>5. QED
    BY <2>2, <2>3, <2>4 DEF Feeds
<1>15. InLog'
  BY <1>1, <1>2 DEF InLog
<1>16. QED
  BY <1>9, <1>10, <1>11, <1>12, <1>13, <1>14, <1>15 DEF FeedIInv

----------------------------------------------------------------------------
(* The channel *)

LEMMA StreamLostKeeps ==
  ASSUME FeedIInv, StreamLost
  PROVE  FeedIInv'
<1> DEFINE hs == {h \in Live : pend[h].op \in {"reattach", "retry"}}
<1>1. TypeOK /\ OneLive /\ IdsApart /\ Attaches /\ Feeds /\ InLog /\ CallsBounded
  BY DEF FeedIInv
<1>2. /\ cont = <<>> /\ drops < MaxDrops /\ drops' = drops + 1 /\ chan' = "down" /\ up' = <<>> /\ down' = <<>>
      /\ att' = FALSE /\ lease' = (IF lease = "me" THEN "stale" ELSE lease) /\ todo' = {}
      /\ pend' = [h \in Handles |-> NoCall] /\ TornDown(hs)
      /\ UNCHANGED <<log, calls, cont, first, cursor, delivered, early>>
      /\ orphaned' \in BOOLEAN
  BY DEF StreamLost
<1>3. hs # {} => Live \subseteq hs
  BY <1>1 DEF OneLive
<1> HIDE DEF hs
<1>4. /\ handle' \in [Handles -> {"none", "live", "detached"}] /\ mode' \in [Handles -> Modes]
      /\ registry' \in Handles \union {NoHandle}
      /\ Live' \subseteq Live /\ (hs = {} => registry' = registry)
      /\ \A g \in Handles : handle'[g] = handle[g] \/ handle'[g] = "detached"
      /\ \A g \in Live' : g \notin hs
  BY <1>1, <1>2, TornDownFacts
<1>5. \A g \in Handles : pend'[g] = NoCall
  BY <1>2
<1>6. Len(cont') = 0 /\ Len(up') = 0 /\ Len(down') = 0 /\ up' \in Seq(Sent) /\ down' \in Seq(Lines)
  BY <1>2
<1>7. calls \in Nat /\ drops \in Nat /\ MaxDrops \in Nat /\ MaxCalls \in Nat /\ log \in Nat /\ drops \in 0..MaxDrops
  BY <1>1, TypeKept, FeedAssumption DEF TypeOK
<1>8. TypeOK'
  <2>1. drops' \in 0..MaxDrops
    BY <1>2, <1>7
  <2>2. lease' \in {"free", "me", "rival", "stale"} /\ att' \in BOOLEAN /\ todo' \in SUBSET Handles
    BY <1>1, <1>2 DEF TypeOK
  <2>3. pend' \in [Handles -> Calls \union {NoCall}]
    BY <1>2
  <2>4. QED
    BY <1>1, <1>2, <1>4, <1>6, <2>1, <2>2, <2>3 DEF TypeOK
<1>9. OneLive'
  <2>1. Live' \subseteq {registry'}
    <3>1. CASE hs = {}
      BY <1>1, <1>4, <3>1 DEF OneLive
    <3>2. CASE hs # {}
      BY <1>3, <1>4, <3>2
    <3>3. QED
      BY <3>1, <3>2
  <2>2. \A g \in Handles : ~Pending(g, {"attach"})' /\ ~Pending(g, Loop)'
    BY <1>5 DEF Pending, NoCall, Loop
  <2>3. QED
    BY <1>2, <1>6, <2>1, <2>2 DEF OneLive, Sole
<1>10. CallsBounded'
  <2>1. Owed' = 2
    BY <1>2 DEF Owed
  <2>2. PICK o \in 0..2 : o = Owed
    BY DEF Owed
  <2>3. calls + o <= MaxCalls + 2 * drops
    BY <1>1, <2>2 DEF CallsBounded
  <2>4. calls + 2 <= MaxCalls + 2 * (drops + 1)
    BY <1>7, <2>3
  <2>5. QED
    BY <1>2, <2>1, <2>4 DEF CallsBounded
<1>11. IdsApart'
  BY <1>5, <1>6 DEF IdsApart
<1>12. Attaches'
  BY <1>5, <1>6 DEF Attaches, Pending, NoCall
<1>13. Feeds'
  <2>1. \A g \in Handles : handle'[g] = "none" => delivered'[g] = <<>>
    BY <1>1, <1>2, <1>4 DEF Feeds
  <2>2. \A g \in Live' : "event" \notin early => GapFree(g)'
    BY <1>1, <1>2, <1>4 DEF Feeds, GapFree
  <2>3. \A g \in Live' : Fed(down', 0, cursor'[g], att', log')
    <3>1. down \in Seq(Lines)
      BY <1>1 DEF TypeOK
    <3>2. \A c : Fed(<<>>, 0, c, FALSE, log)
      BY <1>7, <3>1, FedStarts
    <3>3. QED
      BY <1>2, <3>2
  <2>4. QED
    BY <1>2, <1>6, <2>1, <2>2, <2>3 DEF Feeds
<1>14. InLog'
  BY <1>1, <1>2, <1>6 DEF InLog
<1>15. QED
  BY <1>8, <1>9, <1>10, <1>11, <1>12, <1>13, <1>14 DEF FeedIInv

\* What the wire and the handles keep when only the channel and the loop move.
LEMMA WireKept ==
  ASSUME FeedIInv, NoAttach, UNCHANGED <<daemonVars, wireVars, callVars, handleVars, drops, early, orphaned>>
  PROVE  IdsApart' /\ Attaches' /\ Feeds' /\ InLog' /\ Live' = Live
<1> USE DEF daemonVars, wireVars, callVars, handleVars
<1>1. IdsApart /\ Feeds /\ InLog
  BY DEF FeedIInv
<1>2. Live' = Live
  BY LiveKept
<1>3. IdsApart' /\ InLog'
  BY <1>1 DEF IdsApart, InLog
<1>4. Attaches'
  BY DEF NoAttach, Attaches, Pending, Due
<1>5. Feeds'
  BY <1>1, <1>2 DEF Feeds, GapFree
<1>6. QED
  BY <1>2, <1>3, <1>4, <1>5

LEMMA ReconnectedKeeps ==
  ASSUME FeedIInv, Reconnected
  PROVE  FeedIInv'
<1>1. TypeOK /\ OneLive /\ CallsBounded
  BY DEF FeedIInv
<1>2. /\ chan = "down" /\ chan' = "opening" /\ todo' = Live
      /\ UNCHANGED <<daemonVars, wireVars, callVars, handleVars, drops, early, orphaned>>
  BY DEF Reconnected
<1>3. NoAttach /\ \A g \in Handles : ~Pending(g, Loop)
  BY <1>1, <1>2 DEF OneLive, NoAttach
<1>4. \A i \in 1..Len(cont) : ~Due(i, Loop)
  BY <1>1, <1>2 DEF OneLive
<1>5. IdsApart' /\ Attaches' /\ Feeds' /\ InLog' /\ Live' = Live
  BY <1>2, <1>3, WireKept
<1>6. TypeOK'
  BY <1>1, <1>2 DEF TypeOK, Live, daemonVars, wireVars, callVars, handleVars
<1>7. OneLive'
  BY <1>1, <1>2, <1>3, <1>4, <1>5 DEF OneLive, Sole, NoAttach, Pending, Due, callVars, handleVars
<1>8. CallsBounded'
  <2>1. Owed = 2 /\ Owed' \in 0..2
    BY <1>2 DEF Owed
  <2>2. calls \in Nat /\ drops \in Nat /\ MaxCalls \in Nat
    BY <1>1, TypeKept, FeedAssumption
  <2>3. PICK o2 \in 0..2 : o2 = Owed'
    BY <2>1
  <2>4. calls + 2 <= MaxCalls + 2 * drops
    BY <1>1, <2>1 DEF CallsBounded
  <2>5. calls + o2 <= MaxCalls + 2 * drops
    BY <2>2, <2>4
  <2>6. QED
    BY <1>2, <2>3, <2>5 DEF CallsBounded, callVars
<1>9. QED
  BY <1>5, <1>6, <1>7, <1>8 DEF FeedIInv

LEMMA ReattachOverKeeps ==
  ASSUME FeedIInv, ReattachOver
  PROVE  FeedIInv'
<1>1. TypeOK /\ OneLive /\ CallsBounded
  BY DEF FeedIInv
<1>2. /\ LoopIdle /\ chan = "opening" /\ cont = <<>> /\ todo = {} /\ chan' = "up"
      /\ UNCHANGED <<daemonVars, wireVars, todo, callVars, handleVars, drops, early, orphaned>>
  BY DEF ReattachOver, LoopIdle
<1>3. NoAttach
  BY <1>1, <1>2 DEF OneLive, NoAttach
<1>4. (\A g \in Handles : ~Pending(g, Loop)) /\ Len(cont) = 0
  BY <1>2 DEF LoopIdle, Pending, Loop
<1>5. IdsApart' /\ Attaches' /\ Feeds' /\ InLog' /\ Live' = Live
  BY <1>2, <1>3, WireKept
<1>6. TypeOK'
  BY <1>1, <1>2 DEF TypeOK, daemonVars, wireVars, callVars, handleVars
<1>7. OneLive'
  BY <1>1, <1>2, <1>3, <1>4, <1>5 DEF OneLive, Sole, NoAttach, Pending, Due, callVars, handleVars
<1>8. CallsBounded'
  <2>1. Reattaching' => Reattaching
    BY <1>2 DEF Reattaching, Pending, Due, callVars
  <2>2. QED
    BY <1>1, <1>2, <1>5, <2>1, OwedShrinks DEF callVars
<1>9. QED
  BY <1>5, <1>6, <1>7, <1>8 DEF FeedIInv

\* The loop calls for the handle it has come to: it owes one call less.
LEMMA LoopCallKeeps ==
  ASSUME FeedIInv, NEW h \in Handles, NEW op \in Loop, NEW md \in Modes, NEW force \in BOOLEAN,
         NEW since \in -1..cursor[h], Call(h, op, "attach", md, force, since), Shrunk, chan = "opening", Live \subseteq {h},
         chan' = "opening", todo' \subseteq todo, h \notin todo',
         \A g \in Handles : ~Pending(g, Loop), \A i \in 1..Len(cont') : ~Due(i, Loop)',
         op = "reattach" => Owed = 2, op = "retry" => Owed >= 1,
         UNCHANGED <<daemonVars, down, handleVars, drops, early, orphaned>>
  PROVE  FeedIInv'
<1> DEFINE c == [id |-> calls + 1, op |-> op, mode |-> md, since |-> since]
<1>1. TypeOK /\ OneLive /\ IdsApart /\ Attaches /\ Feeds /\ InLog /\ CallsBounded
  BY DEF FeedIInv
<1>2. /\ calls \in Nat /\ drops \in Nat /\ MaxCalls \in Nat /\ MaxDrops \in Nat /\ MaxSeq \in Nat /\ drops <= MaxDrops
      /\ pend \in [Handles -> Calls \union {NoCall}]
  BY <1>1, TypeKept, FeedAssumption DEF TypeOK
<1>3. since \in -2..MaxSeq /\ since < log
  <2>1. cursor[h] \in -1..MaxSeq /\ cursor[h] < log /\ log \in Nat
    BY <1>1, TypeKept DEF InLog
  <2>2. QED
    BY <1>2, <2>1
<1>4. NoAttach
  BY <1>1 DEF OneLive, NoAttach
<1>5. Owed \in 0..2 /\ calls + Owed <= MaxCalls + 2 * drops
  BY <1>1 DEF Owed, CallsBounded
<1>6. calls + 1 <= MaxCalls + 2 * MaxDrops
  <2>1. PICK o \in 0..2 : o = Owed
    BY <1>5
  <2>2. o >= 1 /\ calls + o <= MaxCalls + 2 * drops
    BY <1>5, <2>1 DEF Loop
  <2>3. QED
    BY <1>2, <2>2
<1>7. op \in Ops /\ op # "attach" /\ chan' \in {"up", "down", "opening"} /\ todo' \in SUBSET Handles
  BY <1>1 DEF Ops, Loop, TypeOK
<1>8. \A g \in Live : since \in -1..cursor[g]
  OBVIOUS
<1>9. TypeOK' /\ IdsApart' /\ Attaches' /\ Feeds' /\ InLog'
  BY <1>3, <1>4, <1>6, <1>7, <1>8, CallKeeps
<1>10. c.op = op /\ calls' = calls + 1 /\ pend' = [pend EXCEPT ![h] = c]
  BY DEF Call
<1> HIDE DEF c
<1>11. pend'[h].op = op /\ \A g \in Handles : g # h => pend'[g] = pend[g]
  BY <1>2, <1>10
<1>12. \A g \in Handles : ~Pending(g, {"attach"})' /\ (Pending(g, Loop)' => g = h)
  <2> SUFFICES ASSUME NEW g \in Handles PROVE ~Pending(g, {"attach"})' /\ (Pending(g, Loop)' => g = h)
    OBVIOUS
  <2>1. CASE g = h
    BY <1>7, <1>11, <2>1 DEF Pending
  <2>2. CASE g # h
    <3>1. pend'[g] = pend[g]
      BY <1>11, <2>2
    <3>2. QED
      BY <1>4, <3>1 DEF NoAttach, Pending
  <2>3. QED
    BY <2>1, <2>2
<1>13. Live' = Live
  BY LiveKept DEF handleVars
<1>14. \A i \in 1..Len(cont') : ~Due(i, {"attach"})'
  BY <1>4 DEF Shrunk, NoAttach, Due
<1>15. OneLive'
  <2>1. Sole({"attach"})' /\ Sole(Loop)'
    BY <1>12, <1>14 DEF Sole
  <2>2. Live' \subseteq {registry'}
    BY <1>1, <1>13 DEF OneLive, handleVars
  <2>3. QED
    BY <1>12, <1>13, <1>14, <2>1, <2>2 DEF OneLive
<1>16. CallsBounded'
  <2>1. ~(chan' = "down" \/ todo' \intersect Live' # {})
    BY <1>13
  <2>2. Owed' \in {0, 1}
    BY <2>1 DEF Owed
  <2>3. op = "retry" => Owed' = 0
    <3> SUFFICES ASSUME op = "retry" PROVE Owed' = 0
      OBVIOUS
    <3>1. \A g \in Handles : ~Pending(g, {"reattach"})'
      BY <1>11, <1>12 DEF Pending, Loop
    <3>2. \A i \in 1..Len(cont') : ~Due(i, {"reattach"})'
      BY DEF Due, Loop
    <3>3. QED
      BY <2>1, <3>1, <3>2 DEF Owed
  <2>4. PICK o \in 0..2 : o = Owed
    BY <1>5
  <2>5. PICK o2 \in {0, 1} : o2 = Owed'
    BY <2>2
  <2>6. o2 + 1 <= o
    <3>1. CASE op = "reattach"
      <4>1. o = 2
        BY <2>4, <3>1
      <4>2. QED
        BY <4>1
    <3>2. CASE op = "retry"
      <4>1. o2 = 0 /\ o >= 1
        BY <2>3, <2>4, <2>5, <3>2
      <4>2. QED
        BY <4>1
    <3>3. QED
      BY <3>1, <3>2 DEF Loop
  <2>7. calls + o <= MaxCalls + 2 * drops
    BY <1>5, <2>4
  <2>8. (calls + 1) + o2 <= MaxCalls + 2 * drops
    BY <1>2, <2>6, <2>7
  <2>9. QED
    BY <1>10, <2>5, <2>8 DEF CallsBounded
<1>17. QED
  BY <1>9, <1>15, <1>16 DEF FeedIInv

LEMMA ReattachNextKeeps ==
  ASSUME FeedIInv, NEW h \in Handles, ReattachNext(h)
  PROVE  FeedIInv'
<1>1. TypeOK /\ OneLive /\ CallsBounded
  BY DEF FeedIInv
<1>2. /\ chan = "opening" /\ cont = <<>> /\ h \in todo /\ todo' = todo \ {h}
      /\ UNCHANGED <<daemonVars, down, chan, cont, handleVars, drops, early, orphaned>>
      /\ \A g \in Handles : ~Pending(g, Loop)
  BY DEF ReattachNext, LoopIdle, Pending, Loop
<1>3. NoAttach
  BY <1>1, <1>2 DEF OneLive, NoAttach
<1>4. CASE h \in Live
  <2>1. Call(h, "reattach", "attach", mode[h], FALSE, cursor[h]) /\ Live \subseteq {h}
    BY <1>1, <1>4 DEF ReattachNext, OneLive
  <2>2. mode[h] \in Modes /\ "reattach" \in Loop
    BY <1>1 DEF TypeOK, Loop
  <2>3. Shrunk /\ \A i \in 1..Len(cont') : ~Due(i, Loop)'
    BY <1>1, <1>2 DEF Shrunk, Settled, TypeOK
  <2>4. Owed = 2
    BY <1>2, <1>4 DEF Owed
  <2>5. cursor[h] \in -1..cursor[h]
    BY <1>1, TypeKept
  <2>6. QED
    BY <1>2, <2>1, <2>2, <2>3, <2>4, <2>5, LoopCallKeeps
<1>5. CASE h \notin Live
  <2>1. UNCHANGED <<calls, pend, up>>
    BY <1>5 DEF ReattachNext
  <2>2. UNCHANGED <<daemonVars, wireVars, callVars, handleVars, drops, early, orphaned>>
    BY <1>2, <2>1 DEF wireVars, callVars
  <2>3. IdsApart' /\ Attaches' /\ Feeds' /\ InLog' /\ Live' = Live
    BY <1>3, <2>2, WireKept
  <2>4. TypeOK'
    BY <1>1, <1>2, <2>2 DEF TypeOK, daemonVars, wireVars, callVars, handleVars
  <2>5. OneLive'
    BY <1>1, <1>2, <1>3, <2>1, <2>3 DEF OneLive, Sole, NoAttach, Pending, Due, handleVars
  <2>6. CallsBounded'
    <3>1. Reattaching' => Reattaching
      BY <1>2, <2>1 DEF Reattaching, Pending, Due
    <3>2. QED
      BY <1>1, <1>2, <2>1, <2>3, <3>1, OwedShrinks
  <2>7. QED
    BY <2>3, <2>4, <2>5, <2>6 DEF FeedIInv
<1>6. QED
  BY <1>4, <1>5

----------------------------------------------------------------------------
(* Lines that arrive *)

\* The first line has been taken off.
Taken == /\ down # <<>> /\ down' = Tail(down) /\ early \subseteq early' /\ early' \subseteq {"event", "control"}
         /\ UNCHANGED <<daemonVars, up, chan, todo, drops, orphaned, calls>>

LEMMA TakenFacts ==
  ASSUME TypeOK, Taken
  PROVE  /\ down' \in Seq(Lines) /\ Len(down') = Len(down) - 1 /\ Len(down) \in Nat /\ Len(down) >= 1
         /\ down[1] \in Lines /\ Head(down) = down[1] /\ 1 \in 1..Len(down)
         /\ \A i \in 1..Len(down') : down'[i] = down[i + 1] /\ i + 1 \in 1..Len(down)
<1>1. down \in Seq(Lines) /\ down # <<>> /\ down' = Tail(down)
  BY DEF TypeOK, Taken
<1>2. QED
  BY <1>1, RestFacts

\* A feed goes on after a line that is no event, and one that starts later.
LEMMA TakenFeeds ==
  ASSUME TypeOK, Taken, NEW j \in 0..Len(down), NEW c \in Int, Fed(down, j, c, att, log)
  PROVE  /\ j # 0 => Fed(down', j - 1, c, att', log')
         /\ j = 0 /\ down[1].t # "event" => Fed(down', 0, c, att', log')
         /\ j = 0 /\ down[1].t = "event" =>
              /\ down[1].seq <= c + 1
              /\ down[1].seq <= c => Fed(down', 0, c, att', log')
              /\ down[1].seq > c => Fed(down', 0, down[1].seq, att', log')
<1>1. down \in Seq(Lines) /\ down # <<>> /\ down' = Tail(down) /\ log \in Nat /\ att' = att /\ log' = log
  BY TypeKept DEF TypeOK, Taken, daemonVars
<1>2. /\ j # 0 => Fed(Tail(down), j - 1, c, att, log)
      /\ j = 0 /\ down[1].t # "event" => Fed(Tail(down), 0, c, att, log)
      /\ j = 0 /\ down[1].t = "event" =>
           /\ down[1].seq <= c + 1
           /\ down[1].seq <= c => Fed(Tail(down), 0, c, att, log)
           /\ down[1].seq > c => Fed(Tail(down), 0, down[1].seq, att, log)
  BY <1>1, FedMoves
<1>3. QED
  BY <1>1, <1>2

\* A first attach is asked for or served as before, unless its response was the line.
LEMMA TakenAttaches ==
  ASSUME TypeOK, Taken, NEW n
  PROVE  /\ Asked(n) => Asked(n)' /\ ~(down[1].t = "result" /\ down[1].id = n)
         /\ Served(n) /\ ~(down[1].t = "result" /\ down[1].id = n) => Served(n)'
         /\ Served(n) /\ down[1].t = "result" /\ down[1].id = n =>
              up' = <<>> /\ (down[1].ok => Fed(down', 0, down[1].last, att', log'))
<1>1. /\ down' \in Seq(Lines) /\ Len(down') = Len(down) - 1 /\ Len(down) \in Nat /\ Len(down) >= 1
      /\ down[1] \in Lines /\ 1 \in 1..Len(down)
      /\ \A i \in 1..Len(down') : down'[i] = down[i + 1] /\ i + 1 \in 1..Len(down)
  BY TakenFacts
<1>2. up' = up /\ att' = att /\ log' = log
  BY DEF Taken, daemonVars
<1>3. ASSUME Asked(n) PROVE Asked(n)' /\ ~(down[1].t = "result" /\ down[1].id = n)
  <2>1. ~(down[1].t = "result" /\ down[1].id = n)
    BY <1>1, <1>3 DEF Asked
  <2>2. \A i \in 1..Len(down') : down'[i].t = "result" => down'[i].id # n
    BY <1>1, <1>3 DEF Asked
  <2>3. QED
    BY <1>2, <1>3, <2>1, <2>2 DEF Asked
<1>4. ASSUME Served(n)
      PROVE  /\ ~(down[1].t = "result" /\ down[1].id = n) => Served(n)'
             /\ down[1].t = "result" /\ down[1].id = n =>
                  up' = <<>> /\ (down[1].ok => Fed(down', 0, down[1].last, att', log'))
  <2>1. PICK j \in 1..Len(down) :
       /\ down[j].t = "result" /\ down[j].id = n
       /\ \A k \in 1..Len(down) : down[k].t = "result" /\ down[k].id = n => k = j
       /\ down[j].ok => Fed(down, j, down[j].last, att, log)
    BY <1>4 DEF Served
  <2>2. down[j].last \in Int /\ j \in 0..Len(down) /\ j # 0
    <3>1. down[j] \in Lines
      BY TypeKept
    <3>2. down[j].last \in -1..MaxSeq
      BY <2>1, <3>1, LineFacts
    <3>3. QED
      BY <1>1, <3>2, FeedAssumption
  <2>3. down[j].ok => Fed(down', j - 1, down[j].last, att', log')
    BY <2>1, <2>2, TakenFeeds
  <2>4. CASE j = 1
    <3>1. j - 1 = 0
      BY <2>4
    <3>2. QED
      BY <1>2, <1>4, <2>1, <2>3, <2>4, <3>1 DEF Served
  <2>5. CASE j # 1
    <3>1. ~(down[1].t = "result" /\ down[1].id = n)
      BY <1>1, <2>1, <2>5
    <3>2. j - 1 \in 1..Len(down') /\ (j - 1) + 1 = j
      BY <1>1, <2>5
    <3>3. down'[j - 1] = down[j]
      BY <1>1, <3>2
    <3>4. \A k \in 1..Len(down') : down'[k].t = "result" /\ down'[k].id = n => k = j - 1
      <4> SUFFICES ASSUME NEW k \in 1..Len(down'), down'[k].t = "result", down'[k].id = n PROVE k = j - 1
        OBVIOUS
      <4>1. k + 1 \in 1..Len(down) /\ down'[k] = down[k + 1]
        BY <1>1
      <4>2. k + 1 = j
        BY <2>1, <4>1
      <4>3. QED
        BY <1>1, <4>2
    <3>5. /\ down'[j - 1].t = "result" /\ down'[j - 1].id = n
          /\ down'[j - 1].ok => Fed(down', j - 1, down'[j - 1].last, att', log')
      BY <2>1, <2>3, <3>3
    <3>6. up' = <<>>
      BY <1>2, <1>4 DEF Served
    <3>7. Served(n)'
      BY <3>2, <3>4, <3>5, <3>6 DEF Served
    <3>8. QED
      BY <3>1, <3>7
  <2>6. QED
    BY <2>4, <2>5
<1>5. QED
  BY <1>3, <1>4

\* What the wire still says.
LEMMA TakenWire ==
  ASSUME FeedIInv, Taken
  PROVE  /\ \A i \in 1..Len(up') : up'[i].id <= calls' /\ up'[i].since < log'
         /\ \A i \in 1..Len(down') : down'[i].t = "result" => down'[i].id <= calls' /\ down'[i].last < log'
         /\ \A i \in 1..Len(down') : down'[i].t = "event" => down'[i].seq < log'
<1>1. TypeOK /\ IdsApart /\ InLog
  BY DEF FeedIInv
<1>2. \A i \in 1..Len(down') : down'[i] = down[i + 1] /\ i + 1 \in 1..Len(down)
  BY <1>1, TakenFacts
<1>3. up' = up /\ calls' = calls /\ log' = log
  BY DEF Taken, daemonVars
<1>4. QED
  BY <1>1, <1>2, <1>3 DEF IdsApart, InLog

\* A line that settles no call leaves the calls as they were.
LEMMA TakenCalls ==
  ASSUME FeedIInv, Taken, UNCHANGED <<pend, cont>>, down[1].t # "result",
         down[1].t = "event" => \A i \in 1..Len(cont) : Due(i, {"attach"}) /\ cont[i].ok => "event" \in early'
  PROVE  IdsApart' /\ Attaches'
<1>1. TypeOK /\ IdsApart /\ Attaches
  BY DEF FeedIInv
<1>2. IdsApart'
  BY <1>1, TakenWire DEF IdsApart, Taken
<1>3. ASSUME NEW h \in Handles, Pending(h, {"attach"})' PROVE Asked(pend[h].id)' \/ Served(pend[h].id)'
  <2>1. Pending(h, {"attach"}) /\ pend'[h].id = pend[h].id
    BY <1>3 DEF Pending
  <2>2. PICK n : n = pend[h].id
    OBVIOUS
  <2>3. Asked(n) \/ Served(n)
    BY <1>1, <2>1, <2>2 DEF Attaches
  <2>4. Asked(n)' \/ Served(n)'
    BY <1>1, <2>3, TakenAttaches
  <2>5. QED
    BY <2>1, <2>2, <2>4
<1>4. ASSUME NEW i \in 1..Len(cont'), Due(i, {"attach"})'
      PROVE  up' = <<>> /\ (cont'[i].ok /\ "event" \notin early' => Fed(down', 0, cont'[i].last, att', log'))
  <2>1. Due(i, {"attach"}) /\ i \in 1..Len(cont) /\ cont'[i] = cont[i] /\ cont[i].last \in Int
    BY <1>1, <1>4, TypeKept DEF Due
  <2>2. up = <<>> /\ (cont[i].ok /\ "event" \notin early => Fed(down, 0, cont[i].last, att, log))
    BY <1>1, <2>1 DEF Attaches
  <2>3. ASSUME cont[i].ok, "event" \notin early' PROVE Fed(down', 0, cont[i].last, att', log')
    <3>1. down[1].t # "event"
      BY <2>1, <2>3
    <3>2. Fed(down, 0, cont[i].last, att, log) /\ 0 \in 0..Len(down)
      BY <1>1, <2>2, <2>3, TakenFacts DEF Taken
    <3>3. QED
      BY <1>1, <2>1, <3>1, <3>2, TakenFeeds
  <2>4. QED
    BY <2>1, <2>2, <2>3 DEF Taken
<1>5. QED
  BY <1>2, <1>3, <1>4 DEF Attaches

\* The next event, appended to what was delivered.
LEMMA GapGrows ==
  ASSUME NEW f \in Int, NEW c \in Int, f <= c
  PROVE  Append([i \in 1..(c - f) |-> f + i], c + 1) = [i \in 1..((c + 1) - f) |-> f + i]
<1> DEFINE s == [i \in 1..(c - f) |-> f + i]
           u == [i \in 1..((c + 1) - f) |-> f + i]
<1>1. c - f \in Nat /\ (c + 1) - f = (c - f) + 1 /\ (c + 1) - f \in Nat
  OBVIOUS
<1>2. s \in Seq(Int) /\ Len(s) = c - f /\ \A i \in 1..(c - f) : s[i] = f + i
  BY <1>1
<1>3. u \in Seq(Int) /\ Len(u) = (c - f) + 1 /\ \A i \in 1..((c - f) + 1) : u[i] = f + i
  BY <1>1
<1> HIDE DEF s, u
<1> DEFINE w == Append(s, c + 1)
<1>4. w \in Seq(Int) /\ Len(w) = Len(s) + 1 /\ w[Len(s) + 1] = c + 1 /\ \A i \in 1..Len(s) : w[i] = s[i]
  <2>1. s \in Seq(Int) /\ c + 1 \in Int
    BY <1>2
  <2>2. QED
    BY <2>1, SnocFacts
<1> HIDE DEF w
<1>5. ASSUME NEW i \in 1..Len(w) PROVE w[i] = u[i]
  <2>1. CASE i \in 1..(c - f)
    BY <1>1, <1>2, <1>3, <1>4, <2>1
  <2>2. CASE i = (c - f) + 1
    <3>1. w[i] = c + 1 /\ u[i] = f + i /\ f + i = c + 1
      BY <1>1, <1>2, <1>3, <1>4, <2>2
    <3>2. QED
      BY <3>1
  <2>3. QED
    BY <1>1, <1>2, <1>4, <2>1, <2>2
<1>6. w = u
  BY <1>1, <1>2, <1>3, <1>4, <1>5, SeqEqual
<1>7. QED
  BY <1>6 DEF w, s, u

\* An event arrives: the live handle takes the next one and skips the others.
LEMMA EventKeeps ==
  ASSUME FeedIInv, Taken, down[1].t = "event", Deliver(down[1].seq),
         \A i \in 1..Len(cont) : Due(i, {"attach"}) /\ cont[i].ok => "event" \in early'
  PROVE  FeedIInv'
<1>1. TypeOK /\ OneLive /\ IdsApart /\ Attaches /\ Feeds /\ InLog /\ CallsBounded
  BY DEF FeedIInv
<1>2. /\ down' \in Seq(Lines) /\ down[1] \in Lines /\ 1 \in 1..Len(down) /\ Len(down) \in Nat
  BY <1>1, TakenFacts
<1>3. PICK n \in 0..MaxSeq : n = down[1].seq
  BY <1>2, LineFacts
<1>4. /\ n < log /\ n \in Int /\ log \in Nat /\ MaxSeq \in Nat
  BY <1>1, <1>2, <1>3, TypeKept DEF InLog
<1> DEFINE news == {h \in Live : n > cursor[h]}
<1>5. /\ cursor' = [h \in Handles |-> IF h \in news THEN n ELSE cursor[h]]
      /\ delivered' = [h \in Handles |-> IF h \in news THEN Append(delivered[h], n) ELSE delivered[h]]
      /\ UNCHANGED <<calls, pend, cont, registry, handle, mode, first>>
  BY <1>3 DEF Deliver, callVars
<1>6. UNCHANGED <<log, att, lease, up, chan, todo, drops, orphaned>> /\ early \subseteq early' /\ early' \subseteq {"event", "control"}
  BY DEF Taken, daemonVars
<1>7. Live' = Live /\ Live \subseteq Handles
  BY <1>5, LiveKept DEF Live
<1>8. /\ \A h \in Handles : cursor'[h] = IF h \in news THEN n ELSE cursor[h]
      /\ \A h \in Handles : delivered'[h] = IF h \in news THEN Append(delivered[h], n) ELSE delivered[h]
  BY <1>5
<1>9. \A h \in Handles : cursor[h] \in Int /\ first[h] \in Int /\ cursor[h] \in -1..MaxSeq
  BY <1>1, TypeKept
<1>10. TypeOK'
  <2>1. cursor' \in [Handles -> -1..MaxSeq]
    <3>1. \A h \in Handles : (IF h \in news THEN n ELSE cursor[h]) \in -1..MaxSeq
      BY <1>4, <1>9
    <3>2. QED
      BY <1>5, <3>1
  <2>2. delivered' \in [Handles -> Seq(0..MaxSeq)]
    <3>1. \A h \in Handles : delivered[h] \in Seq(0..MaxSeq) /\ Append(delivered[h], n) \in Seq(0..MaxSeq)
      BY <1>1 DEF TypeOK
    <3>2. QED
      BY <1>5, <3>1
  <2>3. QED
    BY <1>1, <1>2, <1>5, <1>6, <2>1, <2>2 DEF TypeOK
<1>11. OneLive' /\ CallsBounded'
  BY <1>1, <1>5, <1>6, OneLiveKept, CallsBoundedKept
<1>12. IdsApart' /\ Attaches'
  BY <1>5, TakenCalls
<1>13. Feeds'
  <2>1. \A h \in Handles : handle'[h] = "none" => delivered'[h] = <<>>
    <3> SUFFICES ASSUME NEW h \in Handles, handle[h] = "none" PROVE delivered'[h] = <<>>
      BY <1>5
    <3>1. h \notin news /\ delivered[h] = <<>>
      BY <1>1 DEF Live, Feeds
    <3>2. QED
      BY <1>8, <3>1
  <2>2. ASSUME NEW h \in Live, "event" \notin early PROVE GapFree(h)' /\ Fed(down', 0, cursor'[h], att', log')
    <3>1. h \in Handles /\ cursor[h] \in Int /\ first[h] \in Int /\ 0 \in 0..Len(down) /\ first[h] <= cursor[h]
      BY <1>1, <1>2, <1>7, <1>9, <2>2 DEF InLog
    <3>2. GapFree(h) /\ Fed(down, 0, cursor[h], att, log)
      BY <1>1, <2>2 DEF Feeds
    <3>3. /\ n <= cursor[h] + 1
          /\ n <= cursor[h] => Fed(down', 0, cursor[h], att', log')
          /\ n > cursor[h] => Fed(down', 0, n, att', log')
      BY <1>1, <1>3, <3>1, <3>2, TakenFeeds
    <3>4. CASE n > cursor[h]
      <4>1. cursor'[h] = n /\ delivered'[h] = Append(delivered[h], n) /\ n = cursor[h] + 1 /\ first'[h] = first[h]
        BY <1>4, <1>5, <1>8, <3>1, <3>3, <3>4
      <4>2. delivered[h] = [i \in 1..(cursor[h] - first[h]) |-> first[h] + i]
        BY <3>2 DEF GapFree
      <4>3. Append([i \in 1..(cursor[h] - first[h]) |-> first[h] + i], cursor[h] + 1)
              = [i \in 1..((cursor[h] + 1) - first[h]) |-> first[h] + i]
        BY <3>1, GapGrows
      <4>4. delivered'[h] = [i \in 1..(cursor'[h] - first'[h]) |-> first'[h] + i]
        BY <4>1, <4>2, <4>3
      <4>5. QED
        BY <3>3, <3>4, <4>1, <4>4 DEF GapFree
    <3>5. CASE ~(n > cursor[h])
      <4>1. cursor'[h] = cursor[h] /\ delivered'[h] = delivered[h] /\ first'[h] = first[h] /\ n <= cursor[h]
        BY <1>4, <1>5, <1>8, <3>1, <3>5
      <4>2. QED
        BY <3>2, <3>3, <4>1 DEF GapFree
    <3>6. QED
      BY <3>4, <3>5
  <2>3. ASSUME NEW h \in Live, NEW i \in 1..Len(up'), up'[i].method = "attach" PROVE up'[i].since \in -1..cursor'[h]
    <3>1. h \in Handles /\ up'[i] = up[i] /\ up[i].since \in -1..cursor[h] /\ cursor[h] \in Int
      BY <1>1, <1>6, <1>7, <1>9, <2>3 DEF Feeds
    <3>2. PICK c2 \in Int : c2 = cursor'[h] /\ cursor[h] <= c2
      BY <1>4, <1>8, <3>1
    <3>3. up[i].since \in -1..c2
      BY <3>1, <3>2
    <3>4. QED
      BY <3>1, <3>2, <3>3
  <2>4. "event" \notin early' => "event" \notin early
    BY <1>6
  <2>5. QED
    BY <1>7, <2>1, <2>2, <2>3, <2>4 DEF Feeds
<1>14. InLog'
  <2>1. \A h \in Handles : first'[h] <= cursor'[h] /\ cursor'[h] < log'
    <3> SUFFICES ASSUME NEW h \in Handles PROVE first'[h] <= cursor'[h] /\ cursor'[h] < log'
      OBVIOUS
    <3>1. first[h] <= cursor[h] /\ cursor[h] < log /\ cursor[h] \in Int /\ first[h] \in Int
      BY <1>1, <1>9 DEF InLog
    <3>2. PICK c2 \in Int : c2 = cursor'[h] /\ cursor[h] <= c2 /\ c2 < log
      BY <1>4, <1>8, <3>1
    <3>3. first[h] <= c2
      BY <3>1, <3>2
    <3>4. QED
      BY <1>5, <1>6, <3>2, <3>3
  <2>2. \A i \in 1..Len(cont') : cont'[i].last < log'
    BY <1>1, <1>5, <1>6 DEF InLog
  <2>3. QED
    BY <2>1, <2>2, TakenWire DEF InLog
<1>15. QED
  BY <1>10, <1>11, <1>12, <1>13, <1>14 DEF FeedIInv

\* What a line that is no event leaves of the feeds.
LEMMA TakenKeepsFeeds ==
  ASSUME FeedIInv, Taken, down[1].t # "event", UNCHANGED <<handle, first, cursor, delivered>>
  PROVE  Feeds' /\ Live' = Live
<1>1. TypeOK /\ Feeds
  BY DEF FeedIInv
<1>2. Live' = Live /\ Live \subseteq Handles
  BY LiveKept DEF Live
<1>3. up' = up /\ early \subseteq early'
  BY DEF Taken
<1>4. ASSUME NEW h \in Live, "event" \notin early PROVE GapFree(h)' /\ Fed(down', 0, cursor'[h], att', log')
  <2>1. cursor[h] \in Int /\ 0 \in 0..Len(down)
    BY <1>1, <1>2, TypeKept, TakenFacts
  <2>2. GapFree(h) /\ Fed(down, 0, cursor[h], att, log)
    BY <1>1, <1>4 DEF Feeds
  <2>3. Fed(down', 0, cursor[h], att', log')
    BY <1>1, <2>1, <2>2, TakenFeeds
  <2>4. QED
    BY <2>2, <2>3 DEF GapFree
<1>5. QED
  BY <1>1, <1>2, <1>3, <1>4 DEF Feeds

LEMMA ControlKeeps ==
  ASSUME FeedIInv, Taken, down[1].t = "control", ControlChanged(down[1].holder, down[1].reason)
  PROVE  FeedIInv'
<1>1. TypeOK /\ OneLive /\ InLog /\ CallsBounded
  BY DEF FeedIInv
<1>2. UNCHANGED <<calls, pend, cont, registry, handle, first, cursor, delivered>>
  BY DEF ControlChanged, callVars
<1>3. UNCHANGED <<log, att, lease, up, chan, todo, drops, orphaned>> /\ early' \subseteq {"event", "control"}
  BY DEF Taken, daemonVars
<1>4. mode' \in [Handles -> Modes]
  <2>1. \A h \in Handles : mode[h] \in Modes
    BY <1>1 DEF TypeOK
  <2>2. \A h \in Handles : ModeAfter(h, down[1].holder, down[1].reason) \in Modes
    BY <2>1 DEF ModeAfter, Modes
  <2>3. QED
    BY <2>1, <2>2 DEF ControlChanged
<1>5. TypeOK'
  BY <1>1, <1>2, <1>3, <1>4, TakenFacts DEF TypeOK
<1>6. OneLive' /\ CallsBounded'
  BY <1>1, <1>2, <1>3, OneLiveKept, CallsBoundedKept
<1>7. IdsApart' /\ Attaches'
  BY <1>2, TakenCalls
<1>8. Feeds'
  BY <1>2, TakenKeepsFeeds
<1>9. InLog'
  BY <1>1, <1>2, <1>3, TakenWire DEF InLog
<1>10. QED
  BY <1>5, <1>6, <1>7, <1>8, <1>9 DEF FeedIInv

\* A response for a call in flight: the call is answered, no other one is.
LEMMA AnsweredFacts ==
  ASSUME FeedIInv, Taken, down[1].t = "result", Answered(down[1])
  PROVE  /\ UNCHANGED <<calls, handleVars>>
         /\ pend' \in [Handles -> Calls \union {NoCall}] /\ cont' \in Seq(Settled)
         /\ \A g \in Handles : pend'[g] = pend[g] \/ (pend'[g] = NoCall /\ pend[g] # NoCall /\ pend[g].id = down[1].id)
         /\ \A g \in Handles : pend'[g] # NoCall => pend'[g].id # down[1].id
         /\ \/ cont' = cont /\ pend' = pend
            \/ \E h \in Handles :
                 /\ pend[h] # NoCall /\ pend[h].id = down[1].id /\ pend'[h] = NoCall
                 /\ \A g \in Handles : g # h => pend'[g] = pend[g]
                 /\ cont' = Append(cont, [h |-> h, call |-> pend[h], ok |-> down[1].ok, last |-> down[1].last])
                 /\ [h |-> h, call |-> pend[h], ok |-> down[1].ok, last |-> down[1].last] \in Settled
<1> DEFINE whose == {h \in Handles : pend[h].id = down[1].id /\ pend[h] # NoCall}
<1>1. TypeOK /\ IdsApart
  BY DEF FeedIInv
<1>2. pend \in [Handles -> Calls \union {NoCall}] /\ cont \in Seq(Settled)
  BY <1>1 DEF TypeOK, Settled
<1>3. /\ cont' = IF whose = {} THEN cont
                 ELSE LET h == CHOOSE x \in whose : TRUE IN
                      Append(cont, [h |-> h, call |-> pend[h], ok |-> down[1].ok, last |-> down[1].last])
      /\ pend' = [h \in Handles |-> IF h \in whose THEN NoCall ELSE pend[h]]
      /\ UNCHANGED <<calls, handleVars>>
  BY DEF Answered
<1>4. \A g \in Handles : pend'[g] = IF g \in whose THEN NoCall ELSE pend[g]
  BY <1>3
<1>5. pend' \in [Handles -> Calls \union {NoCall}]
  BY <1>2, <1>3
<1>6. \A g \in Handles : pend'[g] = pend[g] \/ (pend'[g] = NoCall /\ pend[g] # NoCall /\ pend[g].id = down[1].id)
  BY <1>4
<1>7. \A g \in Handles : pend'[g] # NoCall => pend'[g].id # down[1].id
  BY <1>4
<1>8. CASE whose = {}
  <2>1. \A g \in Handles : pend'[g] = pend[g]
    BY <1>4, <1>8
  <2>2. pend' = pend
    BY <1>2, <1>5, <2>1
  <2>3. QED
    BY <1>2, <1>3, <1>5, <1>6, <1>7, <1>8, <2>2
<1>9. CASE whose # {}
  <2>1. PICK h : h = CHOOSE x \in whose : TRUE
    OBVIOUS
  <2>2. h \in whose
    BY <1>9, <2>1
  <2>3. h \in Handles /\ pend[h] # NoCall /\ pend[h].id = down[1].id /\ pend'[h] = NoCall
    BY <1>4, <2>2
  <2>4. \A g \in Handles : g # h => pend'[g] = pend[g]
    BY <1>1, <1>4, <2>3 DEF IdsApart
  <2> DEFINE k == [h |-> h, call |-> pend[h], ok |-> down[1].ok, last |-> down[1].last]
  <2>5. cont' = Append(cont, k)
    BY <1>3, <1>9, <2>1
  <2>6. k \in Settled
    <3>1. down[1] \in Lines
      BY <1>1, TakenFacts
    <3>2. down[1].ok \in BOOLEAN /\ down[1].last \in -1..MaxSeq
      BY <3>1, LineFacts
    <3>3. pend[h] \in Calls
      BY <1>2, <2>3
    <3>4. QED
      BY <2>3, <3>2, <3>3 DEF Settled
  <2>7. cont' \in Seq(Settled)
    BY <1>2, <2>5, <2>6
  <2>8. QED
    BY <1>3, <1>5, <1>6, <1>7, <2>3, <2>4, <2>5, <2>6, <2>7
<1>10. QED
  BY <1>8, <1>9

\* What waits for an answer and what was answered, by kind, after a response:
\* the calls are the same, and one of them may have moved.
LEMMA AnsweredSole ==
  ASSUME FeedIInv, Taken, down[1].t = "result", Answered(down[1]), NEW ops, "none" \notin ops, Sole(ops)
  PROVE  /\ Sole(ops)'
         /\ \A g \in Handles : Pending(g, ops)' => Pending(g, ops)
         /\ \A i \in 1..Len(cont') : Due(i, ops)' =>
              \/ i \in 1..Len(cont) /\ Due(i, ops) /\ cont'[i] = cont[i]
              \/ /\ Pending(cont'[i].h, ops) /\ cont'[i].h \in Handles /\ pend[cont'[i].h].id = down[1].id
                 /\ cont'[i].ok = down[1].ok /\ cont'[i].last = down[1].last
<1>1. TypeOK /\ cont \in Seq(Settled)
  BY DEF FeedIInv, TypeOK, Settled
<1>2. /\ \A g \in Handles : pend'[g] = pend[g] \/ (pend'[g] = NoCall /\ pend[g] # NoCall /\ pend[g].id = down[1].id)
      /\ \/ cont' = cont
         \/ \E h \in Handles :
              /\ pend[h] # NoCall /\ pend[h].id = down[1].id /\ pend'[h] = NoCall
              /\ \A g \in Handles : g # h => pend'[g] = pend[g]
              /\ cont' = Append(cont, [h |-> h, call |-> pend[h], ok |-> down[1].ok, last |-> down[1].last])
              /\ [h |-> h, call |-> pend[h], ok |-> down[1].ok, last |-> down[1].last] \in Settled
  BY AnsweredFacts
<1>3. \A g \in Handles : Pending(g, ops)' => Pending(g, ops) /\ pend'[g] # NoCall
  BY <1>2 DEF Pending, NoCall
<1>4. CASE cont' = cont
  <2>1. \A i \in 1..Len(cont') : Due(i, ops)' => i \in 1..Len(cont) /\ Due(i, ops) /\ cont'[i] = cont[i]
    BY <1>4 DEF Due
  <2>2. Sole(ops)'
    BY <1>3, <1>4, <2>1 DEF Sole
  <2>3. QED
    BY <1>3, <2>1, <2>2
<1>5. CASE cont' # cont
  <2>1. PICK h \in Handles :
              /\ pend[h] # NoCall /\ pend[h].id = down[1].id /\ pend'[h] = NoCall
              /\ \A g \in Handles : g # h => pend'[g] = pend[g]
              /\ cont' = Append(cont, [h |-> h, call |-> pend[h], ok |-> down[1].ok, last |-> down[1].last])
              /\ [h |-> h, call |-> pend[h], ok |-> down[1].ok, last |-> down[1].last] \in Settled
    BY <1>2, <1>5
  <2> DEFINE k == [h |-> h, call |-> pend[h], ok |-> down[1].ok, last |-> down[1].last]
  <2>2. k.h = h /\ k.call = pend[h] /\ k.ok = down[1].ok /\ k.last = down[1].last /\ k \in Settled /\ cont' = Append(cont, k)
    BY <2>1
  <2> HIDE DEF k
  <2>3. /\ Len(cont') = Len(cont) + 1 /\ cont'[Len(cont) + 1] = k /\ Len(cont) \in Nat
        /\ \A i \in 1..Len(cont) : cont'[i] = cont[i]
        /\ \A i \in 1..Len(cont') : i \in 1..Len(cont) \/ i = Len(cont) + 1
    BY <1>1, <2>2, SnocFacts
  <2>4. \A i \in 1..Len(cont') : Due(i, ops)' =>
          \/ i \in 1..Len(cont) /\ Due(i, ops) /\ cont'[i] = cont[i]
          \/ i = Len(cont) + 1 /\ cont'[i] = k /\ Pending(h, ops)
    <3> SUFFICES ASSUME NEW i \in 1..Len(cont'), Due(i, ops)'
                 PROVE  \/ i \in 1..Len(cont) /\ Due(i, ops) /\ cont'[i] = cont[i]
                        \/ i = Len(cont) + 1 /\ cont'[i] = k /\ Pending(h, ops)
      OBVIOUS
    <3>1. CASE i \in 1..Len(cont)
      BY <2>3, <3>1 DEF Due
    <3>2. CASE i = Len(cont) + 1
      BY <2>2, <2>3, <3>2 DEF Due, Pending
    <3>3. QED
      BY <2>3, <3>1, <3>2
  <2>5. \A g \in Handles : Pending(g, ops)' => g # h
    BY <1>3, <2>1
  <2>6. Sole(ops)'
    <3>1. ASSUME NEW a \in Handles, NEW b \in Handles, Pending(a, ops)', Pending(b, ops)' PROVE a = b
      BY <1>3, <3>1 DEF Sole
    <3>2. ASSUME NEW g \in Handles, Pending(g, ops)', NEW i \in 1..Len(cont'), Due(i, ops)' PROVE FALSE
      <4>1. Pending(g, ops) /\ g # h
        BY <1>3, <2>5, <3>2
      <4>2. i \in 1..Len(cont) /\ Due(i, ops)
        BY <2>4, <3>2, <4>1 DEF Sole
      <4>3. QED
        BY <4>1, <4>2 DEF Sole
    <3>3. ASSUME NEW i \in 1..Len(cont'), NEW j \in 1..Len(cont'), Due(i, ops)', Due(j, ops)' PROVE i = j
      <4>1. CASE Pending(h, ops)
        <5>1. i = Len(cont) + 1 /\ j = Len(cont) + 1
          BY <2>4, <3>3, <4>1 DEF Sole
        <5>2. QED
          BY <5>1
      <4>2. CASE ~Pending(h, ops)
        BY <2>4, <3>3, <4>2 DEF Sole
      <4>3. QED
        BY <4>1, <4>2
    <3>4. QED
      BY <3>1, <3>2, <3>3 DEF Sole
  <2>7. QED
    BY <1>3, <2>1, <2>2, <2>4, <2>6
<1>6. QED
  BY <1>4, <1>5

LEMMA ResultKeeps ==
  ASSUME FeedIInv, Taken, down[1].t = "result", Answered(down[1])
  PROVE  FeedIInv'
<1>1. TypeOK /\ OneLive /\ IdsApart /\ Attaches /\ Feeds /\ InLog /\ CallsBounded
  BY DEF FeedIInv
<1>2. /\ UNCHANGED <<calls, handleVars>>
      /\ pend' \in [Handles -> Calls \union {NoCall}] /\ cont' \in Seq(Settled)
      /\ \A g \in Handles : pend'[g] = pend[g] \/ (pend'[g] = NoCall /\ pend[g] # NoCall /\ pend[g].id = down[1].id)
      /\ \A g \in Handles : pend'[g] # NoCall => pend'[g].id # down[1].id
  BY AnsweredFacts
<1>3. \/ cont' = cont
      \/ \E h \in Handles :
           /\ pend[h] # NoCall /\ pend[h].id = down[1].id /\ pend'[h] = NoCall
           /\ \A g \in Handles : g # h => pend'[g] = pend[g]
           /\ cont' = Append(cont, [h |-> h, call |-> pend[h], ok |-> down[1].ok, last |-> down[1].last])
           /\ [h |-> h, call |-> pend[h], ok |-> down[1].ok, last |-> down[1].last] \in Settled
  BY AnsweredFacts
<1>4. UNCHANGED <<log, att, lease, up, chan, todo, drops, orphaned>> /\ early \subseteq early' /\ early' \subseteq {"event", "control"}
  BY DEF Taken, daemonVars
<1>5. /\ down' \in Seq(Lines) /\ down[1] \in Lines /\ 1 \in 1..Len(down) /\ Len(down) \in Nat
  BY <1>1, TakenFacts
<1>6. Feeds' /\ Live' = Live
  BY <1>2, TakenKeepsFeeds DEF handleVars
<1>7. TypeOK'
  BY <1>1, <1>2, <1>4, <1>5 DEF TypeOK, Settled, handleVars
<1>8. "none" \notin {"attach"} /\ "none" \notin Loop /\ Sole({"attach"}) /\ Sole(Loop)
  BY <1>1 DEF OneLive, Loop
<1>9. /\ Sole({"attach"})'
      /\ \A g \in Handles : Pending(g, {"attach"})' => Pending(g, {"attach"})
      /\ \A i \in 1..Len(cont') : Due(i, {"attach"})' =>
           \/ i \in 1..Len(cont) /\ Due(i, {"attach"}) /\ cont'[i] = cont[i]
           \/ /\ Pending(cont'[i].h, {"attach"}) /\ cont'[i].h \in Handles /\ pend[cont'[i].h].id = down[1].id
              /\ cont'[i].ok = down[1].ok /\ cont'[i].last = down[1].last
  BY <1>8, AnsweredSole
<1>10. /\ Sole(Loop)'
       /\ \A g \in Handles : Pending(g, Loop)' => Pending(g, Loop)
       /\ \A i \in 1..Len(cont') : Due(i, Loop)' =>
            \/ i \in 1..Len(cont) /\ Due(i, Loop) /\ cont'[i] = cont[i]
            \/ Pending(cont'[i].h, Loop) /\ cont'[i].h \in Handles
  BY <1>8, AnsweredSole
<1>11. OneLive'
  <2>1. ASSUME NEW i \in 1..Len(cont'), Due(i, {"attach"})' PROVE chan' = "up" /\ Live' = {} /\ handle'[cont'[i].h] = "none"
    BY <1>1, <1>2, <1>4, <1>6, <1>9, <2>1 DEF OneLive, handleVars
  <2>2. ASSUME NEW i \in 1..Len(cont'), Due(i, Loop)'
        PROVE  chan' = "opening" /\ Live' \subseteq {cont'[i].h} /\ cont'[i].h \notin todo'
    BY <1>1, <1>2, <1>4, <1>6, <1>10, <2>2 DEF OneLive
  <2>3. \A h \in Handles : Pending(h, {"attach"})' => chan' = "up" /\ Live' = {} /\ handle'[h] = "none"
    BY <1>1, <1>2, <1>4, <1>6, <1>9 DEF OneLive, handleVars
  <2>4. \A h \in Handles : Pending(h, Loop)' => chan' = "opening" /\ Live' \subseteq {h} /\ h \notin todo'
    BY <1>1, <1>2, <1>4, <1>6, <1>10 DEF OneLive
  <2>5. Live' \subseteq {registry'} /\ (chan' # "opening" => todo' = {})
    BY <1>1, <1>2, <1>4, <1>6 DEF OneLive, handleVars
  <2>6. QED
    BY <1>9, <1>10, <2>1, <2>2, <2>3, <2>4, <2>5 DEF OneLive
<1>12. CallsBounded'
  <2>1. Reattaching' => Reattaching
    <3>1. \A g \in Handles : Pending(g, {"reattach"})' => Pending(g, {"reattach"})
      BY <1>2 DEF Pending, NoCall
    <3>2. ASSUME NEW i \in 1..Len(cont'), Due(i, {"reattach"})' PROVE Reattaching
      <4>1. CASE cont' = cont
        BY <3>2, <4>1 DEF Due, Reattaching
      <4>2. CASE cont' # cont
        <5>1. PICK h \in Handles :
                /\ cont' = Append(cont, [h |-> h, call |-> pend[h], ok |-> down[1].ok, last |-> down[1].last])
                /\ [h |-> h, call |-> pend[h], ok |-> down[1].ok, last |-> down[1].last] \in Settled
          BY <1>3, <4>2
        <5> DEFINE k == [h |-> h, call |-> pend[h], ok |-> down[1].ok, last |-> down[1].last]
        <5>2. k.call = pend[h] /\ k \in Settled /\ cont' = Append(cont, k) /\ cont \in Seq(Settled)
          BY <1>1, <5>1 DEF TypeOK, Settled
        <5> HIDE DEF k
        <5>3. /\ cont'[Len(cont) + 1] = k /\ \A j \in 1..Len(cont) : cont'[j] = cont[j]
              /\ \A j \in 1..Len(cont') : j \in 1..Len(cont) \/ j = Len(cont) + 1
          BY <5>2, SnocFacts
        <5>4. QED
          BY <3>2, <5>2, <5>3 DEF Due, Pending, Reattaching
      <4>3. QED
        BY <4>1, <4>2
    <3>3. QED
      BY <3>1, <3>2 DEF Reattaching
  <2>2. QED
    BY <1>1, <1>2, <1>4, <1>6, <2>1, OwedShrinks
<1>13. IdsApart'
  <2>1. \A g \in Handles : pend'[g] # NoCall => pend'[g] = pend[g] /\ pend'[g].id # 0
    BY <1>2 DEF Calls
  <2>2. ASSUME NEW g \in Handles, NEW k \in Handles, pend'[g] # NoCall, pend'[g].id = pend'[k].id PROVE g = k
    <3>1. pend'[g] = pend[g] /\ pend'[k] # NoCall
      BY <2>1, <2>2 DEF NoCall
    <3>2. pend'[k] = pend[k]
      BY <2>1, <3>1
    <3>3. QED
      BY <1>1, <2>2, <3>1, <3>2 DEF IdsApart
  <2>3. \A g \in Handles : pend'[g] # NoCall => pend'[g].id <= calls'
    BY <1>1, <1>2, <2>1 DEF IdsApart
  <2>4. QED
    BY <2>2, <2>3, TakenWire DEF IdsApart
<1>14. Attaches'
  <2>1. ASSUME NEW h \in Handles, Pending(h, {"attach"})' PROVE Asked(pend[h].id)' \/ Served(pend[h].id)'
    <3>1. Pending(h, {"attach"}) /\ pend'[h] # NoCall
      BY <1>9, <2>1 DEF Pending, NoCall
    <3>2. PICK n : n = pend[h].id /\ n = pend'[h].id /\ n # down[1].id
      BY <1>2, <3>1
    <3>3. Asked(n) \/ Served(n)
      BY <1>1, <3>1, <3>2 DEF Attaches
    <3>4. Asked(n)' \/ Served(n)'
      BY <1>1, <3>2, <3>3, TakenAttaches
    <3>5. QED
      BY <3>2, <3>4
  <2>2. ASSUME NEW i \in 1..Len(cont'), Due(i, {"attach"})'
        PROVE  up' = <<>> /\ (cont'[i].ok /\ "event" \notin early' => Fed(down', 0, cont'[i].last, att', log'))
    <3>1. CASE i \in 1..Len(cont) /\ Due(i, {"attach"}) /\ cont'[i] = cont[i]
      <4>1. up = <<>> /\ (cont[i].ok /\ "event" \notin early => Fed(down, 0, cont[i].last, att, log))
        BY <1>1, <3>1 DEF Attaches
      <4>2. cont[i].last \in Int /\ 0 \in 0..Len(down)
        BY <1>1, <1>5, <3>1, TypeKept
      <4>3. cont[i].ok /\ "event" \notin early => Fed(down', 0, cont[i].last, att', log')
        BY <1>1, <4>1, <4>2, TakenFeeds
      <4>4. QED
        BY <1>4, <3>1, <4>1, <4>3
    <3>2. CASE /\ Pending(cont'[i].h, {"attach"}) /\ cont'[i].h \in Handles /\ pend[cont'[i].h].id = down[1].id
               /\ cont'[i].ok = down[1].ok /\ cont'[i].last = down[1].last
      <4>1. PICK h \in Handles : h = cont'[i].h
        BY <3>2
      <4>2. PICK n : n = pend[h].id
        OBVIOUS
      <4>3. (Asked(n) \/ Served(n)) /\ n = down[1].id
        BY <1>1, <3>2, <4>1, <4>2 DEF Attaches
      <4>4. up' = <<>> /\ (down[1].ok => Fed(down', 0, down[1].last, att', log'))
        BY <1>1, <4>3, TakenAttaches
      <4>5. QED
        BY <3>2, <4>4
    <3>3. QED
      BY <1>9, <2>2, <3>1, <3>2
  <2>3. QED
    BY <2>1, <2>2 DEF Attaches
<1>15. InLog'
  <2>1. \A i \in 1..Len(cont') : cont'[i].last < log'
    <3>1. CASE cont' = cont
      BY <1>1, <1>4, <3>1 DEF InLog
    <3>2. CASE cont' # cont
      <4>1. PICK h \in Handles :
              /\ cont' = Append(cont, [h |-> h, call |-> pend[h], ok |-> down[1].ok, last |-> down[1].last])
              /\ [h |-> h, call |-> pend[h], ok |-> down[1].ok, last |-> down[1].last] \in Settled
        BY <1>3, <3>2
      <4> DEFINE k == [h |-> h, call |-> pend[h], ok |-> down[1].ok, last |-> down[1].last]
      <4>2. k.last = down[1].last /\ k \in Settled /\ cont' = Append(cont, k) /\ cont \in Seq(Settled)
        BY <1>1, <4>1 DEF TypeOK, Settled
      <4> HIDE DEF k
      <4>3. /\ cont'[Len(cont) + 1] = k /\ \A j \in 1..Len(cont) : cont'[j] = cont[j]
            /\ \A j \in 1..Len(cont') : j \in 1..Len(cont) \/ j = Len(cont) + 1
        BY <4>2, SnocFacts
      <4>4. down[1].last < log
        BY <1>1, <1>5 DEF InLog
      <4>5. QED
        BY <1>1, <1>4, <4>2, <4>3, <4>4 DEF InLog
    <3>3. QED
      BY <3>1, <3>2
  <2>2. QED
    BY <1>1, <1>2, <1>4, <2>1, TakenWire DEF InLog, handleVars
<1>16. QED
  BY <1>6, <1>7, <1>11, <1>12, <1>13, <1>14, <1>15 DEF FeedIInv

LEMMA ReceiveKeeps ==
  ASSUME FeedIInv, Receive
  PROVE  FeedIInv' /\ Taken
<1>1. TypeOK
  BY DEF FeedIInv
<1>2. down \in Seq(Lines) /\ down # <<>> /\ down' = Tail(down)
  BY <1>1 DEF TypeOK, Receive
<1>3. Head(down) = down[1] /\ down[1] \in Lines
  BY <1>2, RestFacts
<1>4. down[1].t \in {"event", "control", "result"}
  BY <1>3, LineFacts
<1>5. early' = IF EarlyLine(down[1]) THEN early \union {down[1].t} ELSE early
  BY <1>3 DEF Receive
<1>6. EarlyLine(down[1]) => down[1].t \in {"event", "control"}
  BY DEF EarlyLine
<1>7. early \subseteq early' /\ early' \subseteq {"event", "control"}
  BY <1>1, <1>5, <1>6 DEF TypeOK
<1>8. calls' = calls
  BY <1>3, <1>4 DEF Receive, Deliver, ControlChanged, Answered, callVars
<1>9. Taken
  BY <1>2, <1>7, <1>8 DEF Taken, Receive
<1>10. CASE down[1].t = "event"
  <2>1. Deliver(down[1].seq)
    BY <1>3, <1>10 DEF Receive
  <2>2. ASSUME NEW i \in 1..Len(cont), Due(i, {"attach"}) /\ cont[i].ok PROVE "event" \in early'
    <3>1. i \in DOMAIN cont
      BY <1>1, <2>2 DEF TypeOK
    <3>2. EarlyLine(down[1])
      BY <1>10, <2>2, <3>1 DEF EarlyLine, Due
    <3>3. QED
      BY <1>5, <1>10, <3>2
  <2>3. QED
    BY <1>9, <1>10, <2>1, <2>2, EventKeeps
<1>11. CASE down[1].t = "control"
  <2>1. ControlChanged(down[1].holder, down[1].reason)
    BY <1>3, <1>11 DEF Receive
  <2>2. QED
    BY <1>9, <1>11, <2>1, ControlKeeps
<1>12. CASE down[1].t = "result"
  <2>1. Answered(down[1])
    BY <1>3, <1>12 DEF Receive
  <2>2. QED
    BY <1>9, <1>12, <2>1, ResultKeeps
<1>13. QED
  BY <1>4, <1>9, <1>10, <1>11, <1>12

----------------------------------------------------------------------------
(* The code after `await` *)

\* The first continuation is taken off.
Resumed == /\ cont # <<>> /\ cont' = Tail(cont)
           /\ UNCHANGED <<daemonVars, down, chan, todo, drops, early, orphaned>>

LEMMA ResumedFacts ==
  ASSUME TypeOK, Resumed
  PROVE  /\ cont' \in Seq(Settled) /\ Len(cont') = Len(cont) - 1 /\ Len(cont) \in Nat /\ Len(cont) >= 1
         /\ cont[1] \in Settled /\ Head(cont) = cont[1] /\ 1 \in 1..Len(cont)
         /\ \A i \in 1..Len(cont') : cont'[i] = cont[i + 1] /\ i + 1 \in 1..Len(cont) /\ i + 1 # 1
         /\ Shrunk
<1>1. cont \in Seq(Settled) /\ cont # <<>> /\ cont' = Tail(cont)
  BY DEF TypeOK, Resumed, Settled
<1>2. /\ cont' \in Seq(Settled) /\ Len(cont') = Len(cont) - 1 /\ Len(cont) \in Nat /\ Len(cont) >= 1
      /\ Head(cont) = cont[1] /\ Head(cont) \in Settled
      /\ \A i \in 1..Len(cont') : cont'[i] = cont[i + 1] /\ i + 1 \in 1..Len(cont)
  BY <1>1, RestFacts
<1>3. 1 \in 1..Len(cont) /\ \A i \in 1..Len(cont') : i + 1 # 1
  BY <1>2
<1>4. Shrunk
  BY <1>2 DEF Shrunk
<1>5. QED
  BY <1>2, <1>3, <1>4

\* A continuation that sets a mode at most.
LEMMA ModeContinues ==
  ASSUME FeedIInv, Resumed, UNCHANGED <<calls, pend, up, registry, handle, first, cursor, delivered>>,
         mode' \in [Handles -> Modes]
  PROVE  FeedIInv'
<1>1. TypeOK /\ OneLive /\ IdsApart /\ Attaches /\ Feeds /\ InLog /\ CallsBounded
  BY DEF FeedIInv
<1>2. /\ cont' \in Seq(Settled) /\ Len(cont) \in Nat
      /\ \A i \in 1..Len(cont') : cont'[i] = cont[i + 1] /\ i + 1 \in 1..Len(cont)
  BY <1>1, ResumedFacts
<1>3. UNCHANGED <<log, att, lease, down, chan, todo, drops, early, orphaned>>
  BY DEF Resumed, daemonVars
<1>4. Live' = Live
  BY LiveKept
<1>5. \A ops : \A i \in 1..Len(cont') : Due(i, ops)' => Due(i + 1, ops) /\ i + 1 \in 1..Len(cont) /\ cont'[i] = cont[i + 1]
  BY <1>2 DEF Due
<1>6. \A ops : \A g \in Handles : Pending(g, ops)' <=> Pending(g, ops)
  BY DEF Pending
<1>7. TypeOK'
  BY <1>1, <1>2, <1>3 DEF TypeOK, Settled
<1>8. OneLive'
  <2>1. ASSUME NEW ops, Sole(ops) PROVE Sole(ops)'
    <3>1. ASSUME NEW i \in 1..Len(cont'), NEW j \in 1..Len(cont'), Due(i, ops)', Due(j, ops)' PROVE i = j
      <4>1. i + 1 = j + 1
        BY <1>5, <2>1, <3>1 DEF Sole
      <4>2. QED
        BY <4>1
    <3>2. QED
      BY <1>5, <1>6, <2>1, <3>1 DEF Sole
  <2>2. Sole({"attach"})' /\ Sole(Loop)'
    BY <1>1, <2>1 DEF OneLive
  <2>3. QED
    BY <1>1, <1>3, <1>4, <1>5, <1>6, <2>2 DEF OneLive
<1>9. CallsBounded'
  <2>1. Reattaching' => Reattaching
    BY <1>5, <1>6 DEF Reattaching
  <2>2. QED
    BY <1>1, <1>3, <1>4, <2>1, OwedShrinks
<1>10. IdsApart'
  BY <1>1, <1>3 DEF IdsApart
<1>11. Attaches'
  <2>1. ASSUME NEW g \in Handles, Pending(g, {"attach"})' PROVE Asked(pend[g].id)' \/ Served(pend[g].id)'
    <3>1. PICK n : n = pend[g].id /\ n = pend'[g].id
      OBVIOUS
    <3>2. Asked(n) \/ Served(n)
      BY <1>1, <1>6, <2>1, <3>1 DEF Attaches
    <3>3. Asked(n)' \/ Served(n)'
      BY <1>3, <3>2 DEF Asked, Served
    <3>4. QED
      BY <3>1, <3>3
  <2>2. ASSUME NEW i \in 1..Len(cont'), Due(i, {"attach"})'
        PROVE  up' = <<>> /\ (cont'[i].ok /\ "event" \notin early' => Fed(down', 0, cont'[i].last, att', log'))
    BY <1>1, <1>3, <1>5, <2>2 DEF Attaches
  <2>3. QED
    BY <2>1, <2>2 DEF Attaches
<1>12. Feeds'
  BY <1>1, <1>3, <1>4 DEF Feeds, GapFree
<1>13. InLog'
  BY <1>1, <1>2, <1>3 DEF InLog
<1>14. QED
  BY <1>7, <1>8, <1>9, <1>10, <1>11, <1>12, <1>13 DEF FeedIInv

\* The first attach of a handle succeeds: the handle starts where its response
\* was made, and what has arrived since is what follows.
LEMMA AttachedKeeps ==
  ASSUME FeedIInv, Resumed, AttachContinues(cont[1]), cont[1].ok
  PROVE  FeedIInv'
<1> DEFINE k == cont[1]
<1>1. TypeOK /\ OneLive /\ IdsApart /\ Attaches /\ Feeds /\ InLog /\ CallsBounded
  BY DEF FeedIInv
<1>2. /\ cont' \in Seq(Settled) /\ Len(cont) \in Nat /\ 1 \in 1..Len(cont) /\ k \in Settled
      /\ \A i \in 1..Len(cont') : cont'[i] = cont[i + 1] /\ i + 1 \in 1..Len(cont) /\ i + 1 # 1
  BY <1>1, ResumedFacts
<1>3. UNCHANGED <<log, att, lease, down, chan, todo, drops, early, orphaned>>
  BY DEF Resumed, daemonVars
<1>4. PICK h \in Handles : h = k.h
  BY <1>2 DEF Settled
<1>5. PICK c \in -1..MaxSeq : c = k.last
  BY <1>2 DEF Settled
<1>6. /\ handle' = [handle EXCEPT ![h] = "live"] /\ mode' = [mode EXCEPT ![h] = k.call.mode]
      /\ first' = [first EXCEPT ![h] = c] /\ cursor' = [cursor EXCEPT ![h] = c] /\ registry' = h
      /\ UNCHANGED <<calls, pend, up, delivered>>
  BY <1>4, <1>5 DEF AttachContinues
<1>7. Due(1, {"attach"})
  BY DEF AttachContinues, Due
<1>8. /\ chan = "up" /\ Live = {} /\ handle[h] = "none" /\ todo = {}
      /\ \A g \in Handles : ~Pending(g, {"attach"})
      /\ \A i \in 1..Len(cont) : Due(i, {"attach"}) => i = 1
      /\ \A g \in Handles : ~Pending(g, Loop)
      /\ \A i \in 1..Len(cont) : ~Due(i, Loop)
  BY <1>1, <1>2, <1>4, <1>7 DEF OneLive, Sole
<1>9. up = <<>> /\ ("event" \notin early => Fed(down, 0, c, att, log))
  BY <1>1, <1>2, <1>5, <1>7 DEF Attaches
<1>10. /\ handle \in [Handles -> {"none", "live", "detached"}] /\ mode \in [Handles -> Modes] /\ k.call.mode \in Modes
       /\ first \in [Handles -> -1..MaxSeq] /\ cursor \in [Handles -> -1..MaxSeq]
  BY <1>1, <1>2 DEF TypeOK, Settled, Calls
<1> HIDE DEF k
<1>11. /\ handle'[h] = "live" /\ first'[h] = c /\ cursor'[h] = c
       /\ \A g \in Handles : g # h => handle'[g] = handle[g] /\ first'[g] = first[g] /\ cursor'[g] = cursor[g]
  BY <1>6, <1>10
<1>12. Live' = {h}
  BY <1>8, <1>11 DEF Live
<1>13. TypeOK'
  <2>1. /\ handle' \in [Handles -> {"none", "live", "detached"}] /\ mode' \in [Handles -> Modes]
        /\ first' \in [Handles -> -1..MaxSeq] /\ cursor' \in [Handles -> -1..MaxSeq]
        /\ registry' \in Handles \union {NoHandle}
    BY <1>6, <1>10
  <2>2. QED
    BY <1>1, <1>2, <1>3, <1>6, <2>1 DEF TypeOK, Settled
<1>14. /\ \A g \in Handles : ~Pending(g, {"attach"})' /\ ~Pending(g, Loop)'
       /\ \A i \in 1..Len(cont') : ~Due(i, {"attach"})' /\ ~Due(i, Loop)'
  BY <1>2, <1>6, <1>8 DEF Pending, Due
<1>15. OneLive'
  BY <1>3, <1>6, <1>8, <1>12, <1>14 DEF OneLive, Sole
<1>16. CallsBounded'
  <2>1. Owed' = 0
    <3>1. \A g \in Handles : ~Pending(g, {"reattach"})'
      BY <1>14 DEF Pending, Loop
    <3>2. \A i \in 1..Len(cont') : ~Due(i, {"reattach"})'
      BY <1>14 DEF Due, Loop
    <3>3. QED
      BY <1>3, <1>8, <3>1, <3>2 DEF Owed
  <2>2. PICK o \in 0..2 : o = Owed
    BY DEF Owed
  <2>3. calls + o <= MaxCalls + 2 * drops /\ calls \in Nat /\ drops \in Nat /\ MaxCalls \in Nat
    BY <1>1, <2>2, TypeKept, FeedAssumption DEF CallsBounded
  <2>4. calls + 0 <= MaxCalls + 2 * drops
    BY <2>3
  <2>5. QED
    BY <1>3, <1>6, <2>1, <2>4 DEF CallsBounded
<1>17. IdsApart'
  BY <1>1, <1>3, <1>6 DEF IdsApart
<1>18. Attaches'
  BY <1>14 DEF Attaches
<1>19. Feeds'
  <2>1. \A g \in Handles : handle'[g] = "none" => delivered'[g] = <<>>
    BY <1>1, <1>6, <1>11 DEF Feeds
  <2>2. GapFree(h)'
    <3>1. delivered'[h] = <<>>
      BY <1>1, <1>6, <1>8 DEF Feeds
    <3>2. c - c = 0 /\ 1..0 = {}
      BY FeedAssumption
    <3>3. [i \in 1..(c - c) |-> c + i] = <<>>
      BY <3>2
    <3>4. QED
      BY <1>11, <3>1, <3>3 DEF GapFree
  <2>3. "event" \notin early' => Fed(down', 0, cursor'[h], att', log')
    BY <1>3, <1>9, <1>11
  <2>4. Len(up') = 0
    BY <1>6, <1>9
  <2>5. QED
    BY <1>12, <2>1, <2>2, <2>3, <2>4 DEF Feeds
<1>20. InLog'
  <2>1. c < log /\ c <= c
    BY <1>1, <1>2, <1>5, FeedAssumption DEF InLog, k
  <2>2. \A g \in Handles : first'[g] <= cursor'[g] /\ cursor'[g] < log
    BY <1>1, <1>11, <2>1 DEF InLog
  <2>3. \A i \in 1..Len(cont') : cont'[i].last < log
    BY <1>1, <1>2 DEF InLog
  <2>4. QED
    BY <1>1, <1>3, <1>6, <2>2, <2>3 DEF InLog
<1>21. QED
  BY <1>13, <1>15, <1>16, <1>17, <1>18, <1>19, <1>20 DEF FeedIInv

\* A refused re-attach is tried again in read mode.
LEMMA RetriedKeeps ==
  ASSUME FeedIInv, Bases, Resumed, ReattachContinues(cont[1]), ~cont[1].ok
  PROVE  FeedIInv'
<1> DEFINE k == cont[1]
<1>1. TypeOK /\ OneLive /\ CallsBounded
  BY DEF FeedIInv
<1>2. /\ 1 \in 1..Len(cont) /\ k \in Settled /\ Shrunk
      /\ \A i \in 1..Len(cont') : cont'[i] = cont[i + 1] /\ i + 1 \in 1..Len(cont) /\ i + 1 # 1
  BY <1>1, ResumedFacts
<1>3. UNCHANGED <<daemonVars, down, chan, todo, drops, early, orphaned>>
  BY DEF Resumed
<1>4. PICK h \in Handles : h = k.h
  BY <1>2 DEF Settled
<1>5. PICK since : since = k.call.since
  OBVIOUS
<1>6. Call(h, "retry", "attach", "read", FALSE, since) /\ UNCHANGED handleVars
  BY <1>4, <1>5 DEF ReattachContinues
<1>7. since \in -1..cursor[h]
  BY <1>2, <1>4, <1>5 DEF Bases, Within, ReattachContinues
<1>8. Due(1, Loop) /\ Due(1, {"reattach"})
  BY DEF ReattachContinues, Due, Loop
<1>9. /\ chan = "opening" /\ Live \subseteq {h} /\ h \notin todo
      /\ \A g \in Handles : ~Pending(g, Loop)
      /\ \A i \in 1..Len(cont) : Due(i, Loop) => i = 1
  BY <1>1, <1>2, <1>4, <1>8 DEF OneLive, Sole
<1>10. \A i \in 1..Len(cont') : ~Due(i, Loop)'
  BY <1>2, <1>9 DEF Due
<1>11. Owed >= 1
  BY <1>2, <1>8 DEF Owed
<1>12. "retry" \in Loop /\ "read" \in Modes /\ chan' = "opening" /\ todo' \subseteq todo /\ h \notin todo'
  BY <1>3, <1>9 DEF Loop, Modes
<1>13. QED
  BY <1>2, <1>3, <1>9, <1>10, <1>11, <1>12, <1>6, <1>7, LoopCallKeeps

LEMMA ContinueKeeps ==
  ASSUME FeedIInv, Bases, Continue
  PROVE  FeedIInv'
<1>1. TypeOK /\ mode \in [Handles -> Modes]
  BY DEF FeedIInv, TypeOK
<1>2. Resumed
  BY DEF Continue, Resumed
<1>3. Head(cont) = cont[1] /\ cont[1] \in Settled
  BY <1>1, <1>2, ResumedFacts
<1>4. PICK h \in Handles : h = cont[1].h
  BY <1>3 DEF Settled
<1>5. \A m \in Modes : [mode EXCEPT ![h] = m] \in [Handles -> Modes] /\ mode[h] \in Modes
  BY <1>1
<1>6. "read" \in Modes /\ "write" \in Modes
  BY DEF Modes
<1>7. CASE AttachContinues(cont[1])
  <2>1. CASE cont[1].ok
    BY <1>2, <1>7, <2>1, AttachedKeeps
  <2>2. CASE ~cont[1].ok
    <3>1. UNCHANGED <<calls, pend, up, registry, handle, first, cursor, delivered>> /\ mode' = mode
      BY <1>7, <2>2 DEF AttachContinues
    <3>2. QED
      BY <1>1, <1>2, <3>1, ModeContinues
  <2>3. QED
    BY <2>1, <2>2
<1>8. CASE AcquireContinues(cont[1])
  <2>1. UNCHANGED <<calls, pend, up, registry, handle, first, cursor, delivered>>
    BY <1>8 DEF AcquireContinues
  <2>2. mode' = [mode EXCEPT ![h] = IF cont[1].ok THEN "write" ELSE mode[h]]
    BY <1>4, <1>8 DEF AcquireContinues
  <2>3. mode' \in [Handles -> Modes]
    <3>1. (IF cont[1].ok THEN "write" ELSE mode[h]) \in Modes
      BY <1>5, <1>6
    <3>2. QED
      BY <1>5, <2>2, <3>1
  <2>4. QED
    BY <1>2, <2>1, <2>3, ModeContinues
<1>9. CASE ReleaseContinues(cont[1])
  <2>1. UNCHANGED <<calls, pend, up, registry, handle, first, cursor, delivered>> /\ mode' = [mode EXCEPT ![h] = "read"]
    BY <1>4, <1>9 DEF ReleaseContinues
  <2>2. QED
    BY <1>2, <1>5, <1>6, <2>1, ModeContinues
<1>10. CASE ReattachContinues(cont[1])
  <2>1. CASE cont[1].ok
    <3>1. UNCHANGED <<calls, pend, up, registry, handle, first, cursor, delivered>> /\ mode' = mode
      BY <1>10, <2>1 DEF ReattachContinues, handleVars
    <3>2. QED
      BY <1>1, <1>2, <3>1, ModeContinues
  <2>2. CASE ~cont[1].ok
    BY <1>2, <1>10, <2>2, RetriedKeeps
  <2>3. QED
    BY <2>1, <2>2
<1>11. CASE RetryContinues(cont[1])
  <2>1. UNCHANGED <<calls, pend, up, registry, handle, first, cursor, delivered>> /\ mode' = [mode EXCEPT ![h] = "read"]
    BY <1>4, <1>11 DEF RetryContinues
  <2>2. QED
    BY <1>2, <1>5, <1>6, <2>1, ModeContinues
<1>12. QED
  BY <1>3, <1>7, <1>8, <1>9, <1>10, <1>11 DEF Continue

----------------------------------------------------------------------------
(* The feed *)

LEMMA FeedInit == Init => FeedIInv /\ Bases
<1> SUFFICES ASSUME Init PROVE FeedIInv /\ Bases
  OBVIOUS
<1> USE FeedAssumption
<1>1. /\ Len(up) = 0 /\ Len(down) = 0 /\ Len(cont) = 0 /\ Live = {}
      /\ \A h \in Handles : pend[h] = NoCall /\ handle[h] = "none" /\ delivered[h] = <<>> /\ first[h] = -1 /\ cursor[h] = -1
  <2>1. Len(up) = 0 /\ Len(down) = 0 /\ Len(cont) = 0
    BY DEF Init
  <2>2. \A h \in Handles : pend[h] = NoCall /\ handle[h] = "none" /\ delivered[h] = <<>>
    BY DEF Init
  <2>3. \A h \in Handles : first[h] = -1 /\ cursor[h] = -1
    BY DEF Init
  <2>4. Live = {}
    BY <2>2 DEF Live
  <2>5. QED
    BY <2>1, <2>2, <2>3, <2>4
<1>2. \A h \in Handles : ~Pending(h, {"attach"}) /\ ~Pending(h, Loop) /\ ~Pending(h, {"reattach"})
  <2>1. NoCall.op = "none"
    BY DEF NoCall
  <2>2. \A h \in Handles : pend[h] = NoCall
    BY <1>1
  <2>3. \A h \in Handles : pend[h].op = "none"
    BY <2>1, <2>2, Zenon
  <2>4. QED
    BY <2>3 DEF Pending, Loop
<1>3. TypeOK
  <2>1. /\ up \in Seq(Sent) /\ down \in Seq(Lines)
        /\ cont \in Seq([h : Handles, call : Calls, ok : BOOLEAN, last : -1..MaxSeq])
    BY DEF Init
  <2>2. mode \in [Handles -> Modes] /\ delivered \in [Handles -> Seq(0..MaxSeq)]
    BY DEF Init, Modes
  <2>3. pend \in [Handles -> Calls \union {NoCall}] /\ handle \in [Handles -> {"none", "live", "detached"}]
    BY DEF Init
  <2>4. first \in [Handles -> -1..MaxSeq] /\ cursor \in [Handles -> -1..MaxSeq]
    BY DEF Init
  <2>5. calls \in 0..(MaxCalls + 2 * MaxDrops) /\ drops \in 0..MaxDrops
    BY DEF Init
  <2>6. QED
    BY <2>1, <2>2, <2>3, <2>4, <2>5 DEF Init, TypeOK
<1>4. OneLive
  BY <1>1, <1>2 DEF Init, OneLive, Sole
<1>5. IdsApart
  BY <1>1 DEF IdsApart
<1>6. Attaches
  BY <1>1, <1>2 DEF Attaches
<1>7. Feeds
  BY <1>1 DEF Feeds
<1>8. InLog
  BY <1>1 DEF InLog, Init
<1>9. CallsBounded
  <2>1. Owed = 0
    BY <1>1, <1>2 DEF Owed, Init
  <2>2. QED
    BY <2>1 DEF CallsBounded, Init
<1>10. Bases
  <2>1. \A h \in Handles : Within(pend[h], cursor[h])
    BY <1>2 DEF Within, Pending
  <2>2. QED
    BY <1>1, <2>1 DEF Bases
<1>11. QED
  BY <1>3, <1>4, <1>5, <1>6, <1>7, <1>8, <1>9, <1>10 DEF FeedIInv

LEMMA FeedStutters ==
  ASSUME FeedIInv, UNCHANGED vars
  PROVE  FeedIInv'
<1> USE DEF vars, daemonVars, wireVars, callVars, handleVars
<1>1. TypeOK /\ OneLive /\ IdsApart /\ Attaches /\ Feeds /\ InLog /\ CallsBounded
  BY DEF FeedIInv
<1>2. TypeOK'
  BY <1>1 DEF TypeOK
<1>3. OneLive' /\ CallsBounded' /\ Live' = Live
  BY <1>1, OneLiveKept, CallsBoundedKept, LiveKept
<1>4. IdsApart' /\ InLog'
  BY <1>1 DEF IdsApart, InLog
<1>5. Attaches'
  BY <1>1 DEF Attaches, Pending, Due, Asked, Served
<1>6. Feeds'
  BY <1>1, <1>3 DEF Feeds, GapFree
<1>7. QED
  BY <1>2, <1>3, <1>4, <1>5, <1>6 DEF FeedIInv

\* A step that makes no re-attach and moves no cursor back.
LEMMA BasesKept ==
  ASSUME TypeOK, TypeOK', Bases,
         \A h \in Handles : cursor[h] <= cursor'[h],
         \A h \in Handles : pend'[h] = pend[h] \/ pend'[h].op # "reattach",
         \A i \in 1..Len(cont') : \/ \E j \in 1..Len(cont) : cont'[i] = cont[j]
                                  \/ \E h \in Handles : cont'[i].h = h /\ cont'[i].call = pend[h]
  PROVE  Bases'
<1>1. \A h \in Handles : cursor[h] \in Int /\ cursor'[h] \in Int
  <2>1. cursor \in [Handles -> -1..MaxSeq] /\ cursor' \in [Handles -> -1..MaxSeq] /\ MaxSeq \in Nat
    BY FeedAssumption DEF TypeOK
  <2>2. QED
    BY <2>1
<1>2. ASSUME NEW h \in Handles, NEW c, Within(c, cursor[h]) PROVE Within(c, cursor'[h])
  <2>1. cursor[h] \in Int /\ cursor'[h] \in Int /\ cursor[h] <= cursor'[h]
    BY <1>1
  <2>2. QED
    BY <1>2, <2>1 DEF Within
<1>3. ASSUME NEW h \in Handles PROVE Within(pend'[h], cursor'[h])
  <2>1. CASE pend'[h] = pend[h]
    <3>1. Within(pend[h], cursor[h])
      BY DEF Bases
    <3>2. QED
      BY <1>2, <2>1, <3>1
  <2>2. CASE pend'[h].op # "reattach"
    BY <2>2 DEF Within
  <2>3. QED
    BY <2>1, <2>2
<1>4. ASSUME NEW i \in 1..Len(cont') PROVE Within(cont'[i].call, cursor'[cont'[i].h])
  <2>1. ASSUME NEW j \in 1..Len(cont), cont'[i] = cont[j] PROVE Within(cont'[i].call, cursor'[cont'[i].h])
    <3>1. cont[j].h \in Handles
      BY TypeKept
    <3>2. Within(cont[j].call, cursor[cont[j].h])
      BY DEF Bases
    <3>3. Within(cont[j].call, cursor'[cont[j].h])
      BY <1>2, <3>1, <3>2
    <3>4. QED
      BY <2>1, <3>3
  <2>2. ASSUME NEW h \in Handles, cont'[i].h = h, cont'[i].call = pend[h] PROVE Within(cont'[i].call, cursor'[cont'[i].h])
    <3>1. Within(pend[h], cursor[h])
      BY DEF Bases
    <3>2. Within(pend[h], cursor'[h])
      BY <1>2, <3>1
    <3>3. QED
      BY <2>2, <3>2
  <2>3. QED
    BY <2>1, <2>2
<1>5. QED
  BY <1>3, <1>4 DEF Bases

\* The cursors as they were.
LEMMA CursorsKept ==
  ASSUME TypeOK, UNCHANGED cursor
  PROVE  \A h \in Handles : cursor[h] <= cursor'[h]
BY TypeKept

LEMMA ReattachNextKeepsBases ==
  ASSUME FeedIInv, FeedIInv', Bases, NEW h \in Handles, ReattachNext(h)
  PROVE  Bases'
<1>1. TypeOK /\ TypeOK' /\ pend \in [Handles -> Calls \union {NoCall}]
  BY DEF FeedIInv, TypeOK
<1>2. UNCHANGED <<cont, cursor>>
  BY DEF ReattachNext, handleVars
<1>3. CASE h \in Live
  <2>1. pend' = [pend EXCEPT ![h] = [id |-> calls + 1, op |-> "reattach", mode |-> mode[h], since |-> cursor[h]]]
    BY <1>3 DEF ReattachNext, Call
  <2>2. pend'[h].since = cursor[h] /\ \A g \in Handles : g # h => pend'[g] = pend[g]
    BY <1>1, <2>1
  <2>3. cursor[h] \in -1..cursor[h]
    BY <1>1, TypeKept
  <2>4. Within(pend'[h], cursor'[h])
    BY <1>2, <2>2, <2>3 DEF Within
  <2>5. \A g \in Handles : Within(pend'[g], cursor'[g])
    BY <1>2, <2>2, <2>4 DEF Bases
  <2>6. QED
    BY <1>2, <2>5 DEF Bases
<1>4. CASE h \notin Live
  <2>1. UNCHANGED pend
    BY <1>4 DEF ReattachNext
  <2>2. QED
    BY <1>2, <2>1 DEF Bases
<1>5. QED
  BY <1>3, <1>4

LEMMA ReceiveKeepsBases ==
  ASSUME FeedIInv, FeedIInv', Bases, Receive
  PROVE  Bases'
<1>1. TypeOK /\ TypeOK'
  BY DEF FeedIInv
<1>2. Taken /\ Head(down) = down[1] /\ down[1] \in Lines
  <2>1. /\ down # <<>> /\ down' = Tail(down) /\ early \subseteq early'
        /\ UNCHANGED <<daemonVars, up, chan, todo, drops, orphaned>>
    BY DEF Receive
  <2>2. UNCHANGED calls
    <3>1. down \in Seq(Lines)
      BY <1>1 DEF TypeOK
    <3>2. Head(down) \in Lines
      BY <2>1, <3>1
    <3>3. Head(down).t \in {"event", "control", "result"}
      BY <3>2, LineFacts
    <3>4. QED
      BY <3>3 DEF Receive, Deliver, ControlChanged, Answered, callVars
  <2>3. early' \subseteq {"event", "control"}
    BY <1>1 DEF TypeOK
  <2>4. Taken
    BY <2>1, <2>2, <2>3 DEF Taken
  <2>5. QED
    BY <1>1, <2>4, TakenFacts
<1>3. CASE down[1].t = "event"
  <2>1. Deliver(down[1].seq)
    BY <1>2, <1>3 DEF Receive
  <2>2. PICK n : n = down[1].seq
    OBVIOUS
  <2>3. n \in Int
    BY <1>2, <1>3, <2>2, LineFacts, TypeKept
  <2>4. /\ cursor' = [h \in Handles |-> IF h \in {g \in Live : n > cursor[g]} THEN n ELSE cursor[h]]
        /\ UNCHANGED <<pend, cont>>
    BY <2>1, <2>2 DEF Deliver, callVars
  <2>5. ASSUME NEW h \in Handles PROVE cursor[h] <= cursor'[h]
    <3>1. cursor'[h] = IF h \in {g \in Live : n > cursor[g]} THEN n ELSE cursor[h]
      BY <2>4
    <3>2. cursor[h] \in Int
      BY <1>1, TypeKept
    <3>3. QED
      BY <2>3, <3>1, <3>2
  <2>6. QED
    BY <1>1, <2>4, <2>5, BasesKept
<1>4. CASE down[1].t = "control"
  <2>1. UNCHANGED <<pend, cont, cursor>>
    BY <1>2, <1>4 DEF Receive, ControlChanged, callVars
  <2>2. QED
    BY <2>1 DEF Bases
<1>5. CASE down[1].t = "result"
  <2>1. Answered(down[1])
    BY <1>2, <1>5 DEF Receive
  <2>2. UNCHANGED cursor /\ \A g \in Handles : pend'[g] = pend[g] \/ pend'[g] = NoCall
    BY <1>2, <1>5, <2>1, AnsweredFacts DEF handleVars
  <2>3. NoCall.op # "reattach"
    BY DEF NoCall
  <2>4. \A g \in Handles : pend'[g] = pend[g] \/ pend'[g].op # "reattach"
    BY <2>2, <2>3
  <2>5. \A h \in Handles : cursor[h] <= cursor'[h]
    BY <1>1, <2>2, CursorsKept
  <2>6. CASE cont' = cont
    BY <1>1, <2>4, <2>5, <2>6, BasesKept
  <2>7. CASE cont' # cont
    <3>1. PICK h \in Handles, k \in Settled :
            cont' = Append(cont, k) /\ k = [h |-> h, call |-> pend[h], ok |-> down[1].ok, last |-> down[1].last]
      <4>1. PICK h \in Handles :
              /\ cont' = Append(cont, [h |-> h, call |-> pend[h], ok |-> down[1].ok, last |-> down[1].last])
              /\ [h |-> h, call |-> pend[h], ok |-> down[1].ok, last |-> down[1].last] \in Settled
        BY <1>2, <1>5, <2>1, <2>7, AnsweredFacts
      <4>2. QED
        BY <4>1
    <3>2. k.h = h /\ k.call = pend[h]
      BY <3>1
    <3>3. cont \in Seq(Settled)
      BY <1>1 DEF TypeOK, Settled
    <3>4. ASSUME NEW i \in 1..Len(cont')
          PROVE  \/ \E j \in 1..Len(cont) : cont'[i] = cont[j]
                 \/ \E g \in Handles : cont'[i].h = g /\ cont'[i].call = pend[g]
      <4>1. /\ cont'[Len(cont) + 1] = k
            /\ \A j \in 1..Len(cont) : cont'[j] = cont[j]
            /\ i \in 1..Len(cont) \/ i = Len(cont) + 1
        BY <3>1, <3>3, SnocFacts
      <4>2. CASE i \in 1..Len(cont)
        BY <4>1, <4>2
      <4>3. CASE i = Len(cont) + 1
        BY <3>2, <4>1, <4>3
      <4>4. QED
        BY <4>1, <4>2, <4>3
    <3>5. QED
      BY <1>1, <2>4, <2>5, <3>4, BasesKept
  <2>8. QED
    BY <2>6, <2>7
<1>6. QED
  BY <1>2, <1>3, <1>4, <1>5, LineFacts

LEMMA ContinueKeepsBases ==
  ASSUME FeedIInv, FeedIInv', Bases, Continue
  PROVE  Bases'
<1>1. TypeOK /\ TypeOK' /\ OneLive /\ pend \in [Handles -> Calls \union {NoCall}]
  BY DEF FeedIInv, TypeOK
<1>2. Resumed
  BY DEF Continue, Resumed
<1>3. /\ Head(cont) = cont[1] /\ 1 \in 1..Len(cont) /\ cont[1] \in Settled
      /\ \A i \in 1..Len(cont') : cont'[i] = cont[i + 1] /\ i + 1 \in 1..Len(cont)
  BY <1>1, <1>2, ResumedFacts
<1>4. CASE AttachContinues(cont[1])
  <2>1. Due(1, {"attach"}) /\ UNCHANGED pend
    BY <1>4 DEF AttachContinues, Due
  <2>2. chan = "up"
    BY <1>1, <1>3, <2>1 DEF OneLive
  <2>3. \A h \in Handles : ~Pending(h, Loop)
    BY <1>1, <2>2 DEF OneLive
  <2>4. \A i \in 1..Len(cont) : ~Due(i, Loop)
    BY <1>1, <2>2 DEF OneLive
  <2>5. \A h \in Handles : Within(pend'[h], cursor'[h])
    BY <2>1, <2>3 DEF Within, Pending, Loop
  <2>6. \A i \in 1..Len(cont') : Within(cont'[i].call, cursor'[cont'[i].h])
    BY <1>3, <2>4 DEF Within, Due, Loop
  <2>7. QED
    BY <2>5, <2>6 DEF Bases
<1>5. CASE \/ AcquireContinues(cont[1]) \/ ReleaseContinues(cont[1]) \/ RetryContinues(cont[1])
           \/ ReattachContinues(cont[1])
  <2>1. UNCHANGED cursor
    BY <1>5 DEF AcquireContinues, ReleaseContinues, RetryContinues, ReattachContinues, handleVars
  <2>2. \A h \in Handles : cursor[h] <= cursor'[h]
    BY <1>1, <2>1, CursorsKept
  <2>3. \A h \in Handles : pend'[h] = pend[h] \/ pend'[h].op # "reattach"
    <3>1. CASE UNCHANGED pend
      BY <3>1
    <3>2. CASE Call(cont[1].h, "retry", "attach", "read", FALSE, cont[1].call.since)
      <4>1. PICK c : c.op = "retry" /\ pend' = [pend EXCEPT ![cont[1].h] = c]
        <5> DEFINE c == [id |-> calls + 1, op |-> "retry", mode |-> "read", since |-> cont[1].call.since]
        <5>1. c.op = "retry" /\ pend' = [pend EXCEPT ![cont[1].h] = c]
          BY <3>2 DEF Call
        <5>2. QED
          BY <5>1
      <4>2. \A h \in Handles : pend'[h] = pend[h] \/ pend'[h] = c
        BY <1>1, <4>1
      <4>3. QED
        BY <4>1, <4>2
    <3>3. QED
      BY <1>5, <3>1, <3>2 DEF AcquireContinues, ReleaseContinues, RetryContinues, ReattachContinues
  <2>4. \A i \in 1..Len(cont') : \E j \in 1..Len(cont) : cont'[i] = cont[j]
    BY <1>3
  <2>5. QED
    BY <1>1, <2>2, <2>3, <2>4, BasesKept
<1>6. QED
  BY <1>3, <1>4, <1>5 DEF Continue

LEMMA UserKeepsBases ==
  ASSUME FeedIInv, FeedIInv', Bases, NEW h \in Handles, UserStep(h)
  PROVE  Bases'
<1>1. TypeOK /\ TypeOK' /\ pend \in [Handles -> Calls \union {NoCall}]
  BY DEF FeedIInv, TypeOK
<1>2. UNCHANGED <<cursor, cont>>
  BY DEF UserStep, AttachCall, AcquireWrite, ReleaseControl, Detach, CallTimesOut, handleVars, callVars
<1>3. PICK c : (c = pend[h] \/ c.op # "reattach") /\ pend' = [pend EXCEPT ![h] = c]
  <2>1. ASSUME NEW op \in {"attach", "acquire", "release"}, NEW m, NEW md, NEW force, NEW since,
               Call(h, op, m, md, force, since)
        PROVE  \E c : (c = pend[h] \/ c.op # "reattach") /\ pend' = [pend EXCEPT ![h] = c]
    <3> DEFINE c == [id |-> calls + 1, op |-> op, mode |-> md, since |-> since]
    <3>1. c.op # "reattach" /\ pend' = [pend EXCEPT ![h] = c]
      BY <2>1 DEF Call
    <3>2. QED
      BY <3>1
  <2>2. CASE \E md \in {"read", "write"}, force \in BOOLEAN : AttachCall(h, md, force)
    BY <2>1, <2>2 DEF AttachCall
  <2>3. CASE \E force \in BOOLEAN : AcquireWrite(h, force)
    BY <2>1, <2>3 DEF AcquireWrite
  <2>4. CASE ReleaseControl(h)
    BY <2>1, <2>4 DEF ReleaseControl
  <2>5. CASE Detach(h)
    <3>1. pend' = [pend EXCEPT ![h] = pend[h]]
      BY <1>1, <2>5 DEF Detach, callVars
    <3>2. QED
      BY <3>1
  <2>6. CASE CallTimesOut(h)
    <3>1. NoCall.op # "reattach" /\ pend' = [pend EXCEPT ![h] = NoCall]
      BY <2>6 DEF CallTimesOut, NoCall
    <3>2. QED
      BY <3>1
  <2>7. QED
    BY <2>2, <2>3, <2>4, <2>5, <2>6 DEF UserStep
<1>4. \A g \in Handles : pend'[g] = pend[g] \/ pend'[g].op # "reattach"
  BY <1>1, <1>3
<1>5. \A g \in Handles : cursor[g] <= cursor'[g]
  BY <1>1, <1>2, CursorsKept
<1>6. \A i \in 1..Len(cont') : \E j \in 1..Len(cont) : cont'[i] = cont[j]
  BY <1>2
<1>7. QED
  BY <1>1, <1>4, <1>5, <1>6, BasesKept

LEMMA BasesStep ==
  ASSUME FeedIInv, FeedIInv', Bases, [Next]_vars
  PROVE  Bases'
<1>1. CASE \/ DaemonEvent \/ RivalTakes \/ LeaseFreed \/ Serve \/ Reconnected \/ ReattachOver
           \/ UNCHANGED vars
  <2>1. UNCHANGED <<pend, cont, cursor>>
    BY <1>1 DEF DaemonEvent, RivalTakes, LeaseFreed, Serve, Reconnected, ReattachOver, vars, callVars, handleVars
  <2>2. QED
    BY <2>1 DEF Bases
<1>2. CASE StreamLost
  <2>1. pend' = [h \in Handles |-> NoCall] /\ UNCHANGED <<cont, cursor>>
    BY <1>2 DEF StreamLost
  <2>2. \A h \in Handles : Within(pend'[h], cursor'[h])
    BY <2>1 DEF Within, NoCall
  <2>3. QED
    BY <2>1, <2>2 DEF Bases
<1>3. ASSUME NEW h \in Handles, UserStep(h) PROVE Bases'
  BY <1>3, UserKeepsBases
<1>4. CASE Receive
  BY <1>4, ReceiveKeepsBases
<1>5. CASE Continue
  BY <1>5, ContinueKeepsBases
<1>6. ASSUME NEW h \in Handles, ReattachNext(h) PROVE Bases'
  BY <1>6, ReattachNextKeepsBases
<1>7. QED
  BY <1>1, <1>2, <1>3, <1>4, <1>5, <1>6 DEF Next

LEMMA FeedStep == FeedIInv /\ Bases /\ [Next]_vars => (FeedIInv /\ Bases)'
<1> SUFFICES ASSUME FeedIInv, Bases, [Next]_vars PROVE FeedIInv'
  BY BasesStep
<1>1. CASE DaemonEvent
  BY <1>1, DaemonEventKeeps
<1>2. CASE RivalTakes
  BY <1>2, RivalTakesKeeps
<1>3. CASE LeaseFreed
  BY <1>3, LeaseFreedKeeps
<1>4. CASE Serve
  BY <1>4, ServeKeeps
<1>5. ASSUME NEW h \in Handles, UserStep(h) PROVE FeedIInv'
  <2>1. ASSUME NEW md \in {"read", "write"}, NEW force \in BOOLEAN, AttachCall(h, md, force) PROVE FeedIInv'
    BY <2>1, AttachCallKeeps DEF Modes
  <2>2. ASSUME NEW force \in BOOLEAN, AcquireWrite(h, force) PROVE FeedIInv'
    BY <2>2, AcquireWriteKeeps
  <2>3. CASE ReleaseControl(h)
    BY <2>3, ReleaseControlKeeps
  <2>4. CASE Detach(h)
    BY <2>4, DetachKeeps
  <2>5. CASE CallTimesOut(h)
    BY <2>5, CallTimesOutKeeps
  <2>6. QED
    BY <1>5, <2>1, <2>2, <2>3, <2>4, <2>5 DEF UserStep
<1>6. CASE Receive
  BY <1>6, ReceiveKeeps
<1>7. CASE Continue
  BY <1>7, ContinueKeeps
<1>8. CASE StreamLost
  BY <1>8, StreamLostKeeps
<1>9. CASE Reconnected
  BY <1>9, ReconnectedKeeps
<1>10. ASSUME NEW h \in Handles, ReattachNext(h) PROVE FeedIInv'
  BY <1>10, ReattachNextKeeps
<1>11. CASE ReattachOver
  BY <1>11, ReattachOverKeeps
<1>12. CASE UNCHANGED vars
  BY <1>12, FeedStutters
<1>13. QED
  BY <1>1, <1>2, <1>3, <1>4, <1>5, <1>6, <1>7, <1>8, <1>9, <1>10, <1>11, <1>12 DEF Next

\* The inductive invariant of the feed.
THEOREM FeedInvariant == Spec => [](FeedIInv /\ Bases)
BY FeedInit, FeedStep, PTL DEF Spec

\* Every live handle has been handed each event after its attach once and in log
\* order, and all of them when nothing is on its way, across reconnects, retries,
\* escalations and time-outs, unless an event shared the chunk of the response to
\* the first attach (handle.ts handleEvent, client.ts attach and reattachAll).
THEOREM FeedSafe == Spec => []FeedInv
<1>1. FeedIInv => FeedInv
  <2> SUFFICES ASSUME FeedIInv PROVE FeedInv
    OBVIOUS
  <2>1. TypeOK /\ Feeds /\ InLog
    BY DEF FeedIInv
  <2>2. NoGap
    BY <2>1 DEF NoGap, Feeds
  <2>3. ASSUME Quiet, att, "event" \notin early, NEW h \in Live PROVE cursor[h] = log - 1
    <3>1. h \in Handles /\ cursor[h] \in Int /\ log \in Nat /\ cursor[h] < log
      BY <2>1, TypeKept DEF Live, InLog
    <3>2. Len(down) = 0 /\ Fed(down, 0, cursor[h], att, log)
      BY <2>1, <2>3 DEF Quiet, Feeds
    <3>3. log - 1 <= cursor[h]
      BY <2>3, <3>2 DEF Fed, Complete
    <3>4. QED
      BY <3>1, <3>3
  <2>4. CaughtUp
    BY <2>3 DEF CaughtUp
  <2>5. QED
    BY <2>1, <2>2, <2>4 DEF FeedInv
<1>2. QED
  BY <1>1, FeedInvariant, PTL

----------------------------------------------------------------------------
(* Write control: the daemon *)

\* A loss of the lease that is told keeps what was held.
LEMMA HeldGrows ==
  ASSUME NEW dn \in Seq(Lines), NEW L \in Seq(Lines), NEW j \in 0..Len(dn), NEW l, NEW l2, Held(dn, j, l),
         l = "me" /\ l2 # "me" => \E i \in 1..Len(L) : L[i].t = "control" /\ L[i].holder # "me"
  PROVE  Held(dn \o L, j, l2)
<1> DEFINE w == dn \o L
<1>1. /\ Len(w) = Len(dn) + Len(L) /\ Len(dn) \in Nat /\ Len(L) \in Nat
      /\ \A i \in 1..Len(dn) : w[i] = dn[i] /\ i \in 1..Len(w)
      /\ \A i \in 1..Len(L) : w[Len(dn) + i] = L[i] /\ Len(dn) + i \in 1..Len(w)
  BY CatFacts
<1> HIDE DEF w
<1>2. CASE \E i \in (j + 1)..Len(dn) : dn[i].t = "control" /\ dn[i].holder # "me"
  <2>1. PICK i \in (j + 1)..Len(dn) : dn[i].t = "control" /\ dn[i].holder # "me"
    BY <1>2
  <2>2. i \in (j + 1)..Len(w) /\ w[i] = dn[i]
    BY <1>1
  <2>3. Held(w, j, l2)
    BY <2>1, <2>2 DEF Held
  <2>4. QED
    BY <2>3 DEF w
<1>3. CASE l = "me" /\ l2 # "me"
  <2>1. PICK i \in 1..Len(L) : L[i].t = "control" /\ L[i].holder # "me"
    BY <1>3
  <2>2. Len(dn) + i \in (j + 1)..Len(w) /\ w[Len(dn) + i] = L[i]
    BY <1>1
  <2>3. Held(w, j, l2)
    BY <2>1, <2>2 DEF Held
  <2>4. QED
    BY <2>3 DEF w
<1>4. CASE l2 = "me"
  BY <1>4 DEF Held
<1>5. QED
  BY <1>2, <1>3, <1>4 DEF Held

\* Lines that announce every change of the lease.
Announced(L) ==
  /\ L \in Seq(Lines) /\ down' = down \o L
  /\ lease = "me" /\ att /\ lease' # "me" => \E i \in 1..Len(L) : L[i].t = "control" /\ L[i].holder # "me"
  /\ lease' = "me" => att'
  /\ \A i \in 1..Len(L) : L[i].t = "control" /\ L[i].holder = "me" => lease' = "me"
  /\ \A h \in Handles, i \in 1..Len(L) :
       /\ pend[h] # NoCall /\ pend[h].mode = "write"
       /\ L[i].t = "result" /\ L[i].id = pend[h].id /\ L[i].ok
       => lease' = "me"
  /\ \A i \in 1..Len(up') : \E k \in 1..Len(up) : up'[i] = up[k]

LEMMA AnnouncedKeeps ==
  ASSUME ModeIInv, NEW L, Announced(L), UNCHANGED <<chan, todo, callVars, handleVars, drops, early>>
  PROVE  Granted' /\ ModesAgree'
<1> USE DEF callVars, handleVars
<1>1. TypeOK /\ LeaseTold /\ LinesHeld /\ ResultsHeld /\ ContsHeld /\ ModesHeld /\ ModesAgree
  BY DEF ModeIInv, FeedIInv, Granted
<1>2. /\ L \in Seq(Lines) /\ down' = down \o L /\ down \in Seq(Lines)
      /\ lease = "me" /\ lease' # "me" => \E i \in 1..Len(L) : L[i].t = "control" /\ L[i].holder # "me"
      /\ LeaseTold'
  BY <1>1 DEF Announced, LeaseTold, TypeOK
<1>3. /\ down' \in Seq(Lines) /\ Len(down') = Len(down) + Len(L) /\ Len(down) \in Nat /\ Len(L) \in Nat
      /\ \A i \in 1..Len(down) : down'[i] = down[i] /\ i \in 1..Len(down')
      /\ \A i \in 1..Len(L) : down'[Len(down) + i] = L[i] /\ Len(down) + i \in 1..Len(down')
      /\ \A i \in 1..Len(down') : i \in 1..Len(down) \/ \E k \in 1..Len(L) : i = Len(down) + k
  <2>1. L \in Seq(Lines) /\ down' = down \o L /\ down \in Seq(Lines)
    BY <1>2
  <2>2. Joined(down', down, L)
    BY <2>1, JoinedLines
  <2>3. QED
    BY <2>2 DEF Joined
<1>4. ASSUME NEW j \in 0..Len(down), Held(down, j, lease) PROVE Held(down', j, lease')
  <2>1. PICK l2 : l2 = lease'
    OBVIOUS
  <2>2. lease = "me" /\ l2 # "me" => \E i \in 1..Len(L) : L[i].t = "control" /\ L[i].holder # "me"
    BY <1>2, <2>1
  <2>3. Held(down \o L, j, l2)
    BY <1>2, <1>4, <2>2, HeldGrows
  <2>4. QED
    BY <1>2, <2>1, <2>3
<1>5. Live' = Live
  BY LiveKept
<1>6. \A j \in 1..Len(down) : j \in 0..Len(down)
  BY <1>3
<1>7. LinesHeld'
  <2> SUFFICES ASSUME NEW j \in 1..Len(down'), down'[j].t = "control", down'[j].holder = "me" PROVE Held(down', j, lease')
    BY DEF LinesHeld
  <2>1. CASE j \in 1..Len(down)
    BY <1>1, <1>3, <1>4, <1>6, <2>1 DEF LinesHeld
  <2>2. CASE j \notin 1..Len(down)
    <3>1. PICK k \in 1..Len(L) : j = Len(down) + k
      BY <1>3, <2>2
    <3>2. down'[j] = L[k]
      BY <1>3, <3>1
    <3>3. QED
      BY <3>2 DEF Announced, Held
  <2>3. QED
    BY <2>1, <2>2
<1>8. ResultsHeld'
  <2> SUFFICES ASSUME NEW h \in Handles, NEW j \in 1..Len(down'),
                      pend[h] # NoCall, pend[h].mode = "write",
                      down'[j].t = "result", down'[j].id = pend[h].id, down'[j].ok
               PROVE  Held(down', j, lease')
    BY DEF ResultsHeld
  <2>1. CASE j \in 1..Len(down)
    <3>1. Held(down, j, lease)
      BY <1>1, <1>3, <2>1 DEF ResultsHeld
    <3>2. QED
      BY <1>4, <1>6, <2>1, <3>1
  <2>2. CASE j \notin 1..Len(down)
    <3>1. PICK k \in 1..Len(L) : j = Len(down) + k
      BY <1>3, <2>2
    <3>2. down'[j] = L[k]
      BY <1>3, <3>1
    <3>3. QED
      BY <3>2 DEF Announced, Held
  <2>3. QED
    BY <2>1, <2>2
<1>9. Held(down, 0, lease) => Held(down', 0, lease')
  <2>1. 0 \in 0..Len(down)
    BY <1>3
  <2>2. QED
    BY <1>4, <2>1
<1>10. ContsHeld'
  BY <1>1, <1>9 DEF ContsHeld, Due
<1>11. \A h : Unsettled(h)' <=> Unsettled(h)
  BY DEF Unsettled
<1>12. ModesHeld'
  BY <1>1, <1>5, <1>9, <1>11 DEF ModesHeld
<1>13. ModesAgree'
  <2>1. \A h \in Handles, i \in 1..Len(up') : pend[h] # NoCall /\ up'[i].id = pend[h].id =>
          up'[i].mode = pend[h].mode /\ (pend[h].mode = "write" => up'[i].method = "attach")
    BY <1>1 DEF Announced, ModesAgree
  <2>2. QED
    BY <1>1, <2>1 DEF ModesAgree, Due
<1>14. QED
  BY <1>2, <1>7, <1>8, <1>10, <1>12, <1>13 DEF Granted

\* One line that is no response and does not grant the lease.
LEMMA PushAnnounces ==
  ASSUME TypeOK, LeaseTold, NEW x \in Lines, x.t # "result", x.t = "control" => x.holder # "me",
         down' = down \o IfAttached(att, <<x>>), att' = att, up' = up,
         lease' = lease \/ (lease' # "me" /\ x.t = "control")
  PROVE  Announced(IfAttached(att, <<x>>))
<1>1. att \in BOOLEAN
  BY DEF TypeOK
<1>2. CASE att
  <2> DEFINE L == <<x>>
  <2>1. IfAttached(att, <<x>>) = L
    BY <1>2 DEF IfAttached
  <2>2. L \in Seq(Lines) /\ Len(L) = 1 /\ L[1] = x /\ 1..Len(L) = {1}
    OBVIOUS
  <2> HIDE DEF L
  <2>3. Announced(L)
    BY <1>2, <2>1, <2>2 DEF Announced, LeaseTold
  <2>4. QED
    BY <2>1, <2>3
<1>3. CASE ~att
  <2> DEFINE L == <<>>
  <2>1. IfAttached(att, <<x>>) = L
    BY <1>3 DEF IfAttached
  <2>2. L \in Seq(Lines) /\ Len(L) = 0 /\ 1..Len(L) = {}
    OBVIOUS
  <2> HIDE DEF L
  <2>3. Announced(L)
    BY <1>3, <2>1, <2>2 DEF Announced, LeaseTold
  <2>4. QED
    BY <2>1, <2>3
<1>4. QED
  BY <1>1, <1>2, <1>3

LEMMA DaemonKeepsModes ==
  ASSUME ModeIInv, DaemonEvent \/ RivalTakes \/ LeaseFreed
  PROVE  Granted' /\ ModesAgree'
<1>1. TypeOK /\ LeaseTold /\ log \in Nat /\ MaxSeq \in Nat
  BY TypeKept DEF ModeIInv, FeedIInv, Granted
<1>2. CASE DaemonEvent
  <2>1. log \in 0..MaxSeq
    BY <1>1 DEF TypeOK
  <2>2. Event(log) \in Lines /\ Event(log).t = "event"
    BY <2>1, LineFacts
  <2>3. /\ down' = down \o IfAttached(att, <<Event(log)>>) /\ att' = att /\ up' = up /\ lease' = lease
        /\ UNCHANGED <<chan, todo, callVars, handleVars, drops, early>>
    BY <1>2 DEF DaemonEvent
  <2>4. QED
    BY <1>1, <2>2, <2>3, PushAnnounces, AnnouncedKeeps
<1>3. CASE RivalTakes
  <2>1. RivalLine \in Lines /\ RivalLine.t = "control" /\ RivalLine.holder # "me"
    BY LineFacts DEF RivalLine
  <2>2. /\ down' = down \o IfAttached(att, <<RivalLine>>) /\ att' = att /\ up' = up /\ lease' # "me"
        /\ UNCHANGED <<chan, todo, callVars, handleVars, drops, early>>
    BY <1>3 DEF RivalTakes, RivalLine
  <2>3. QED
    BY <1>1, <2>1, <2>2, PushAnnounces, AnnouncedKeeps
<1>4. CASE LeaseFreed
  <2>1. FreedLine \in Lines /\ FreedLine.t = "control" /\ FreedLine.holder # "me"
    BY LineFacts DEF FreedLine
  <2>2. /\ down' = down \o IfAttached(att, <<FreedLine>>) /\ att' = att /\ up' = up /\ lease' # "me"
        /\ UNCHANGED <<chan, todo, callVars, handleVars, drops, early>>
    BY <1>4 DEF LeaseFreed, FreedLine
  <2>3. QED
    BY <1>1, <2>1, <2>2, PushAnnounces, AnnouncedKeeps
<1>5. QED
  BY <1>2, <1>3, <1>4

LEMMA ServeKeepsModes ==
  ASSUME ModeIInv, Serve
  PROVE  Granted' /\ ModesAgree'
<1> DEFINE r == Head(up)
<1>1. TypeOK /\ IdsApart /\ InLog /\ LeaseTold /\ ModesAgree
  BY DEF ModeIInv, FeedIInv, Granted
<1>2. up \in Seq(Sent) /\ up # <<>>
  BY <1>1 DEF TypeOK, Serve
<1>3. /\ Len(Tail(up)) = Len(up) - 1 /\ Len(up) \in Nat /\ Len(up) >= 1
      /\ r = up[1] /\ r \in Sent
      /\ \A i \in 1..Len(Tail(up)) : Tail(up)[i] = up[i + 1] /\ i + 1 \in 1..Len(up)
  BY <1>2, RestFacts
<1>4. /\ up' = Tail(up) /\ UNCHANGED <<log, chan, todo, callVars, handleVars, drops, early>>
      /\ r.method = "attach" => ServeAttach(r)
      /\ r.method # "attach" => ServeRelease(r)
  BY DEF Serve
<1>5. r.since < log /\ r.id \in Nat /\ 1 \in 1..Len(up)
  <2>1. 1 \in 1..Len(up)
    BY <1>3
  <2>2. QED
    BY <1>1, <1>3, <2>1 DEF InLog, Sent
<1> HIDE DEF r
<1>6. PICK L : down' = down \o L /\ Answers(L, r, att, att', log) /\ Leases(L, r)
  <2>1. CASE r.method = "attach"
    BY <1>1, <1>3, <1>4, <1>5, <2>1, AttachAnswers
  <2>2. CASE r.method # "attach"
    BY <1>1, <1>3, <1>4, <1>5, <2>2, ReleaseAnswers
  <2>3. QED
    BY <2>1, <2>2
<1>7. /\ L \in Seq(Lines) /\ L[Len(L)].id = r.id
      /\ \A i \in 1..Len(L) : i # Len(L) => L[i].t # "result"
  BY <1>6, Zenon DEF Answers
<1>8. ASSUME NEW h \in Handles, NEW i \in 1..Len(L), pend[h] # NoCall, pend[h].mode = "write",
             L[i].t = "result", L[i].id = pend[h].id, L[i].ok
      PROVE  lease' = "me"
  <2>1. i = Len(L) /\ r.id = pend[h].id
    BY <1>7, <1>8
  <2>2. r.mode = "write" /\ r.method = "attach"
    BY <1>1, <1>3, <1>5, <1>8, <2>1 DEF ModesAgree
  <2>3. QED
    BY <1>6, <1>8, <2>1, <2>2 DEF Leases
<1>9. \A i \in 1..Len(up') : \E k \in 1..Len(up) : up'[i] = up[k]
  BY <1>3, <1>4
<1>10. Announced(L)
  BY <1>6, <1>7, <1>8, <1>9 DEF Announced, Leases
<1>11. QED
  BY <1>4, <1>10, AnnouncedKeeps

----------------------------------------------------------------------------
(* Write control: the client *)

\* A call goes out for the mode its caller will wait for.
LEMMA CallKeepsModes ==
  ASSUME ModeIInv, NEW h \in Handles, NEW op \in Ops, NEW m \in {"attach", "release"}, NEW md \in Modes,
         NEW force \in BOOLEAN, NEW since \in -2..MaxSeq, Call(h, op, m, md, force, since), Shrunk,
         op = "acquire" => md = "write", md = "write" => m = "attach",
         \A g \in Live : mode[g] = "write" /\ Unsettled(g) => Unsettled(g)',
         UNCHANGED <<daemonVars, down, handleVars, drops, early>>
  PROVE  Granted' /\ ModesAgree'
<1> USE DEF daemonVars, handleVars
<1> DEFINE n == calls + 1
           q == Request(m, n, md, force, since)
<1>1. TypeOK /\ IdsApart /\ LeaseTold /\ LinesHeld /\ ResultsHeld /\ ContsHeld /\ ModesHeld /\ ModesAgree
  BY DEF ModeIInv, FeedIInv, Granted
<1>2. calls \in Nat /\ n \in Nat /\ n # 0 /\ n > calls /\ pend \in [Handles -> Calls \union {NoCall}] /\ up \in Seq(Sent)
  <2>1. calls \in Nat
    BY <1>1, TypeKept
  <2>2. pend \in [Handles -> Calls \union {NoCall}] /\ up \in Seq(Sent)
    BY <1>1 DEF TypeOK
  <2>3. QED
    BY <2>1, <2>2
<1>3. q \in Sent /\ q.method = m /\ q.id = n /\ q.mode = md
  BY <1>2 DEF Request, Sent
<1>4. pend' = [pend EXCEPT ![h] = [id |-> n, op |-> op, mode |-> md, since |-> since]] /\ up' = Append(up, q)
  BY DEF Call
<1>5. /\ pend'[h].id = n /\ pend'[h].op = op /\ pend'[h].mode = md
      /\ \A g \in Handles : g # h => pend'[g] = pend[g]
  BY <1>2, <1>4
<1> HIDE DEF q, n
<1>6. /\ Len(up') = Len(up) + 1 /\ up'[Len(up) + 1] = q
      /\ \A i \in 1..Len(up) : up'[i] = up[i]
      /\ \A i \in 1..Len(up') : i \in 1..Len(up) \/ i = Len(up) + 1
  BY <1>2, <1>3, <1>4, SnocFacts
<1>7. \A i \in 1..Len(up) : up[i].id # n
  <2> SUFFICES ASSUME NEW i \in 1..Len(up) PROVE up[i].id # n
    OBVIOUS
  <2>1. up[i].id <= calls /\ up[i] \in Sent
    BY <1>1, TypeKept DEF IdsApart
  <2>2. up[i].id \in Nat
    BY <2>1 DEF Sent
  <2>3. QED
    BY <1>2, <2>1, <2>2
<1>8. \A i \in 1..Len(down) : down[i].t = "result" => down[i].id # n
  <2> SUFFICES ASSUME NEW i \in 1..Len(down), down[i].t = "result" PROVE down[i].id # n
    OBVIOUS
  <2>1. down[i].id <= calls /\ down[i].id \in Nat
    BY <1>1, TypeKept, LineFacts DEF IdsApart
  <2>2. QED
    BY <1>2, <2>1
<1>9. \A g \in Handles : pend[g] # NoCall => pend[g].id # n
  <2> SUFFICES ASSUME NEW g \in Handles, pend[g] # NoCall PROVE pend[g].id # n
    OBVIOUS
  <2>1. pend[g].id <= calls /\ pend[g].id \in Nat
    BY <1>1, <1>2 DEF IdsApart, Calls
  <2>2. QED
    BY <1>2, <2>1
<1>10. Live' = Live
  BY LiveKept
<1>11. LeaseTold' /\ LinesHeld'
  BY <1>1 DEF LeaseTold, LinesHeld
<1>12. ResultsHeld'
  <2> SUFFICES ASSUME NEW g \in Handles, NEW j \in 1..Len(down), pend'[g] # NoCall, pend'[g].mode = "write",
                      down[j].t = "result", down[j].id = pend'[g].id, down[j].ok
               PROVE  Held(down, j, lease)
    BY DEF ResultsHeld
  <2>1. g # h
    BY <1>5, <1>8
  <2>2. pend'[g] = pend[g]
    BY <1>5, <2>1
  <2>3. QED
    BY <1>1, <2>2 DEF ResultsHeld
<1>13. ContsHeld'
  BY <1>1 DEF ContsHeld, Shrunk, Due
<1>14. ModesHeld'
  BY <1>1, <1>10 DEF ModesHeld
<1>15. ModesAgree'
  <2>1. \A g \in Handles : pend'[g].op = "acquire" => pend'[g].mode = "write"
    BY <1>1, <1>5 DEF ModesAgree
  <2>2. \A i \in 1..Len(cont') : Due(i, {"acquire"})' => cont'[i].call.mode = "write"
    BY <1>1 DEF ModesAgree, Shrunk, Due
  <2>3. ASSUME NEW g \in Handles, NEW i \in 1..Len(up'), pend'[g] # NoCall, up'[i].id = pend'[g].id
        PROVE  up'[i].mode = pend'[g].mode /\ (pend'[g].mode = "write" => up'[i].method = "attach")
    <3>1. CASE g = h
      <4>1. i = Len(up) + 1
        BY <1>5, <1>6, <1>7, <2>3, <3>1
      <4>2. QED
        BY <1>3, <1>5, <1>6, <3>1, <4>1
    <3>2. CASE g # h
      <4>1. pend'[g] = pend[g]
        BY <1>5, <3>2
      <4>2. i \in 1..Len(up)
        BY <1>3, <1>6, <1>9, <2>3, <4>1
      <4>3. QED
        BY <1>1, <1>6, <2>3, <4>1, <4>2 DEF ModesAgree
    <3>3. QED
      BY <3>1, <3>2
  <2>4. QED
    BY <2>1, <2>2, <2>3 DEF ModesAgree
<1>16. QED
  BY <1>11, <1>12, <1>13, <1>14, <1>15 DEF Granted

\* A handle's own call, made while none of it is in progress, settles nothing.
LEMMA UserCallKeepsModes ==
  ASSUME ModeIInv, NEW h \in Handles, UserReady(h),
         NEW op \in Ops, NEW m \in {"attach", "release"}, NEW md \in Modes, NEW force \in BOOLEAN, NEW since \in -2..MaxSeq,
         Call(h, op, m, md, force, since),
         op = "acquire" => md = "write", md = "write" => m = "attach",
         UNCHANGED <<daemonVars, down, chan, todo, cont, handleVars, drops, early>>
  PROVE  Granted' /\ ModesAgree'
<1>1. pend \in [Handles -> Calls \union {NoCall}] /\ cont \in Seq(Settled)
  BY DEF ModeIInv, FeedIInv, TypeOK, Settled
<1>2. pend[h] = NoCall /\ \A g \in Handles : g # h => pend'[g] = pend[g]
  BY <1>1 DEF UserReady, Call
<1>3. \A g \in Live : Unsettled(g) => Unsettled(g)'
  <2> SUFFICES ASSUME NEW g \in Live, Unsettled(g) PROVE Unsettled(g)'
    OBVIOUS
  <2>1. pend'[g] = pend[g] \/ pend[g] = NoCall
    BY <1>2 DEF Live
  <2>2. QED
    BY <2>1 DEF Unsettled, NoCall
<1>4. Shrunk
  BY <1>1 DEF Shrunk
<1>5. QED
  BY <1>3, <1>4, CallKeepsModes

LEMMA UserKeepsModes ==
  ASSUME ModeIInv, NEW h \in Handles,
         \/ \E md \in {"read", "write"}, force \in BOOLEAN : AttachCall(h, md, force)
         \/ \E force \in BOOLEAN : AcquireWrite(h, force)
         \/ ReleaseControl(h)
  PROVE  Granted' /\ ModesAgree'
<1>1. TypeOK /\ MaxSeq \in Nat /\ cursor[h] \in -1..MaxSeq
  BY TypeKept DEF ModeIInv, FeedIInv
<1>2. -2 \in -2..MaxSeq /\ cursor[h] \in -2..MaxSeq
  BY <1>1
<1>3. "read" \in Modes /\ "write" \in Modes /\ {"attach", "acquire", "release"} \subseteq Ops
  BY DEF Modes, Ops
<1>4. ASSUME NEW md \in {"read", "write"}, NEW force \in BOOLEAN, AttachCall(h, md, force) PROVE Granted' /\ ModesAgree'
  <2>1. /\ UserReady(h) /\ Call(h, "attach", "attach", md, force, -2) /\ md \in Modes
        /\ UNCHANGED <<daemonVars, down, chan, todo, cont, handleVars, drops, early>>
    BY <1>3, <1>4 DEF AttachCall
  <2>2. QED
    BY <1>2, <1>3, <2>1, UserCallKeepsModes
<1>5. ASSUME NEW force \in BOOLEAN, AcquireWrite(h, force) PROVE Granted' /\ ModesAgree'
  <2>1. /\ UserReady(h) /\ Call(h, "acquire", "attach", "write", force, cursor[h])
        /\ UNCHANGED <<daemonVars, down, chan, todo, cont, handleVars, drops, early>>
    BY <1>5 DEF AcquireWrite
  <2>2. QED
    BY <1>2, <1>3, <2>1, UserCallKeepsModes
<1>6. CASE ReleaseControl(h)
  <2>1. /\ UserReady(h) /\ Call(h, "release", "release", "read", FALSE, -2)
        /\ UNCHANGED <<daemonVars, down, chan, todo, cont, handleVars, drops, early>>
    BY <1>6 DEF ReleaseControl
  <2>2. QED
    BY <1>2, <1>3, <2>1, UserCallKeepsModes
<1>7. QED
  BY <1>4, <1>5, <1>6

LEMMA DetachKeepsModes ==
  ASSUME ModeIInv, NEW h \in Handles, Detach(h)
  PROVE  Granted' /\ ModesAgree'
<1> DEFINE q == Request("detach", 0, "read", FALSE, -2)
<1>1. TypeOK /\ OneLive /\ LeaseTold /\ LinesHeld /\ ResultsHeld /\ ContsHeld /\ ModesAgree
  BY DEF ModeIInv, FeedIInv, Granted
<1>2. /\ handle[h] = "live" /\ handle' = [handle EXCEPT ![h] = "detached"]
      /\ up' = (IF chan = "up" THEN Append(up, q) ELSE up)
      /\ UNCHANGED <<att, lease, down, pend, cont, early>>
  BY DEF Detach, daemonVars, callVars
<1>3. up \in Seq(Sent) /\ handle \in [Handles -> {"none", "live", "detached"}] /\ pend \in [Handles -> Calls \union {NoCall}]
  BY <1>1 DEF TypeOK
<1>4. q \in Sent /\ q.id = 0
  BY FeedAssumption DEF Request, Sent, Modes
<1> HIDE DEF q
<1>5. \A i \in 1..Len(up') : (i \in 1..Len(up) /\ up'[i] = up[i]) \/ up'[i] = q
  <2>1. CASE chan = "up"
    BY <1>2, <1>3, <1>4, <2>1, SnocFacts
  <2>2. CASE chan # "up"
    BY <1>2, <2>2
  <2>3. QED
    BY <2>1, <2>2
<1>6. Live' = {}
  BY <1>1, <1>2, <1>3 DEF OneLive, Live
<1>7. \A g \in Handles : pend[g] # NoCall => pend[g].id # 0
  BY <1>3 DEF Calls
<1>8. LeaseTold' /\ LinesHeld' /\ ResultsHeld'
  BY <1>1, <1>2 DEF LeaseTold, LinesHeld, ResultsHeld
<1>9. ContsHeld' /\ ModesHeld'
  BY <1>1, <1>2, <1>6 DEF ContsHeld, ModesHeld, Due
<1>10. ModesAgree'
  BY <1>1, <1>2, <1>4, <1>5, <1>7 DEF ModesAgree, Due
<1>11. QED
  BY <1>8, <1>9, <1>10 DEF Granted

\* A call that has timed out no longer sets a mode; a re-attach takes its handle with it.
LEMMA CallTimesOutKeepsModes ==
  ASSUME ModeIInv, NEW h \in Handles, CallTimesOut(h)
  PROVE  Granted' /\ ModesAgree'
<1> DEFINE hs == IF pend[h].op \in {"reattach", "retry"} THEN {h} \intersect Live ELSE {}
<1>1. TypeOK /\ LeaseTold /\ LinesHeld /\ ResultsHeld /\ ContsHeld /\ ModesHeld /\ ModesAgree
  BY DEF ModeIInv, FeedIInv, Granted
<1>2. /\ pend' = [pend EXCEPT ![h] = NoCall] /\ TornDown(hs)
      /\ UNCHANGED <<att, lease, up, down, chan, todo, cont, early>>
  BY DEF CallTimesOut, daemonVars, wireVars
<1>3. pend[h].op \in {"reattach", "retry"} /\ h \in Live => h \in hs
  OBVIOUS
<1> HIDE DEF hs
<1>4. Live' \subseteq Live /\ \A g \in Live' : g \notin hs
  BY <1>1, <1>2, TornDownFacts
<1>5. \A g \in Handles : g \notin hs => mode'[g] = mode[g]
  BY <1>2 DEF TornDown
<1>6. pend'[h] = NoCall /\ \A g \in Handles : g # h => pend'[g] = pend[g]
  BY <1>1, <1>2 DEF TypeOK
<1>7. \A g \in Handles : pend'[g] # NoCall => pend'[g] = pend[g]
  BY <1>6
<1>8. LeaseTold' /\ LinesHeld' /\ ContsHeld'
  BY <1>1, <1>2 DEF LeaseTold, LinesHeld, ContsHeld, Due
<1>9. ResultsHeld'
  <2> SUFFICES ASSUME NEW g \in Handles, NEW j \in 1..Len(down), pend'[g] # NoCall, pend'[g].mode = "write",
                      down[j].t = "result", down[j].id = pend'[g].id, down[j].ok
               PROVE  Held(down, j, lease)
    BY <1>2 DEF ResultsHeld
  <2>1. pend'[g] = pend[g]
    BY <1>7
  <2>2. QED
    BY <1>1, <2>1 DEF ResultsHeld
<1>10. ModesHeld'
  <2> SUFFICES ASSUME NEW g \in Live', mode'[g] = "write", "control" \notin early PROVE Held(down, 0, lease) \/ Unsettled(g)'
    BY <1>2 DEF ModesHeld
  <2>1. g \in Live /\ g \in Handles /\ g \notin hs /\ mode[g] = "write"
    BY <1>4, <1>5 DEF Live
  <2>2. Held(down, 0, lease) \/ Unsettled(g)
    BY <1>1, <2>1 DEF ModesHeld
  <2>3. Unsettled(g) => Unsettled(g)'
    <3>1. pend'[g] = pend[g] \/ pend[g].op \notin {"reattach", "retry"}
      BY <1>3, <1>6, <2>1
    <3>2. QED
      BY <1>2, <3>1 DEF Unsettled
  <2>4. QED
    BY <2>2, <2>3
<1>11. ModesAgree'
  <2>1. \A g \in Handles : pend'[g].op = "acquire" => pend'[g].mode = "write"
    BY <1>1, <1>6 DEF ModesAgree, NoCall
  <2>2. \A g \in Handles, i \in 1..Len(up') : pend'[g] # NoCall /\ up'[i].id = pend'[g].id =>
          up'[i].mode = pend'[g].mode /\ (pend'[g].mode = "write" => up'[i].method = "attach")
    BY <1>1, <1>2, <1>7 DEF ModesAgree
  <2>3. QED
    BY <1>1, <1>2, <2>1, <2>2 DEF ModesAgree, Due
<1>12. QED
  BY <1>8, <1>9, <1>10, <1>11 DEF Granted

LEMMA ChannelKeepsModes ==
  ASSUME ModeIInv, StreamLost \/ Reconnected \/ ReattachOver
  PROVE  Granted' /\ ModesAgree'
<1>1. TypeOK /\ LeaseTold /\ LinesHeld /\ ResultsHeld /\ ContsHeld /\ ModesHeld /\ ModesAgree
  BY DEF ModeIInv, FeedIInv, Granted
<1>2. CASE StreamLost
  <2>1. /\ chan' = "down" /\ up' = <<>> /\ down' = <<>> /\ lease' # "me" /\ cont' = <<>>
        /\ \A h \in Handles : pend'[h] = NoCall
    BY <1>2 DEF StreamLost
  <2>2. Len(up') = 0 /\ Len(down') = 0 /\ Len(cont') = 0
    BY <2>1
  <2>3. LeaseTold' /\ LinesHeld' /\ ResultsHeld' /\ ContsHeld'
    BY <2>1, <2>2 DEF LeaseTold, LinesHeld, ResultsHeld, ContsHeld
  <2>4. ModesHeld'
    BY <2>1 DEF ModesHeld, Unsettled
  <2>5. ModesAgree'
    BY <2>1, <2>2 DEF ModesAgree, NoCall
  <2>6. QED
    BY <2>3, <2>4, <2>5 DEF Granted
<1>3. ASSUME UNCHANGED <<daemonVars, wireVars, callVars, handleVars, drops, early>>
      PROVE  LeaseTold' /\ LinesHeld' /\ ResultsHeld' /\ ContsHeld' /\ ModesAgree' /\ Live' = Live
  <2> USE <1>3 DEF daemonVars, wireVars, callVars, handleVars
  <2>1. Live' = Live
    BY LiveKept
  <2>2. LeaseTold' /\ LinesHeld' /\ ResultsHeld'
    BY <1>1 DEF LeaseTold, LinesHeld, ResultsHeld
  <2>3. ContsHeld' /\ ModesAgree'
    BY <1>1 DEF ContsHeld, ModesAgree, Due
  <2>4. QED
    BY <2>1, <2>2, <2>3
<1>4. CASE Reconnected
  <2>1. todo' = Live /\ UNCHANGED <<daemonVars, wireVars, callVars, handleVars, drops, early>>
    BY <1>4 DEF Reconnected
  <2>2. LeaseTold' /\ LinesHeld' /\ ResultsHeld' /\ ContsHeld' /\ ModesAgree' /\ Live' = Live
    BY <1>3, <2>1
  <2>3. ModesHeld'
    BY <2>1, <2>2 DEF ModesHeld, Unsettled
  <2>4. QED
    BY <2>2, <2>3 DEF Granted
<1>5. CASE ReattachOver
  <2>1. /\ chan = "opening" /\ cont = <<>> /\ todo = {} /\ UNCHANGED <<daemonVars, wireVars, callVars, handleVars, drops, early>>
        /\ \A h \in Handles : pend[h].op \notin {"reattach", "retry"}
    BY <1>5 DEF ReattachOver, LoopIdle
  <2>2. LeaseTold' /\ LinesHeld' /\ ResultsHeld' /\ ContsHeld' /\ ModesAgree' /\ Live' = Live
    BY <1>3, <2>1
  <2>3. Len(cont) = 0
    BY <2>1
  <2>4. \A h \in Live : ~Unsettled(h)
    BY <2>1, <2>3 DEF Unsettled, Live
  <2>5. ModesHeld'
    BY <1>1, <2>1, <2>2, <2>4 DEF ModesHeld, daemonVars, wireVars, handleVars
  <2>6. QED
    BY <2>2, <2>5 DEF Granted
<1>6. QED
  BY <1>2, <1>4, <1>5

LEMMA ReattachNextKeepsModes ==
  ASSUME ModeIInv, NEW h \in Handles, ReattachNext(h)
  PROVE  Granted' /\ ModesAgree'
<1>1. TypeOK /\ LeaseTold /\ LinesHeld /\ ResultsHeld /\ ContsHeld /\ ModesHeld /\ ModesAgree
  BY DEF ModeIInv, FeedIInv, Granted
<1>2. /\ h \in todo /\ todo' = todo \ {h} /\ UNCHANGED <<daemonVars, down, chan, cont, handleVars, drops, early>>
      /\ \A g \in Handles : pend[g].op \notin {"reattach", "retry"}
  BY DEF ReattachNext, LoopIdle
<1>3. pend \in [Handles -> Calls \union {NoCall}] /\ cont \in Seq(Settled) /\ mode[h] \in Modes
      /\ MaxSeq \in Nat /\ cursor[h] \in -1..MaxSeq
  BY <1>1, TypeKept DEF TypeOK, Settled
<1>4. CASE h \in Live
  <2>1. Call(h, "reattach", "attach", mode[h], FALSE, cursor[h])
    BY <1>4 DEF ReattachNext
  <2>2. /\ pend'[h].op = "reattach" /\ pend'[h].mode = mode[h]
        /\ \A g \in Handles : g # h => pend'[g] = pend[g]
    BY <1>3, <2>1 DEF Call
  <2>3. ASSUME NEW g \in Live, mode[g] = "write", Unsettled(g) PROVE Unsettled(g)'
    <3>1. CASE g = h
      BY <2>2, <2>3, <3>1 DEF Unsettled
    <3>2. CASE g # h
      <4>1. pend'[g] = pend[g]
        BY <2>2, <3>2 DEF Live
      <4>2. QED
        BY <1>2, <2>3, <3>2, <4>1 DEF Unsettled
    <3>3. QED
      BY <3>1, <3>2
  <2>4. Shrunk /\ "reattach" \in Ops /\ cursor[h] \in -2..MaxSeq
    <3>1. cursor[h] \in -2..MaxSeq
      BY <1>3
    <3>2. QED
      BY <1>2, <1>3, <3>1 DEF Shrunk, Ops
  <2>5. QED
    BY <1>2, <1>3, <2>1, <2>3, <2>4, CallKeepsModes
<1>5. CASE h \notin Live
  <2>1. UNCHANGED <<att, lease, down, chan, cont, pend, up, handle, mode, early>>
    BY <1>2, <1>5 DEF ReattachNext, daemonVars, handleVars
  <2>2. Live' = Live
    BY <2>1, LiveKept
  <2>3. LeaseTold' /\ LinesHeld' /\ ResultsHeld'
    BY <1>1, <2>1 DEF LeaseTold, LinesHeld, ResultsHeld
  <2>4. ContsHeld' /\ ModesAgree'
    BY <1>1, <2>1 DEF ContsHeld, ModesAgree, Due
  <2>5. \A g \in Live : Unsettled(g) => Unsettled(g)'
    BY <1>2, <1>5, <2>1 DEF Unsettled
  <2>6. ModesHeld'
    BY <1>1, <2>1, <2>2, <2>5 DEF ModesHeld
  <2>7. QED
    BY <2>3, <2>4, <2>6 DEF Granted
<1>6. QED
  BY <1>4, <1>5

----------------------------------------------------------------------------
(* Write control: lines and continuations *)

\* What is held stays held after a line that is not the news of the loss.
LEMMA TakenHeld ==
  ASSUME TypeOK, Taken, NEW j \in 0..Len(down), Held(down, j, lease),
         j = 0 => ~(down[1].t = "control" /\ down[1].holder # "me")
  PROVE  Held(down', IF j = 0 THEN 0 ELSE j - 1, lease')
<1>1. /\ Len(down') = Len(down) - 1 /\ Len(down) \in Nat
      /\ \A i \in 1..Len(down') : down'[i] = down[i + 1] /\ i + 1 \in 1..Len(down)
  BY TakenFacts
<1>2. lease' = lease
  BY DEF Taken, daemonVars
<1>3. CASE lease = "me"
  BY <1>2, <1>3 DEF Held
<1>4. CASE lease # "me"
  <2>1. PICK i \in (j + 1)..Len(down) : down[i].t = "control" /\ down[i].holder # "me"
    BY <1>4 DEF Held
  <2> DEFINE k == IF j = 0 THEN 0 ELSE j - 1
  <2>2. i # 1 \/ j # 0
    BY <2>1
  <2>3. i - 1 \in (k + 1)..Len(down') /\ i - 1 \in 1..Len(down') /\ (i - 1) + 1 = i
    BY <1>1, <2>2
  <2> HIDE DEF k
  <2>4. down'[i - 1] = down[i]
    BY <1>1, <2>3
  <2>5. Held(down', k, lease')
    BY <2>1, <2>3, <2>4 DEF Held
  <2>6. QED
    BY <2>5 DEF k
<1>5. QED
  BY <1>3, <1>4

LEMMA ReceiveKeepsModes ==
  ASSUME ModeIInv, Receive
  PROVE  Granted' /\ ModesAgree'
<1>1. FeedIInv /\ TypeOK /\ IdsApart /\ LeaseTold /\ LinesHeld /\ ResultsHeld /\ ContsHeld /\ ModesHeld /\ ModesAgree
  BY DEF ModeIInv, FeedIInv, Granted
<1>2. Taken
  BY <1>1, ReceiveKeeps
<1>3. /\ Len(down') = Len(down) - 1 /\ Len(down) \in Nat /\ Len(down) >= 1 /\ 1 \in 1..Len(down) /\ 0 \in 0..Len(down)
      /\ down[1] \in Lines /\ Head(down) = down[1]
      /\ \A i \in 1..Len(down') : down'[i] = down[i + 1] /\ i + 1 \in 1..Len(down)
  BY <1>1, <1>2, TakenFacts
<1>4. UNCHANGED <<att, lease, up, chan, todo>> /\ early \subseteq early'
  BY <1>2 DEF Taken, daemonVars
<1>5. early' = IF EarlyLine(down[1]) THEN early \union {down[1].t} ELSE early
  BY <1>3 DEF Receive
<1>6. ASSUME NEW j \in 1..Len(down'), Held(down, j + 1, lease) PROVE Held(down', j, lease')
  <2>1. j + 1 \in 0..Len(down) /\ j + 1 # 0 /\ (j + 1) - 1 = j
    BY <1>3
  <2>2. QED
    BY <1>1, <1>2, <1>6, <2>1, TakenHeld
<1>7. Held(down, 1, lease) => Held(down', 0, lease')
  <2>1. 1 \in 0..Len(down) /\ 1 - 1 = 0
    BY <1>3
  <2>2. QED
    BY <1>1, <1>2, <2>1, TakenHeld
<1>8. Held(down, 0, lease) /\ ~(down[1].t = "control" /\ down[1].holder # "me") => Held(down', 0, lease')
  BY <1>1, <1>2, <1>3, TakenHeld
<1>9. LeaseTold'
  BY <1>1, <1>4 DEF LeaseTold
<1>10. LinesHeld'
  BY <1>1, <1>3, <1>6 DEF LinesHeld
<1>11. ASSUME \A g \in Handles : pend'[g] # NoCall => pend'[g] = pend[g]
       PROVE  ResultsHeld'
  <2> SUFFICES ASSUME NEW g \in Handles, NEW j \in 1..Len(down'), pend'[g] # NoCall, pend'[g].mode = "write",
                      down'[j].t = "result", down'[j].id = pend'[g].id, down'[j].ok
               PROVE  Held(down', j, lease')
    BY DEF ResultsHeld
  <2>1. pend'[g] = pend[g] /\ down'[j] = down[j + 1] /\ j + 1 \in 1..Len(down)
    BY <1>3, <1>11
  <2>2. Held(down, j + 1, lease)
    BY <1>1, <2>1 DEF ResultsHeld
  <2>3. QED
    BY <1>6, <2>2
<1>12. ASSUME UNCHANGED <<pend, cont>> PROVE ModesAgree' /\ ResultsHeld' /\ \A h : Unsettled(h) => Unsettled(h)'
  <2>1. ResultsHeld'
    BY <1>11, <1>12
  <2>2. ModesAgree'
    BY <1>1, <1>4, <1>12 DEF ModesAgree, Due
  <2>3. \A h : Unsettled(h) => Unsettled(h)'
    BY <1>4, <1>12 DEF Unsettled
  <2>4. QED
    BY <2>1, <2>2, <2>3
<1>13. CASE down[1].t = "event"
  <2>1. UNCHANGED <<pend, cont, handle, mode>>
    BY <1>3, <1>13 DEF Receive, Deliver, callVars
  <2>2. Live' = Live /\ (Held(down, 0, lease) => Held(down', 0, lease'))
    BY <1>8, <1>13, <2>1, LiveKept
  <2>3. ContsHeld'
    BY <1>1, <1>4, <2>1, <2>2 DEF ContsHeld, Due
  <2>4. ModesHeld'
    BY <1>1, <1>4, <1>12, <2>1, <2>2 DEF ModesHeld
  <2>5. QED
    BY <1>9, <1>10, <1>12, <2>1, <2>3, <2>4 DEF Granted
<1>14. CASE down[1].t = "control"
  <2>1. /\ UNCHANGED <<pend, cont, handle>>
        /\ mode' = [h \in Handles |-> IF h \in Live THEN ModeAfter(h, down[1].holder, down[1].reason) ELSE mode[h]]
    BY <1>3, <1>14 DEF Receive, ControlChanged, callVars
  <2>2. Live' = Live /\ Live \subseteq Handles
    BY <2>1, LiveKept DEF Live
  <2>3. ContsHeld'
    <3> SUFFICES ASSUME NEW i \in 1..Len(cont), Due(i, {"attach", "acquire"}), cont[i].ok PROVE "control" \in early'
      BY <2>1 DEF ContsHeld, Due
    <3>1. i \in DOMAIN cont
      BY <1>1 DEF TypeOK
    <3>2. EarlyLine(down[1])
      BY <1>14, <3>1 DEF EarlyLine, Due
    <3>3. QED
      BY <1>5, <1>14, <3>2
  <2>4. CASE down[1].holder = "me"
    <3>1. Held(down', 0, lease')
      BY <1>1, <1>3, <1>7, <1>14, <2>4 DEF LinesHeld
    <3>2. ModesHeld'
      BY <3>1 DEF ModesHeld
    <3>3. QED
      BY <1>9, <1>10, <1>12, <2>1, <2>3, <3>2 DEF Granted
  <2>5. CASE down[1].holder # "me"
    <3>1. \A h \in Live : mode'[h] # "write"
      <4> SUFFICES ASSUME NEW h \in Live PROVE mode'[h] # "write"
        OBVIOUS
      <4>1. mode'[h] = ModeAfter(h, down[1].holder, down[1].reason)
        BY <2>1, <2>2
      <4>2. QED
        BY <2>5, <4>1 DEF ModeAfter
    <3>2. ModesHeld'
      BY <2>2, <3>1 DEF ModesHeld
    <3>3. QED
      BY <1>9, <1>10, <1>12, <2>1, <2>3, <3>2 DEF Granted
  <2>6. QED
    BY <2>4, <2>5
<1>15. CASE down[1].t = "result"
  <2>1. Answered(down[1])
    BY <1>3, <1>15 DEF Receive
  <2>2. /\ UNCHANGED <<handle, mode>>
        /\ \A g \in Handles : pend'[g] = pend[g] \/ (pend'[g] = NoCall /\ pend[g] # NoCall /\ pend[g].id = down[1].id)
    BY <1>1, <1>2, <1>15, <2>1, AnsweredFacts DEF handleVars
  <2>3. Live' = Live /\ Live \subseteq Handles /\ (Held(down, 0, lease) => Held(down', 0, lease'))
    BY <1>8, <1>15, <2>2, LiveKept DEF Live
  <2>4. ResultsHeld'
    BY <1>11, <2>2
  <2>5. \A g \in Handles : pend'[g].op = "acquire" => pend'[g].mode = "write"
    BY <1>1, <2>2 DEF ModesAgree, NoCall
  <2>6. \A g \in Handles, i \in 1..Len(up') : pend'[g] # NoCall /\ up'[i].id = pend'[g].id =>
          up'[i].mode = pend'[g].mode /\ (pend'[g].mode = "write" => up'[i].method = "attach")
    BY <1>1, <1>4, <2>2 DEF ModesAgree
  <2>7. CASE pend' = pend /\ cont' = cont
    <3>1. ContsHeld'
      BY <1>1, <1>4, <2>3, <2>7 DEF ContsHeld, Due
    <3>2. ModesHeld'
      BY <1>1, <1>4, <1>12, <2>2, <2>3, <2>7 DEF ModesHeld
    <3>3. QED
      BY <1>9, <1>10, <1>12, <2>7, <3>1, <3>2 DEF Granted
  <2>8. CASE ~(pend' = pend /\ cont' = cont)
    <3>1. PICK h \in Handles :
            /\ pend[h] # NoCall /\ pend[h].id = down[1].id
            /\ \A g \in Handles : g # h => pend'[g] = pend[g]
            /\ cont' = Append(cont, [h |-> h, call |-> pend[h], ok |-> down[1].ok, last |-> down[1].last])
            /\ [h |-> h, call |-> pend[h], ok |-> down[1].ok, last |-> down[1].last] \in Settled
      <4>1. cont' # cont
        <5> DEFINE whose == {g \in Handles : pend[g].id = down[1].id /\ pend[g] # NoCall}
        <5>1. whose = {} => pend' = pend /\ cont' = cont
          BY <1>1, <2>1 DEF Answered, TypeOK
        <5>2. cont \in Seq(Settled)
          BY <1>1 DEF TypeOK, Settled
        <5>3. whose # {} => \E k \in Settled : cont' = Append(cont, k)
          <6> SUFFICES ASSUME whose # {} PROVE \E k \in Settled : cont' = Append(cont, k)
            OBVIOUS
          <6>1. PICK g : g = CHOOSE x \in whose : TRUE
            OBVIOUS
          <6>2. g \in Handles /\ pend[g] # NoCall
            BY <6>1
          <6>3. cont' = Append(cont, [h |-> g, call |-> pend[g], ok |-> down[1].ok, last |-> down[1].last])
            BY <2>1, <6>1 DEF Answered
          <6>4. [h |-> g, call |-> pend[g], ok |-> down[1].ok, last |-> down[1].last] \in Settled
            <7>1. pend[g] \in Calls /\ down[1].ok \in BOOLEAN /\ down[1].last \in -1..MaxSeq
              BY <1>1, <1>3, <1>15, <6>2, LineFacts DEF TypeOK
            <7>2. QED
              BY <6>2, <7>1 DEF Settled
          <6>5. QED
            BY <6>3, <6>4
        <5>4. \A k \in Settled : Append(cont, k) # cont
          BY <5>2
        <5>5. QED
          BY <2>8, <5>1, <5>3, <5>4
      <4>2. QED
        BY <1>1, <1>2, <1>15, <2>1, <4>1, AnsweredFacts
    <3> DEFINE k == [h |-> h, call |-> pend[h], ok |-> down[1].ok, last |-> down[1].last]
    <3>2. /\ k.h = h /\ k.call = pend[h] /\ k.ok = down[1].ok /\ k \in Settled /\ cont' = Append(cont, k)
          /\ cont \in Seq(Settled)
      BY <1>1, <3>1 DEF TypeOK, Settled
    <3> HIDE DEF k
    <3>3. /\ Len(cont') = Len(cont) + 1 /\ cont'[Len(cont) + 1] = k /\ Len(cont) \in Nat
          /\ \A i \in 1..Len(cont) : cont'[i] = cont[i] /\ i \in 1..Len(cont')
          /\ \A i \in 1..Len(cont') : i \in 1..Len(cont) \/ i = Len(cont) + 1
      BY <3>2, SnocFacts
    <3>4. Len(cont) + 1 \in 1..Len(cont')
      BY <3>3
    <3>5. pend[h].mode = "write" /\ down[1].ok => Held(down', 0, lease')
      BY <1>1, <1>3, <1>7, <1>15, <3>1 DEF ResultsHeld
    <3>6. ContsHeld'
      <4> SUFFICES ASSUME NEW i \in 1..Len(cont'), Due(i, {"attach", "acquire"})', cont'[i].ok,
                          cont'[i].call.mode = "write", "control" \notin early'
                   PROVE  Held(down', 0, lease')
        BY DEF ContsHeld
      <4>1. CASE i \in 1..Len(cont)
        <5>1. cont'[i] = cont[i] /\ Due(i, {"attach", "acquire"}) /\ "control" \notin early
          BY <1>4, <3>3, <4>1 DEF Due
        <5>2. QED
          BY <1>1, <2>3, <4>1, <5>1 DEF ContsHeld
      <4>2. CASE i = Len(cont) + 1
        BY <3>2, <3>3, <3>5, <4>2
      <4>3. QED
        BY <3>3, <4>1, <4>2
    <3>7. ModesHeld'
      <4> SUFFICES ASSUME NEW g \in Live, mode[g] = "write", "control" \notin early PROVE Held(down', 0, lease') \/ Unsettled(g)'
        BY <1>4, <2>2, <2>3 DEF ModesHeld
      <4>1. Held(down, 0, lease) \/ Unsettled(g)
        BY <1>1 DEF ModesHeld
      <4>2. CASE Held(down, 0, lease)
        BY <2>3, <4>2
      <4>3. CASE chan = "down" \/ g \in todo
        BY <1>4, <4>3 DEF Unsettled
      <4>4. CASE \E i \in 1..Len(cont) :
                   cont[i].h = g /\ (cont[i].call.op = "retry" \/ (cont[i].call.op = "reattach" /\ ~cont[i].ok))
        BY <3>3, <4>4 DEF Unsettled
      <4>5. CASE pend[g].op = "retry" \/ (pend[g].op = "reattach" /\ pend[g].mode = "write")
        <5>1. CASE g # h
          <6>1. pend'[g] = pend[g]
            BY <2>3, <3>1, <5>1
          <6>2. QED
            BY <4>5, <6>1 DEF Unsettled
        <5>2. CASE g = h
          <6>1. CASE pend[g].op = "retry" \/ ~down[1].ok
            <7>1. cont'[Len(cont) + 1].h = g /\ cont'[Len(cont) + 1].call = pend[g] /\ cont'[Len(cont) + 1].ok = down[1].ok
              BY <3>2, <3>3, <5>2
            <7>2. QED
              BY <3>4, <4>5, <6>1, <7>1 DEF Unsettled
          <6>2. CASE ~(pend[g].op = "retry" \/ ~down[1].ok)
            BY <3>5, <4>5, <5>2, <6>2
          <6>3. QED
            BY <6>1, <6>2
        <5>3. QED
          BY <5>1, <5>2
      <4>6. QED
        BY <4>1, <4>2, <4>3, <4>4, <4>5 DEF Unsettled
    <3>8. ModesAgree'
      <4>1. \A i \in 1..Len(cont') : Due(i, {"acquire"})' => cont'[i].call.mode = "write"
        <5> SUFFICES ASSUME NEW i \in 1..Len(cont'), Due(i, {"acquire"})' PROVE cont'[i].call.mode = "write"
          OBVIOUS
        <5>1. CASE i \in 1..Len(cont)
          BY <1>1, <3>3, <5>1 DEF ModesAgree, Due
        <5>2. CASE i = Len(cont) + 1
          BY <1>1, <3>2, <3>3, <5>2 DEF ModesAgree, Due
        <5>3. QED
          BY <3>3, <5>1, <5>2
      <4>2. QED
        BY <2>5, <2>6, <4>1 DEF ModesAgree
    <3>9. QED
      BY <1>9, <1>10, <2>4, <3>6, <3>7, <3>8 DEF Granted
  <2>9. QED
    BY <2>7, <2>8
<1>16. QED
  BY <1>3, <1>13, <1>14, <1>15, LineFacts

\* A continuation that runs leaves the others where they were.
LEMMA UnsettledRest ==
  ASSUME TypeOK, Resumed, NEW g, pend'[g] = pend[g], Unsettled(g),
         ~(cont[1].h = g /\ (cont[1].call.op = "retry" \/ (cont[1].call.op = "reattach" /\ ~cont[1].ok)))
  PROVE  Unsettled(g)'
<1>1. /\ Len(cont') = Len(cont) - 1 /\ Len(cont) \in Nat /\ Len(cont) >= 1
      /\ \A i \in 1..Len(cont') : cont'[i] = cont[i + 1]
  BY ResumedFacts
<1>2. chan' = chan /\ todo' = todo
  BY DEF Resumed
<1>3. CASE \E i \in 1..Len(cont) :
             cont[i].h = g /\ (cont[i].call.op = "retry" \/ (cont[i].call.op = "reattach" /\ ~cont[i].ok))
  <2>1. PICK i \in 1..Len(cont) :
          cont[i].h = g /\ (cont[i].call.op = "retry" \/ (cont[i].call.op = "reattach" /\ ~cont[i].ok))
    BY <1>3
  <2>2. i # 1
    BY <2>1
  <2>3. i - 1 \in 1..Len(cont') /\ (i - 1) + 1 = i
    BY <1>1, <2>2
  <2>4. cont'[i - 1] = cont[i]
    BY <1>1, <2>3
  <2>5. QED
    BY <2>1, <2>3, <2>4 DEF Unsettled
<1>4. CASE ~\E i \in 1..Len(cont) :
             cont[i].h = g /\ (cont[i].call.op = "retry" \/ (cont[i].call.op = "reattach" /\ ~cont[i].ok))
  BY <1>2, <1>4 DEF Unsettled
<1>5. QED
  BY <1>3, <1>4

\* A continuation that makes no call; what is left to show is the modes it sets.
LEMMA ResumedKeepsModes ==
  ASSUME ModeIInv, Resumed, UNCHANGED <<pend, up>>,
         \A g \in Live' : mode'[g] = "write" /\ "control" \notin early => Held(down, 0, lease) \/ Unsettled(g)'
  PROVE  Granted' /\ ModesAgree'
<1>1. TypeOK /\ LeaseTold /\ LinesHeld /\ ResultsHeld /\ ContsHeld /\ ModesAgree
  BY DEF ModeIInv, FeedIInv, Granted
<1>2. UNCHANGED <<att, lease, down, chan, todo, early>>
  BY DEF Resumed, daemonVars
<1>3. Shrunk
  BY <1>1, ResumedFacts
<1>4. LeaseTold' /\ LinesHeld' /\ ResultsHeld'
  BY <1>1, <1>2 DEF LeaseTold, LinesHeld, ResultsHeld
<1>5. ContsHeld'
  BY <1>1, <1>2, <1>3 DEF ContsHeld, Shrunk, Due
<1>6. ModesHeld'
  BY <1>2 DEF ModesHeld
<1>7. ModesAgree'
  <2>1. \A i \in 1..Len(cont') : Due(i, {"acquire"})' => cont'[i].call.mode = "write"
    BY <1>1, <1>3 DEF ModesAgree, Shrunk, Due
  <2>2. QED
    BY <1>1, <2>1 DEF ModesAgree
<1>8. QED
  BY <1>4, <1>5, <1>6, <1>7 DEF Granted

LEMMA ContinueKeepsModes ==
  ASSUME ModeIInv, Continue
  PROVE  Granted' /\ ModesAgree'
<1>1. TypeOK /\ OneLive /\ ContsHeld /\ ModesHeld /\ ModesAgree /\ mode \in [Handles -> Modes]
      /\ pend \in [Handles -> Calls \union {NoCall}] /\ handle \in [Handles -> {"none", "live", "detached"}]
  BY DEF ModeIInv, FeedIInv, Granted, TypeOK
<1>2. Resumed
  BY DEF Continue, Resumed
<1>3. Head(cont) = cont[1] /\ cont[1] \in Settled /\ 1 \in 1..Len(cont) /\ Shrunk
  BY <1>1, <1>2, ResumedFacts
<1>4. PICK h \in Handles : h = cont[1].h
  BY <1>3 DEF Settled
<1>5. Live \subseteq Handles /\ Live' \subseteq Handles
  BY DEF Live
\* The mode of every handle is kept or set to read.
<1>6. ASSUME UNCHANGED <<pend, up, handle>>, \A g \in Handles : mode'[g] = "read" \/ mode'[g] = mode[g],
             \A g \in Handles : mode'[g] = "write" =>
               ~(cont[1].h = g /\ (cont[1].call.op = "retry" \/ (cont[1].call.op = "reattach" /\ ~cont[1].ok)))
      PROVE  Granted' /\ ModesAgree'
  <2>1. Live' = Live
    BY <1>6, LiveKept
  <2>2. ASSUME NEW g \in Live', mode'[g] = "write", "control" \notin early PROVE Held(down, 0, lease) \/ Unsettled(g)'
    <3>1. g \in Live /\ g \in Handles /\ mode[g] = "write"
      BY <1>5, <1>6, <2>1, <2>2
    <3>2. Held(down, 0, lease) \/ Unsettled(g)
      BY <1>1, <2>2, <3>1 DEF ModesHeld
    <3>3. pend'[g] = pend[g]
      BY <1>6
    <3>4. ~(cont[1].h = g /\ (cont[1].call.op = "retry" \/ (cont[1].call.op = "reattach" /\ ~cont[1].ok)))
      BY <1>6, <2>2, <3>1
    <3>5. QED
      BY <1>1, <1>2, <3>2, <3>3, <3>4, UnsettledRest
  <2>3. QED
    BY <1>2, <1>6, <2>2, ResumedKeepsModes
<1>7. CASE AttachContinues(cont[1])
  <2>1. CASE cont[1].ok
    <3>1. /\ UNCHANGED <<pend, up>> /\ mode' = [mode EXCEPT ![h] = cont[1].call.mode]
          /\ handle' = [handle EXCEPT ![h] = "live"] /\ Due(1, {"attach"}) /\ Due(1, {"attach", "acquire"})
      BY <1>4, <1>7, <2>1 DEF AttachContinues, Due
    <3>2. Live = {}
      BY <1>1, <1>3, <3>1 DEF OneLive
    <3>3. Live' = {h}
      BY <1>1, <3>1, <3>2 DEF Live
    <3>4. mode'[h] = cont[1].call.mode
      BY <1>1, <3>1
    <3>5. mode'[h] = "write" /\ "control" \notin early => Held(down, 0, lease)
      BY <1>1, <1>3, <2>1, <3>1, <3>4 DEF ContsHeld
    <3>6. QED
      BY <1>2, <3>1, <3>3, <3>5, ResumedKeepsModes
  <2>2. CASE ~cont[1].ok
    <3>1. UNCHANGED <<pend, up, handle, mode>> /\ cont[1].call.op = "attach"
      BY <1>7, <2>2 DEF AttachContinues
    <3>2. QED
      BY <1>6, <3>1
  <2>3. QED
    BY <2>1, <2>2
<1>8. CASE AcquireContinues(cont[1])
  <2>1. UNCHANGED <<pend, up, handle>> /\ cont[1].call.op = "acquire"
    BY <1>8 DEF AcquireContinues
  <2>2. mode' = [mode EXCEPT ![h] = IF cont[1].ok THEN "write" ELSE mode[h]]
    BY <1>4, <1>8 DEF AcquireContinues
  <2>3. CASE cont[1].ok
    <3>1. Due(1, {"acquire"}) /\ Due(1, {"attach", "acquire"})
      BY <2>1 DEF Due
    <3>2. cont[1].call.mode = "write"
      BY <1>1, <1>3, <3>1 DEF ModesAgree
    <3>3. "control" \notin early => Held(down, 0, lease)
      BY <1>1, <1>3, <2>3, <3>1, <3>2 DEF ContsHeld
    <3>4. QED
      BY <1>2, <2>1, <3>3, ResumedKeepsModes
  <2>4. CASE ~cont[1].ok
    <3>1. \A g \in Handles : mode'[g] = mode[g]
      BY <1>1, <2>2, <2>4
    <3>2. QED
      BY <1>6, <2>1, <3>1
  <2>5. QED
    BY <2>3, <2>4
<1>9. CASE ReleaseContinues(cont[1]) \/ RetryContinues(cont[1])
  <2>1. UNCHANGED <<pend, up, handle>> /\ mode' = [mode EXCEPT ![h] = "read"]
    BY <1>4, <1>9 DEF ReleaseContinues, RetryContinues
  <2>2. \A g \in Handles : (mode'[g] = "read" \/ mode'[g] = mode[g]) /\ (mode'[g] = "write" => g # h)
    BY <1>1, <2>1
  <2>3. QED
    BY <1>4, <1>6, <2>1, <2>2
<1>10. CASE ReattachContinues(cont[1])
  <2>1. CASE cont[1].ok
    <3>1. UNCHANGED <<pend, up, handle, mode>> /\ cont[1].call.op = "reattach"
      BY <1>10, <2>1 DEF ReattachContinues, handleVars
    <3>2. QED
      BY <1>6, <2>1, <3>1
  <2>2. CASE ~cont[1].ok
    <3> DEFINE since == cont[1].call.since
    <3>1. Call(h, "retry", "attach", "read", FALSE, since) /\ UNCHANGED handleVars
      BY <1>4, <1>10, <2>2 DEF ReattachContinues
    <3>2. pend'[h].op = "retry" /\ \A g \in Handles : g # h => pend'[g] = pend[g]
      BY <1>1, <3>1 DEF Call
    <3>3. ASSUME NEW g \in Live, Unsettled(g) PROVE Unsettled(g)'
      <4>1. CASE g = h
        BY <3>2, <4>1 DEF Unsettled
      <4>2. CASE g # h
        BY <1>1, <1>2, <1>4, <1>5, <3>2, <3>3, <4>2, UnsettledRest
      <4>3. QED
        BY <4>1, <4>2
    <3>4. "retry" \in Ops /\ "read" \in Modes /\ since \in -2..MaxSeq
      BY <1>3 DEF Settled, Calls, Ops, Modes
    <3>5. UNCHANGED <<daemonVars, down, handleVars, drops, early>>
      BY <1>2, <3>1 DEF Resumed
    <3>6. QED
      BY <1>3, <3>1, <3>3, <3>4, <3>5, CallKeepsModes
  <2>3. QED
    BY <2>1, <2>2
<1>11. QED
  BY <1>3, <1>7, <1>8, <1>9, <1>10 DEF Continue

----------------------------------------------------------------------------
(* Write control *)

LEMMA ModeInit == Init => ModeIInv
<1> SUFFICES ASSUME Init PROVE ModeIInv
  OBVIOUS
<1>1. /\ Len(up) = 0 /\ Len(down) = 0 /\ Len(cont) = 0 /\ Live = {} /\ lease # "me"
      /\ \A h \in Handles : pend[h] = NoCall
  BY DEF Init, Live
<1>2. Granted
  BY <1>1 DEF Granted, LeaseTold, LinesHeld, ResultsHeld, ContsHeld, ModesHeld
<1>3. ModesAgree
  BY <1>1 DEF ModesAgree, NoCall
<1>4. QED
  BY <1>2, <1>3, FeedInit DEF ModeIInv

LEMMA ModeStutters ==
  ASSUME ModeIInv, UNCHANGED vars
  PROVE  Granted' /\ ModesAgree'
<1> USE DEF vars, daemonVars, wireVars, callVars, handleVars
<1>1. LeaseTold /\ LinesHeld /\ ResultsHeld /\ ContsHeld /\ ModesHeld /\ ModesAgree
  BY DEF ModeIInv, Granted
<1>2. LeaseTold' /\ LinesHeld' /\ ResultsHeld'
  BY <1>1 DEF LeaseTold, LinesHeld, ResultsHeld
<1>3. ContsHeld' /\ ModesAgree'
  BY <1>1 DEF ContsHeld, ModesAgree, Due
<1>4. Live' = Live /\ \A h : Unsettled(h) => Unsettled(h)'
  BY LiveKept DEF Unsettled
<1>5. ModesHeld'
  BY <1>1, <1>4 DEF ModesHeld
<1>6. QED
  BY <1>2, <1>3, <1>5 DEF Granted

LEMMA ModeStep == ModeIInv /\ [Next]_vars => ModeIInv'
<1> SUFFICES ASSUME ModeIInv, [Next]_vars PROVE Granted' /\ ModesAgree'
  BY FeedStep DEF ModeIInv
<1>1. CASE DaemonEvent \/ RivalTakes \/ LeaseFreed
  BY <1>1, DaemonKeepsModes
<1>2. CASE Serve
  BY <1>2, ServeKeepsModes
<1>3. ASSUME NEW h \in Handles, UserStep(h) PROVE Granted' /\ ModesAgree'
  <2>1. CASE Detach(h)
    BY <2>1, DetachKeepsModes
  <2>2. CASE CallTimesOut(h)
    BY <2>2, CallTimesOutKeepsModes
  <2>3. CASE \/ \E md \in {"read", "write"}, force \in BOOLEAN : AttachCall(h, md, force)
             \/ \E force \in BOOLEAN : AcquireWrite(h, force)
             \/ ReleaseControl(h)
    BY <2>3, UserKeepsModes
  <2>4. QED
    BY <1>3, <2>1, <2>2, <2>3 DEF UserStep
<1>4. CASE Receive
  BY <1>4, ReceiveKeepsModes
<1>5. CASE Continue
  BY <1>5, ContinueKeepsModes
<1>6. CASE StreamLost \/ Reconnected \/ ReattachOver
  BY <1>6, ChannelKeepsModes
<1>7. ASSUME NEW h \in Handles, ReattachNext(h) PROVE Granted' /\ ModesAgree'
  BY <1>7, ReattachNextKeepsModes
<1>8. CASE UNCHANGED vars
  BY <1>8, ModeStutters
<1>9. QED
  BY <1>1, <1>2, <1>3, <1>4, <1>5, <1>6, <1>7, <1>8 DEF Next

\* The inductive invariant of write control.
THEOREM ModeInvariant == Spec => []ModeIInv
BY ModeInit, ModeStep, PTL DEF Spec

\* When nothing is on its way, a live handle in write mode holds the lease, across
\* preemptions, lost channels, re-attaches and time-outs, unless a control change
\* shared the chunk of a response (handle.ts handleControl, acquireWrite).
THEOREM FeedNoStaleWrite == Spec => []NoStaleWrite
<1>1. ModeIInv => NoStaleWrite
  <2> SUFFICES ASSUME ModeIInv, Quiet, "control" \notin early, NEW h \in Live, mode[h] = "write"
               PROVE  lease = "me"
    BY DEF NoStaleWrite
  <2>1. ModesHeld /\ OneLive
    BY DEF ModeIInv, FeedIInv, Granted
  <2>2. /\ Len(down) = 0 /\ Len(cont) = 0 /\ pend[h] = NoCall /\ chan = "up"
    BY DEF Quiet, Live
  <2>3. todo = {}
    BY <2>1, <2>2 DEF OneLive
  <2>4. ~Unsettled(h)
    BY <2>2, <2>3 DEF Unsettled, NoCall
  <2>5. Held(down, 0, lease)
    BY <2>1, <2>4 DEF ModesHeld
  <2>6. QED
    BY <2>2, <2>5 DEF Held
<1>2. QED
  BY <1>1, ModeInvariant, PTL

----------------------------------------------------------------------------
(* What the daemon holds for this client *)

\* With the requests u on their way, the daemon may end up with an attachment of
\* this client: it has one (a) and no detach is behind it, or an attach is on its
\* way and no detach behind that.
Attachable(u, a) ==
  \/ a /\ \A j \in 1..Len(u) : u[j].method # "detach"
  \/ \E i \in 1..Len(u) : u[i].method = "attach" /\ \A j \in (i + 1)..Len(u) : u[j].method # "detach"

\* A response that refuses call n is on its way.
Refused(n) == \E i \in 1..Len(down) : down[i].t = "result" /\ down[i].id = n /\ ~down[i].ok

\* A handle has the attachment, or the continuation of a granted first attach will
\* make one.
Heir ==
  \/ Live # {}
  \/ \E h \in Handles : Pending(h, {"attach"}) /\ ~Refused(pend[h].id)
  \/ \E i \in 1..Len(cont) : Due(i, {"attach"}) /\ cont[i].ok

Inherited == Attachable(up, att) => orphaned \/ Heir

\* A handle that the loop re-attaches is live, or was detached meanwhile.
LoopLive ==
  /\ \A h \in Handles : Pending(h, Loop) => orphaned \/ h \in Live
  /\ \A i \in 1..Len(cont) : Due(i, Loop) => orphaned \/ cont[i].h \in Live

\* A new connection holds nothing before the loop makes its call.
Fresh ==
  /\ \A g, h \in todo : g = h
  /\ chan = "down" \/ (chan = "opening" /\ todo # {}) =>
       /\ ~att /\ up = <<>> /\ cont = <<>>
       /\ \A h \in Handles : pend[h] = NoCall

Owned == Inherited /\ LoopLive /\ Fresh

\* The last of the lines a request is answered with says what became of it.
LEMMA AttachSays ==
  ASSUME TypeOK, NEW r \in Sent, r.method = "attach", r.since < log, ServeAttach(r), r.id \in Nat
  PROVE  down'[Len(down')].ok <=> att'
<1> DEFINE locked == r.mode = "write" /\ lease \notin {"free", "me"} /\ ~r.force
           taken == r.mode = "write" /\ lease # "me" /\ ~locked
           why == IF lease = "free" THEN "acquired" ELSE "preempted"
           R == Replayed(r.since)
           C == IF taken THEN <<Control("me", why)>> ELSE <<>>
           x == Result(r.id, ~locked)
           s == (down \o R) \o C
<1>1. down' = s \o <<x>> /\ x.ok = ~locked /\ att' = ~locked
  BY DEF ServeAttach, Result
<1>2. R \in Seq(Lines)
  BY ReplayFacts DEF Sent
<1>3. C \in Seq(Lines)
  <2>1. Control("me", why) \in Lines /\ Control("me", why).t = "control" /\ taken \in BOOLEAN
    BY LineFacts
  <2>2. QED
    BY <2>1, ChangeFacts
<1>4. s \in Seq(Lines)
  BY <1>2, <1>3 DEF TypeOK
<1> HIDE DEF s, x, locked
<1>5. Len(s \o <<x>>) = Len(s) + 1 /\ (s \o <<x>>)[Len(s) + 1] = x
  BY <1>4
<1>6. down'[Len(down')] = x
  BY <1>1, <1>5
<1>7. QED
  BY <1>1, <1>6

\* Lines that refuse nothing new leave the heirs as they are.
LEMMA HeirKept ==
  ASSUME UNCHANGED <<handle, pend, cont>>, Heir,
         \A h \in Handles : Pending(h, {"attach"}) /\ Refused(pend[h].id)' => Refused(pend[h].id)
  PROVE  Heir'
<1>1. Live' = Live
  BY LiveKept
<1>2. CASE Live # {}
  BY <1>1, <1>2 DEF Heir
<1>3. ASSUME NEW h \in Handles, Pending(h, {"attach"}), ~Refused(pend[h].id) PROVE Heir'
  BY <1>3 DEF Heir, Pending, Refused
<1>4. ASSUME NEW i \in 1..Len(cont), Due(i, {"attach"}), cont[i].ok PROVE Heir'
  BY <1>4 DEF Heir, Due
<1>5. QED
  BY <1>2, <1>3, <1>4 DEF Heir

\* What the daemon says unasked refuses nothing.
LEMMA PushKeepsOwned ==
  ASSUME FeedIInv, Owned, DaemonEvent \/ RivalTakes \/ LeaseFreed
  PROVE  Owned'
<1>1. TypeOK /\ down \in Seq(Lines) /\ log \in Nat /\ log \in 0..MaxSeq /\ MaxSeq \in Nat
  BY TypeKept DEF FeedIInv, TypeOK
<1>2. PICK x \in Lines : x.t # "result" /\ down' = down \o IfAttached(att, <<x>>)
  <2>1. CASE DaemonEvent
    <3>1. log \in 0..MaxSeq /\ Event(log) \in Lines /\ Event(log).t = "event"
      BY <1>1, LineFacts
    <3>2. QED
      BY <2>1, <3>1 DEF DaemonEvent
  <2>2. CASE RivalTakes
    <3>1. RivalLine \in Lines /\ RivalLine.t = "control" /\ down' = down \o IfAttached(att, <<RivalLine>>)
      BY <2>2, LineFacts DEF RivalTakes, RivalLine
    <3>2. QED
      BY <3>1
  <2>3. CASE LeaseFreed
    <3>1. FreedLine \in Lines /\ FreedLine.t = "control" /\ down' = down \o IfAttached(att, <<FreedLine>>)
      BY <2>3, LineFacts DEF LeaseFreed, FreedLine
    <3>2. QED
      BY <3>1
  <2>4. QED
    BY <2>1, <2>2, <2>3
<1>3. UNCHANGED <<att, up, chan, todo, pend, cont, handle, orphaned>>
  BY DEF DaemonEvent, RivalTakes, LeaseFreed, callVars, handleVars
<1>4. \A n : Refused(n)' => Refused(n)
  <2> SUFFICES ASSUME NEW n, NEW i \in 1..Len(down'), down'[i].t = "result", down'[i].id = n, ~down'[i].ok
               PROVE  Refused(n)
    BY DEF Refused
  <2>1. CASE att
    <3>1. down' = down \o <<x>>
      BY <1>2, <2>1 DEF IfAttached
    <3>2. Len(down') = Len(down) + 1 /\ down'[Len(down) + 1] = x /\ \A j \in 1..Len(down) : down'[j] = down[j]
      BY <1>1, <3>1
    <3>3. Len(down) \in Nat
      BY <1>1
    <3>4. i \in 1..Len(down)
      BY <1>2, <3>2, <3>3
    <3>5. QED
      BY <3>2, <3>4 DEF Refused
  <2>2. CASE ~att
    <3>1. down' = down
      BY <1>1, <1>2, <2>2 DEF IfAttached
    <3>2. QED
      BY <3>1 DEF Refused
  <2>3. QED
    BY <2>1, <2>2
<1>5. Heir => Heir'
  BY <1>3, <1>4, HeirKept
<1>6. Inherited'
  BY <1>3, <1>5 DEF Owned, Inherited, Attachable
<1>7. LoopLive'
  BY <1>3 DEF Owned, LoopLive, Pending, Due, Live
<1>8. Fresh'
  BY <1>3 DEF Owned, Fresh
<1>9. QED
  BY <1>6, <1>7, <1>8 DEF Owned

\* A request that is served leaves what the daemon may end up with as it was, unless
\* it is a first attach that is refused, the last request there is.
LEMMA ServeKeepsOwned ==
  ASSUME FeedIInv, Owned, Serve
  PROVE  Owned'
<1> DEFINE r == Head(up)
<1>1. TypeOK /\ IdsApart /\ InLog /\ Attaches /\ att \in BOOLEAN
  BY DEF FeedIInv, TypeOK
<1>2. up \in Seq(Sent) /\ up # <<>> /\ down \in Seq(Lines)
  BY <1>1 DEF TypeOK, Serve
<1>3. /\ Len(Tail(up)) = Len(up) - 1 /\ Len(up) \in Nat /\ Len(up) >= 1
      /\ r = up[1] /\ r \in Sent
      /\ \A i \in 1..Len(Tail(up)) : Tail(up)[i] = up[i + 1] /\ i + 1 \in 1..Len(up)
      /\ Len(up) = 1 => Tail(up) = <<>>
  BY <1>2, RestFacts
<1>4. /\ up' = Tail(up) /\ UNCHANGED <<chan, todo, pend, cont, handle, orphaned>>
      /\ r.method = "attach" => ServeAttach(r)
      /\ r.method # "attach" => ServeRelease(r)
  BY DEF Serve, callVars, handleVars
<1>5. r.since < log /\ r.id \in Nat /\ 1 \in 1..Len(up)
  <2>1. 1 \in 1..Len(up)
    BY <1>3
  <2>2. QED
    BY <1>1, <1>3, <2>1 DEF InLog, Sent
<1> HIDE DEF r
<1>6. PICK L : down' = down \o L /\ Answers(L, r, att, att', log)
  <2>1. CASE r.method = "attach"
    BY <1>1, <1>3, <1>4, <1>5, <2>1, AttachAnswers
  <2>2. CASE r.method # "attach"
    BY <1>1, <1>3, <1>4, <1>5, <2>2, ReleaseAnswers
  <2>3. QED
    BY <2>1, <2>2
<1>7. /\ L \in Seq(Lines) /\ Len(L) >= 1 /\ L[Len(L)].t = "result" /\ L[Len(L)].id = r.id
      /\ \A i \in 1..Len(L) : i # Len(L) => L[i].t # "result"
  BY <1>6, Zenon DEF Answers
<1>8. /\ Len(down') = Len(down) + Len(L) /\ Len(down) \in Nat /\ Len(L) \in Nat
      /\ \A i \in 1..Len(down) : down'[i] = down[i]
      /\ \A i \in 1..Len(L) : down'[Len(down) + i] = L[i]
      /\ \A i \in 1..Len(down') : i \in 1..Len(down) \/ \E k \in 1..Len(L) : i = Len(down) + k
  <2>1. Joined(down', down, L)
    BY <1>2, <1>6, <1>7, JoinedLines
  <2>2. QED
    BY <2>1 DEF Joined
<1>9. ASSUME NEW n, Refused(n)' PROVE Refused(n) \/ (r.id = n /\ ~down'[Len(down')].ok)
  <2>1. PICK i \in 1..Len(down') : down'[i].t = "result" /\ down'[i].id = n /\ ~down'[i].ok
    BY <1>9 DEF Refused
  <2>2. CASE i \in 1..Len(down)
    BY <1>8, <2>1, <2>2 DEF Refused
  <2>3. ASSUME NEW k \in 1..Len(L), i = Len(down) + k PROVE r.id = n /\ ~down'[Len(down')].ok
    <3>1. down'[i] = L[k]
      BY <1>8, <2>3
    <3>2. k = Len(L)
      BY <1>7, <2>1, <3>1
    <3>3. i = Len(down')
      BY <1>8, <2>3, <3>2
    <3>4. QED
      BY <1>7, <2>1, <3>1, <3>2, <3>3
  <2>4. QED
    BY <1>8, <2>2, <2>3
<1>10. Attachable(up', att') => Attachable(up, att)
  <2>1. att' => r.method = "attach" \/ (att /\ r.method # "detach")
    BY <1>4 DEF ServeAttach, ServeRelease
  <2>2. ASSUME NEW m \in 0..Len(up'), \A j \in (m + 1)..Len(up') : up'[j].method # "detach"
        PROVE  \A j \in (m + 2)..Len(up) : up[j].method # "detach"
    <3> SUFFICES ASSUME NEW j \in (m + 2)..Len(up) PROVE up[j].method # "detach"
      OBVIOUS
    <3>1. j - 1 \in 1..Len(up') /\ j - 1 \in (m + 1)..Len(up') /\ (j - 1) + 1 = j
      BY <1>3, <1>4, <2>2
    <3>2. up'[j - 1] = up[j]
      BY <1>3, <1>4, <3>1
    <3>3. QED
      BY <2>2, <3>1, <3>2
  <2>3. CASE att' /\ \A j \in 1..Len(up') : up'[j].method # "detach"
    <3>1. 0 \in 0..Len(up')
      BY <1>3, <1>4
    <3>2. \A j \in 2..Len(up) : up[j].method # "detach"
      BY <2>2, <2>3, <3>1
    <3>3. CASE r.method = "attach"
      <4>1. up[1].method = "attach" /\ \A j \in (1 + 1)..Len(up) : up[j].method # "detach"
        BY <1>3, <3>2, <3>3
      <4>2. QED
        BY <1>5, <4>1 DEF Attachable
    <3>4. CASE att /\ r.method # "detach"
      <4>1. \A j \in 1..Len(up) : j = 1 \/ j \in 2..Len(up)
        BY <1>3
      <4>2. \A j \in 1..Len(up) : up[j].method # "detach"
        BY <1>3, <3>2, <3>4, <4>1
      <4>3. QED
        BY <3>4, <4>2, Zenon DEF Attachable
    <3>5. QED
      BY <2>1, <2>3, <3>3, <3>4
  <2>4. ASSUME NEW i \in 1..Len(up'), up'[i].method = "attach", \A j \in (i + 1)..Len(up') : up'[j].method # "detach"
        PROVE  Attachable(up, att)
    <3>1. i \in 0..Len(up') /\ i + 1 \in 1..Len(up) /\ up'[i] = up[i + 1] /\ (i + 1) + 1 = i + 2
      BY <1>3, <1>4
    <3>2. \A j \in (i + 2)..Len(up) : up[j].method # "detach"
      BY <2>2, <2>4, <3>1
    <3>3. QED
      BY <2>4, <3>1, <3>2 DEF Attachable
  <2>5. QED
    BY <2>3, <2>4 DEF Attachable
<1>11. Inherited'
  <2> SUFFICES ASSUME Attachable(up', att'), ~orphaned PROVE Heir'
    BY <1>4 DEF Inherited
  <2>1. Heir
    BY <1>10 DEF Owned, Inherited
  <2>2. ASSUME NEW h \in Handles, Pending(h, {"attach"}), Refused(pend[h].id)' PROVE Refused(pend[h].id)
    <3>1. PICK n : n = pend[h].id
      OBVIOUS
    <3>2. Refused(n)'
      BY <1>4, <2>2, <3>1 DEF Refused
    <3>3. Asked(n)
      <4>1. Asked(n) \/ Served(n)
        BY <1>1, <2>2, <3>1 DEF Attaches
      <4>2. QED
        BY <1>2, <4>1 DEF Served
    <3>4. CASE Refused(n)
      BY <3>1, <3>4
    <3>5. CASE r.id = n /\ ~down'[Len(down')].ok
      <4>1. Len(up) = 1
        <5>0. r.id = n
          BY <3>5, Zenon
        <5>1. up[1].id = n /\ \A i \in 1..(Len(up) - 1) : up[i].id # n
          BY <1>3, <3>3, <5>0 DEF Asked
        <5>2. 1 \notin 1..(Len(up) - 1)
          BY <5>1
        <5>3. PICK m \in Nat : m = Len(up)
          BY <1>3
        <5>4. m >= 1 /\ 1 \notin 1..(m - 1)
          BY <1>3, <5>2, <5>3
        <5>5. m = 1
          BY <5>4
        <5>6. QED
          BY <5>3, <5>5
      <4>2. r.method = "attach" /\ up' = <<>> /\ Len(up') = 0
        BY <1>3, <1>4, <3>3, <4>1 DEF Asked
      <4>3. ~att'
        BY <1>1, <1>3, <1>4, <1>5, <3>5, <4>2, AttachSays
      <4>4. QED
        BY <4>2, <4>3 DEF Attachable
    <3>6. QED
      BY <1>9, <3>2, <3>4, <3>5
  <2>3. QED
    BY <1>4, <2>1, <2>2, HeirKept
<1>12. LoopLive'
  BY <1>4 DEF Owned, LoopLive, Pending, Due, Live
<1>13. Fresh'
  BY <1>2, <1>4 DEF Owned, Fresh
<1>14. QED
  BY <1>11, <1>12, <1>13 DEF Owned

\* A call of the user with a live handle, or a first attach, has an heir.
LEMMA UserCallKeepsOwned ==
  ASSUME FeedIInv, Owned, NEW h \in Handles, NEW op \in {"attach", "acquire", "release"},
         NEW m, NEW md, NEW force, NEW since,
         UserReady(h), Call(h, op, m, md, force, since), op # "attach" => h \in Live,
         UNCHANGED <<daemonVars, down, chan, todo, cont, handleVars, drops, early, orphaned>>
  PROVE  Owned'
<1>1. TypeOK /\ IdsApart /\ calls \in Nat
  BY TypeKept DEF FeedIInv
<1>2. /\ chan = "up" /\ cont = <<>> /\ cont' = <<>> /\ Len(cont') = 0
      /\ UNCHANGED <<att, down, chan, todo, handle, orphaned>> /\ Live' = Live
  BY LiveKept DEF UserReady, daemonVars, handleVars
<1>3. pend \in [Handles -> Calls \union {NoCall}]
  BY <1>1 DEF TypeOK
<1>4. pend'[h].op = op /\ pend'[h].id = calls + 1 /\ \A g \in Handles : g # h => pend'[g] = pend[g]
  BY <1>3 DEF Call
<1>5. Heir'
  <2>1. CASE op # "attach"
    BY <1>2, <2>1 DEF Heir
  <2>2. CASE op = "attach"
    <3>1. \A i \in 1..Len(down) : down[i].t = "result" => down[i].id <= calls
      BY <1>1 DEF IdsApart
    <3>2. PICK n : n = calls + 1
      OBVIOUS
    <3>3. \A i \in 1..Len(down) : down[i].t = "result" => down[i].id # n
      <4>1. \A i \in 1..Len(down) : down[i].t = "result" => down[i].id \in Nat
        BY <1>1, TypeKept, LineFacts
      <4>2. QED
        BY <1>1, <3>1, <3>2, <4>1
    <3>4. ~Refused(n)'
      BY <1>2, <3>3 DEF Refused
    <3>5. Pending(h, {"attach"})' /\ pend'[h].id = n
      BY <1>4, <2>2, <3>2 DEF Pending
    <3>6. ~Refused(pend[h].id)'
      BY <3>4, <3>5 DEF Refused
    <3>7. QED
      BY <3>5, <3>6 DEF Heir
  <2>3. QED
    BY <2>1, <2>2
<1>6. LoopLive'
  <2>1. \A g \in Handles : Pending(g, Loop)' => Pending(g, Loop)
    BY <1>4 DEF Pending, Loop
  <2>2. QED
    BY <1>2, <2>1 DEF Owned, LoopLive
<1>7. Fresh'
  BY <1>2 DEF Owned, Fresh
<1>8. QED
  BY <1>5, <1>6, <1>7 DEF Owned, Inherited

\* A detach is sent behind everything that could attach, unless the connection is
\* new and holds nothing yet, or the loop has re-attached the handle.
LEMMA DetachKeepsOwned ==
  ASSUME FeedIInv, Owned, NEW h \in Handles, Detach(h)
  PROVE  Owned'
<1>1. TypeOK /\ OneLive /\ up \in Seq(Sent) /\ handle \in [Handles -> {"none", "live", "detached"}]
  BY DEF FeedIInv, TypeOK
<1>2. /\ cont = <<>> /\ cont' = <<>> /\ Len(cont') = 0 /\ h \in Live
      /\ UNCHANGED <<att, chan, todo, pend>>
      /\ handle' = [handle EXCEPT ![h] = "detached"]
      /\ chan = "up" => up' = Append(up, Request("detach", 0, "read", FALSE, -2))
      /\ chan # "up" => up' = up
      /\ orphaned' = (orphaned \/ (chan = "opening" /\ h \notin todo))
  BY DEF Detach, Live, daemonVars, callVars
<1>3. \A g \in Live : g # h => g \in Live'
  BY <1>1, <1>2 DEF Live
<1>4. Inherited'
  <2>1. CASE chan = "up"
    <3> DEFINE e == Request("detach", 0, "read", FALSE, -2)
    <3>1. e \in Sent /\ e.method = "detach"
      BY FeedAssumption DEF Sent, Modes, Request
    <3>0. up' = Append(up, e)
      BY <1>2, <2>1
    <3> HIDE DEF e
    <3>2. /\ Len(up') = Len(up) + 1 /\ up'[Len(up) + 1] = e /\ Len(up) \in Nat
          /\ \A i \in 1..Len(up') : i \in 1..Len(up) \/ i = Len(up) + 1
      BY <1>1, <3>0, <3>1, SnocFacts
    <3>3. PICK n \in Nat : n = Len(up)
      BY <3>2
    <3>4. /\ Len(up') = n + 1 /\ up'[n + 1].method = "detach"
          /\ \A i \in 1..Len(up') : i \in 1..n \/ i = n + 1
      BY <3>1, <3>2, <3>3
    <3>5. ASSUME NEW i \in 1..Len(up'), up'[i].method = "attach"
          PROVE  \E j \in (i + 1)..Len(up') : up'[j].method = "detach"
      <4>1. i # n + 1
        BY <3>4, <3>5
      <4>2. n + 1 \in (i + 1)..Len(up')
        BY <3>3, <3>4, <4>1
      <4>3. QED
        BY <3>4, <4>2
    <3>6. \E j \in 1..Len(up') : up'[j].method = "detach"
      <4>1. n + 1 \in 1..Len(up')
        BY <3>3, <3>4
      <4>2. QED
        BY <3>4, <4>1
    <3>7. QED
      BY <3>5, <3>6, Zenon DEF Inherited, Attachable
  <2>2. CASE chan = "down" \/ (chan = "opening" /\ h \in todo)
    <3>1. ~att /\ up = <<>>
      BY <2>2 DEF Owned, Fresh
    <3>2. ~att' /\ Len(up') = 0
      BY <1>2, <2>2, <3>1
    <3>3. QED
      BY <3>2 DEF Inherited, Attachable
  <2>3. CASE chan = "opening" /\ h \notin todo
    BY <1>2, <2>3 DEF Inherited
  <2>4. QED
    BY <1>1, <2>1, <2>2, <2>3 DEF TypeOK
<1>5. LoopLive'
  <2>1. ASSUME NEW g \in Handles, Pending(g, Loop)' PROVE orphaned' \/ g \in Live'
    <3>1. Pending(g, Loop)
      BY <1>2, <2>1 DEF Pending
    <3>2. chan = "opening" /\ Live \subseteq {g} /\ g \notin todo
      BY <1>1, <3>1 DEF OneLive
    <3>3. QED
      BY <1>2, <3>2
  <2>2. QED
    BY <1>2, <2>1 DEF LoopLive
<1>6. Fresh'
  BY <1>2 DEF Owned, Fresh
<1>7. QED
  BY <1>4, <1>5, <1>6 DEF Owned

\* The deadline of a call that asks for no attachment takes nothing away.
LEMMA CallTimesOutKeepsOwned ==
  ASSUME FeedIInv, Owned, NEW h \in Handles, CallTimesOut(h)
  PROVE  Owned'
<1>1. TypeOK /\ pend \in [Handles -> Calls \union {NoCall}]
  BY DEF FeedIInv, TypeOK
<1>2. /\ cont = <<>> /\ UNCHANGED <<att, up, down, chan, todo, cont>> /\ pend[h] # NoCall
      /\ pend' = [pend EXCEPT ![h] = NoCall]
      /\ orphaned' = (orphaned \/ pend[h].op \in {"attach", "reattach", "retry"})
      /\ TornDown(IF pend[h].op \in {"reattach", "retry"} THEN {h} \intersect Live ELSE {})
  BY DEF CallTimesOut, daemonVars, wireVars
<1>3. Fresh'
  BY <1>2 DEF Owned, Fresh
<1>4. CASE pend[h].op \in {"attach", "reattach", "retry"}
  <2>1. orphaned'
    BY <1>2, <1>4
  <2>2. QED
    BY <1>3, <2>1 DEF Owned, Inherited, LoopLive
<1>5. CASE pend[h].op \notin {"attach", "reattach", "retry"}
  <2>0. TornDown({}) /\ orphaned' = orphaned
    <3>1. pend[h].op \notin {"reattach", "retry"}
      BY <1>5
    <3>2. orphaned' = orphaned
      <4>1. (pend[h].op \in {"attach", "reattach", "retry"}) = FALSE
        BY <1>5
      <4>2. orphaned \in BOOLEAN
        BY <1>1 DEF TypeOK
      <4>3. QED
        BY <1>2, <4>1, <4>2
    <3>3. QED
      BY <1>2, <3>1, <3>2
  <2>1. handle' = [g \in Handles |-> IF g \in {} THEN "detached" ELSE handle[g]] /\ orphaned' = orphaned
    BY <2>0 DEF TornDown
  <2>2. Live' = Live
    BY <2>1 DEF Live
  <2>3. \A g \in Handles : (g # h => pend'[g] = pend[g]) /\ (g = h => pend'[g] = NoCall)
    BY <1>1, <1>2
  <2>4. ASSUME NEW g \in Handles, Pending(g, {"attach"}), ~Refused(pend[g].id)
        PROVE  Pending(g, {"attach"})' /\ ~Refused(pend[g].id)'
    <3>1. g # h
      BY <1>5, <2>4 DEF Pending
    <3>2. pend'[g] = pend[g]
      BY <2>3, <3>1
    <3>3. QED
      BY <1>2, <2>4, <3>2 DEF Pending, Refused
  <2>5. \A i \in 1..Len(cont) : Due(i, {"attach"}) /\ cont[i].ok => Due(i, {"attach"})' /\ cont'[i].ok /\ i \in 1..Len(cont')
    BY <1>2 DEF Due
  <2>6. Heir => Heir'
    BY <2>2, <2>4, <2>5 DEF Heir
  <2>7. Inherited'
    BY <1>2, <2>1, <2>6 DEF Owned, Inherited, Attachable
  <2>8. \A g \in Handles : Pending(g, Loop)' => Pending(g, Loop)
    BY <2>3 DEF Pending, Loop, NoCall
  <2>9. LoopLive'
    BY <1>2, <2>1, <2>2, <2>8 DEF Owned, LoopLive, Due
  <2>10. QED
    BY <1>3, <2>7, <2>9 DEF Owned
<1>6. QED
  BY <1>4, <1>5

\* The attachment ends with the stream, and the loop of the next one begins with
\* nothing.
LEMMA ChannelKeepsOwned ==
  ASSUME FeedIInv, Owned, StreamLost \/ Reconnected \/ ReattachOver
  PROVE  Owned'
<1>1. TypeOK /\ OneLive
  BY DEF FeedIInv
<1>2. CASE StreamLost
  <2>1. /\ ~att' /\ Len(up') = 0 /\ cont' = <<>> /\ Len(cont') = 0 /\ up' = <<>> /\ todo' = {}
        /\ \A g \in Handles : pend'[g] = NoCall
    BY <1>2 DEF StreamLost
  <2>2. Inherited'
    BY <2>1 DEF Inherited, Attachable
  <2>3. LoopLive'
    BY <2>1 DEF LoopLive, Pending, Loop, NoCall
  <2>4. Fresh'
    BY <2>1 DEF Fresh
  <2>5. QED
    BY <2>2, <2>3, <2>4 DEF Owned
<1>3. CASE Reconnected \/ ReattachOver
  <2>1. UNCHANGED <<att, up, down, pend, cont, handle, orphaned>>
    BY <1>3 DEF Reconnected, ReattachOver, daemonVars, wireVars, callVars, handleVars
  <2>2. Live' = Live /\ (Heir => Heir')
    BY <2>1, LiveKept DEF Heir, Pending, Refused, Due
  <2>3. Inherited' /\ LoopLive'
    BY <2>1, <2>2 DEF Owned, Inherited, Attachable, LoopLive, Pending, Due
  <2>4. Fresh'
    <3>1. CASE Reconnected
      <4>1. chan = "down" /\ todo' = Live
        BY <3>1 DEF Reconnected
      <4>2. ~att /\ up = <<>> /\ cont = <<>> /\ \A h \in Handles : pend[h] = NoCall
        BY <4>1 DEF Owned, Fresh
      <4>3. \A g, h \in todo' : g = h
        BY <1>1, <4>1 DEF OneLive
      <4>4. QED
        BY <2>1, <4>2, <4>3 DEF Fresh
    <3>2. CASE ReattachOver
      BY <3>2 DEF Fresh, ReattachOver
    <3>3. QED
      BY <1>3, <3>1, <3>2
  <2>5. QED
    BY <2>3, <2>4 DEF Owned
<1>4. QED
  BY <1>2, <1>3

\* The loop re-attaches a handle that is live.
LEMMA ReattachNextKeepsOwned ==
  ASSUME FeedIInv, Owned, NEW h \in Handles, ReattachNext(h)
  PROVE  Owned'
<1>1. TypeOK /\ pend \in [Handles -> Calls \union {NoCall}]
  BY DEF FeedIInv, TypeOK
<1>2. /\ UNCHANGED <<att, down, chan, cont, handle, orphaned>> /\ todo' = todo \ {h} /\ h \in todo
      /\ chan = "opening" /\ cont = <<>>
  BY DEF ReattachNext, LoopIdle, daemonVars, handleVars
<1>3. Live' = Live
  BY <1>2, LiveKept
<1>4. Fresh'
  <2>1. \A g \in todo : g = h
    BY <1>2 DEF Owned, Fresh
  <2>2. todo' = {}
    BY <1>2, <2>1
  <2>3. QED
    BY <1>2, <2>2 DEF Fresh
<1>5. CASE h \in Live
  <2>1. Inherited'
    BY <1>3, <1>5 DEF Inherited, Heir
  <2>2. \A g \in Handles : g # h => pend'[g] = pend[g]
    BY <1>1, <1>5 DEF ReattachNext, Call
  <2>3. \A g \in Handles : Pending(g, Loop)' => g = h \/ Pending(g, Loop)
    BY <2>2 DEF Pending
  <2>4. LoopLive'
    BY <1>2, <1>3, <1>5, <2>3 DEF Owned, LoopLive, Due
  <2>5. QED
    BY <1>4, <2>1, <2>4 DEF Owned
<1>6. CASE h \notin Live
  <2>1. UNCHANGED <<pend, up>>
    BY <1>6 DEF ReattachNext
  <2>2. Heir => Heir'
    BY <1>2, <1>3, <2>1 DEF Heir, Pending, Refused, Due
  <2>3. Inherited' /\ LoopLive'
    BY <1>2, <1>3, <2>1, <2>2 DEF Owned, Inherited, Attachable, LoopLive, Pending, Due
  <2>4. QED
    BY <1>4, <2>3 DEF Owned
<1>7. QED
  BY <1>5, <1>6

\* A response hands the claim of a first attach from its call to its continuation.
LEMMA ReceiveKeepsOwned ==
  ASSUME FeedIInv, Owned, Receive
  PROVE  Owned'
<1>1. TypeOK /\ down \in Seq(Lines) /\ down # <<>> /\ cont \in Seq(Settled)
  BY DEF FeedIInv, TypeOK, Receive, Settled
<1>2. Taken
  BY ReceiveKeeps
<1>3. /\ UNCHANGED <<att, up, chan, todo, orphaned>>
      /\ Head(down) = down[1] /\ down[1] \in Lines /\ 1 \in 1..Len(down)
      /\ \A i \in 1..Len(down') : down'[i] = down[i + 1] /\ i + 1 \in 1..Len(down)
  BY <1>1, <1>2, TakenFacts DEF Taken, daemonVars
<1>4. down[1].t \in {"event", "control", "result"}
  BY <1>3, LineFacts
<1>5. \A n : Refused(n)' => Refused(n)
  BY <1>3 DEF Refused
<1>6. CASE down[1].t # "result"
  <2>1. UNCHANGED <<pend, cont, handle>>
    BY <1>3, <1>4, <1>6 DEF Receive, Deliver, ControlChanged, callVars
  <2>2. Live' = Live /\ (Heir => Heir')
    BY <1>5, <2>1, LiveKept, HeirKept
  <2>3. Inherited' /\ LoopLive' /\ Fresh'
    BY <1>3, <2>1, <2>2 DEF Owned, Inherited, Attachable, LoopLive, Fresh, Pending, Due
  <2>4. QED
    BY <2>3 DEF Owned
<1>7. CASE down[1].t = "result"
  <2>1. Answered(down[1])
    BY <1>3, <1>7 DEF Receive
  <2>2. UNCHANGED handle /\ Live' = Live
    BY <2>1, LiveKept DEF Answered, handleVars
  <2>3. \A g \in Handles : pend'[g] = pend[g] \/ (pend'[g] = NoCall /\ pend[g] # NoCall /\ pend[g].id = down[1].id)
    BY <1>2, <1>7, <2>1, AnsweredFacts
  <2>4. CASE cont' = cont /\ pend' = pend
    <3>1. Heir => Heir'
      BY <1>5, <2>2, <2>4, HeirKept
    <3>2. Inherited' /\ LoopLive' /\ Fresh'
      BY <1>3, <2>2, <2>4, <3>1 DEF Owned, Inherited, Attachable, LoopLive, Fresh, Pending, Due
    <3>3. QED
      BY <3>2 DEF Owned
  <2>5. ASSUME NEW h \in Handles, pend[h] # NoCall, pend[h].id = down[1].id, pend'[h] = NoCall,
               \A g \in Handles : g # h => pend'[g] = pend[g],
               cont' = Append(cont, [h |-> h, call |-> pend[h], ok |-> down[1].ok, last |-> down[1].last]),
               [h |-> h, call |-> pend[h], ok |-> down[1].ok, last |-> down[1].last] \in Settled
        PROVE  Owned'
    <3> DEFINE k == [h |-> h, call |-> pend[h], ok |-> down[1].ok, last |-> down[1].last]
    <3>1. k.h = h /\ k.call = pend[h] /\ k.ok = down[1].ok
      OBVIOUS
    <3>2. k \in Settled /\ cont' = Append(cont, k)
      BY <2>5
    <3> HIDE DEF k
    <3>3. /\ Len(cont') = Len(cont) + 1 /\ cont'[Len(cont) + 1] = k /\ Len(cont) \in Nat
          /\ \A i \in 1..Len(cont) : cont'[i] = cont[i] /\ i \in 1..Len(cont')
          /\ \A i \in 1..Len(cont') : i \in 1..Len(cont) \/ i = Len(cont) + 1
          /\ cont' # <<>>
      BY <1>1, <3>2, SnocFacts
    <3>4. PICK n : n = Len(cont) + 1
      OBVIOUS
    <3>5. /\ n \in 1..Len(cont') /\ cont'[n] = k
          /\ \A i \in 1..Len(cont') : i \in 1..Len(cont) \/ i = n
      BY <3>3, <3>4
    <3>6. Heir => Heir'
      <4>1. CASE Live # {}
        BY <2>2, <4>1 DEF Heir
      <4>2. ASSUME NEW g \in Handles, Pending(g, {"attach"}), ~Refused(pend[g].id) PROVE Heir'
        <5>1. CASE g # h
          <6>1. pend'[g] = pend[g]
            BY <2>5, <5>1
          <6>2. Pending(g, {"attach"})' /\ ~Refused(pend[g].id)'
            BY <1>5, <4>2, <6>1 DEF Pending, Refused
          <6>3. QED
            BY <6>2 DEF Heir
        <5>2. CASE g = h
          <6>1. down[1].ok
            BY <1>3, <1>7, <2>5, <4>2, <5>2 DEF Refused
          <6>2. cont'[n].ok
            BY <3>1, <3>5, <6>1
          <6>3. Due(n, {"attach"})'
            BY <3>1, <3>5, <4>2, <5>2 DEF Due, Pending
          <6>4. QED
            BY <3>5, <6>2, <6>3 DEF Heir
        <5>3. QED
          BY <5>1, <5>2
      <4>3. ASSUME NEW i \in 1..Len(cont), Due(i, {"attach"}), cont[i].ok PROVE Heir'
        <5>1. i \in 1..Len(cont') /\ cont'[i] = cont[i]
          BY <3>3
        <5>2. Due(i, {"attach"})' /\ cont'[i].ok
          BY <4>3, <5>1 DEF Due
        <5>3. QED
          BY <5>1, <5>2 DEF Heir
      <4>4. QED
        BY <4>1, <4>2, <4>3 DEF Heir
    <3>7. Inherited'
      BY <1>3, <3>6 DEF Owned, Inherited, Attachable
    <3>8. LoopLive'
      <4>1. \A g \in Handles : Pending(g, Loop)' => Pending(g, Loop)
        BY <2>3 DEF Pending, Loop, NoCall
      <4>2. ASSUME NEW i \in 1..Len(cont'), Due(i, Loop)' PROVE orphaned \/ cont'[i].h \in Live
        <5>1. CASE i \in 1..Len(cont)
          <6>1. cont'[i] = cont[i]
            BY <3>3, <5>1
          <6>2. Due(i, Loop)
            BY <4>2, <6>1 DEF Due
          <6>3. QED
            BY <5>1, <6>1, <6>2 DEF Owned, LoopLive
        <5>2. CASE i = n
          <6>1. Pending(h, Loop)
            BY <3>1, <3>5, <4>2, <5>2 DEF Due, Pending
          <6>2. QED
            BY <3>1, <3>5, <5>2, <6>1 DEF Owned, LoopLive
        <5>3. QED
          BY <3>5, <5>1, <5>2
      <4>3. QED
        BY <1>3, <2>2, <4>1, <4>2 DEF Owned, LoopLive
    <3>9. Fresh'
      BY <1>3, <2>5 DEF Owned, Fresh
    <3>10. QED
      BY <3>7, <3>8, <3>9 DEF Owned
  <2>6. QED
    BY <1>2, <1>7, <2>1, <2>4, <2>5, AnsweredFacts
<1>8. QED
  BY <1>6, <1>7

\* A continuation makes its handle live, gives up a claim that was refused, or asks
\* again for a handle that is live.
LEMMA ContinueKeepsOwned ==
  ASSUME FeedIInv, Owned, Continue
  PROVE  Owned'
<1>1. TypeOK /\ OneLive
  BY DEF FeedIInv
<1>2. Resumed
  BY DEF Continue, Resumed
<1>3. /\ UNCHANGED <<att, down, chan, todo, orphaned>>
      /\ cont # <<>> /\ Head(cont) = cont[1] /\ 1 \in 1..Len(cont) /\ cont[1].h \in Handles
      /\ \A i \in 1..Len(cont') : cont'[i] = cont[i + 1] /\ i + 1 \in 1..Len(cont)
      /\ Len(cont') = Len(cont) - 1 /\ Len(cont) \in Nat
  BY <1>1, <1>2, ResumedFacts DEF Resumed, daemonVars, Settled
<1>4. Fresh'
  BY <1>3 DEF Owned, Fresh
<1>5. \A i \in 1..Len(cont) : i = 1 \/ \E j \in 1..Len(cont') : i = j + 1
  <2> SUFFICES ASSUME NEW i \in 1..Len(cont), i # 1 PROVE i - 1 \in 1..Len(cont') /\ i = (i - 1) + 1
    OBVIOUS
  <2>1. PICK n \in Nat : n = Len(cont)
    BY <1>3
  <2>2. i \in 1..n /\ Len(cont') = n - 1
    BY <1>3, <2>1
  <2>3. QED
    BY <2>2
<1>6. ASSUME UNCHANGED <<handle, pend>>, ~(Due(1, {"attach"}) /\ cont[1].ok)
      PROVE  Heir => Heir'
  <2>1. Live' = Live
    BY <1>6, LiveKept
  <2>2. ASSUME NEW i \in 1..Len(cont), Due(i, {"attach"}), cont[i].ok PROVE Heir'
    <3>1. PICK j \in 1..Len(cont') : i = j + 1
      BY <1>5, <1>6, <2>2, Zenon
    <3>2. cont'[j] = cont[i]
      BY <1>3, <3>1
    <3>3. Due(j, {"attach"})' /\ cont'[j].ok
      BY <2>2, <3>2 DEF Due
    <3>4. QED
      BY <3>3 DEF Heir
  <2>3. ASSUME NEW h \in Handles, Pending(h, {"attach"}), ~Refused(pend[h].id) PROVE Heir'
    <3>1. Pending(h, {"attach"})' /\ ~Refused(pend[h].id)'
      BY <1>3, <1>6, <2>3 DEF Pending, Refused
    <3>2. QED
      BY <3>1 DEF Heir
  <2>4. QED
    BY <2>1, <2>2, <2>3 DEF Heir
<1>7. \A i \in 1..Len(cont') : Due(i, Loop)' => \E j \in 1..Len(cont) : Due(j, Loop) /\ cont[j].h = cont'[i].h
  BY <1>3 DEF Due
<1>8. ASSUME UNCHANGED <<handle, pend, up>>, ~(Due(1, {"attach"}) /\ cont[1].ok) PROVE Owned'
  <2>1. Inherited'
    BY <1>3, <1>6, <1>8 DEF Owned, Inherited, Attachable
  <2>2. Live' = Live
    BY <1>8, LiveKept
  <2>3. LoopLive'
    BY <1>3, <1>7, <1>8, <2>2 DEF Owned, LoopLive, Pending
  <2>4. QED
    BY <1>4, <2>1, <2>3 DEF Owned
<1>9. CASE AttachContinues(cont[1])
  <2>1. Due(1, {"attach"}) /\ pend' = pend /\ up' = up
    BY <1>9 DEF AttachContinues, Due
  <2>2. CASE cont[1].ok
    <3>1. handle' = [handle EXCEPT ![cont[1].h] = "live"] /\ handle \in [Handles -> {"none", "live", "detached"}]
      BY <1>1, <1>9, <2>2 DEF AttachContinues, TypeOK
    <3>2. cont[1].h \in Live'
      BY <1>3, <3>1 DEF Live
    <3>3. Heir'
      BY <3>2 DEF Heir
    <3>4. chan = "up"
      BY <1>1, <1>3, <2>1 DEF OneLive
    <3>5. /\ \A h \in Handles : ~Pending(h, Loop)
          /\ \A i \in 1..Len(cont) : ~Due(i, Loop)
      BY <1>1, <3>4 DEF OneLive
    <3>6. LoopLive'
      BY <1>7, <2>1, <3>5 DEF LoopLive, Pending
    <3>7. QED
      BY <1>4, <3>3, <3>6 DEF Owned, Inherited
  <2>3. CASE ~cont[1].ok
    <3>1. UNCHANGED <<handle, pend, up>>
      BY <1>9, <2>3 DEF AttachContinues
    <3>2. QED
      BY <1>8, <2>3, <3>1
  <2>4. QED
    BY <2>2, <2>3
<1>10. CASE AcquireContinues(cont[1]) \/ ReleaseContinues(cont[1]) \/ RetryContinues(cont[1])
  <2>1. UNCHANGED <<handle, pend, up>> /\ cont[1].call.op # "attach"
    BY <1>10 DEF AcquireContinues, ReleaseContinues, RetryContinues
  <2>2. QED
    BY <1>8, <2>1 DEF Due
<1>11. CASE ReattachContinues(cont[1])
  <2>1. cont[1].call.op = "reattach" /\ handle' = handle /\ Live' = Live
    BY <1>11, LiveKept DEF ReattachContinues, handleVars
  <2>2. orphaned \/ cont[1].h \in Live
    BY <1>3, <2>1 DEF Owned, LoopLive, Due, Loop
  <2>3. CASE cont[1].ok
    <3>1. UNCHANGED <<pend, up>>
      BY <1>11, <2>3 DEF ReattachContinues
    <3>2. QED
      BY <1>8, <2>1, <3>1 DEF Due
  <2>4. CASE ~cont[1].ok
    <3>1. Inherited'
      BY <1>3, <2>1, <2>2 DEF Inherited, Heir
    <3>2. pend \in [Handles -> Calls \union {NoCall}]
      BY <1>1 DEF TypeOK
    <3>3. \A g \in Handles : g # cont[1].h => pend'[g] = pend[g]
      BY <1>11, <2>4, <3>2 DEF ReattachContinues, Call
    <3>4. \A g \in Handles : Pending(g, Loop)' => g = cont[1].h \/ Pending(g, Loop)
      BY <3>3 DEF Pending
    <3>5. LoopLive'
      BY <1>3, <1>7, <2>1, <2>2, <3>4 DEF Owned, LoopLive
    <3>6. QED
      BY <1>4, <3>1, <3>5 DEF Owned
  <2>5. QED
    BY <2>3, <2>4
<1>12. QED
  BY <1>3, <1>9, <1>10, <1>11 DEF Continue

\* It holds at first ...
LEMMA OwnedInit == Init => Owned
<1> SUFFICES ASSUME Init PROVE Owned
  OBVIOUS
<1>1. /\ ~att /\ Len(up) = 0 /\ Len(cont) = 0 /\ up = <<>> /\ cont = <<>> /\ todo = {}
      /\ \A h \in Handles : pend[h] = NoCall
  BY DEF Init
<1>2. Inherited
  BY <1>1 DEF Inherited, Attachable
<1>3. LoopLive /\ Fresh
  BY <1>1 DEF LoopLive, Fresh, Pending, Loop, NoCall
<1>4. QED
  BY <1>2, <1>3 DEF Owned

\* ... and every step keeps it.
LEMMA OwnedStep == FeedIInv /\ Owned /\ [Next]_vars => Owned'
<1> SUFFICES ASSUME FeedIInv, Owned, [Next]_vars PROVE Owned'
  OBVIOUS
<1>1. CASE DaemonEvent \/ RivalTakes \/ LeaseFreed
  BY <1>1, PushKeepsOwned
<1>2. CASE Serve
  BY <1>2, ServeKeepsOwned
<1>3. ASSUME NEW h \in Handles, UserStep(h) PROVE Owned'
  <2>1. ASSUME NEW md \in {"read", "write"}, NEW force \in BOOLEAN, AttachCall(h, md, force) PROVE Owned'
    <3>1. UserReady(h) /\ Call(h, "attach", "attach", md, force, -2)
      BY <2>1 DEF AttachCall
    <3>2. UNCHANGED <<daemonVars, down, chan, todo, cont, handleVars, drops, early, orphaned>>
      BY <2>1 DEF AttachCall
    <3>3. QED
      BY <3>1, <3>2, UserCallKeepsOwned
  <2>2. ASSUME NEW force \in BOOLEAN, AcquireWrite(h, force) PROVE Owned'
    <3>1. UserReady(h) /\ h \in Live /\ Call(h, "acquire", "attach", "write", force, cursor[h])
      BY <2>2 DEF AcquireWrite, Live
    <3>2. UNCHANGED <<daemonVars, down, chan, todo, cont, handleVars, drops, early, orphaned>>
      BY <2>2 DEF AcquireWrite
    <3>3. QED
      BY <3>1, <3>2, UserCallKeepsOwned
  <2>3. CASE ReleaseControl(h)
    <3>1. UserReady(h) /\ h \in Live /\ Call(h, "release", "release", "read", FALSE, -2)
      BY <2>3 DEF ReleaseControl, Live
    <3>2. UNCHANGED <<daemonVars, down, chan, todo, cont, handleVars, drops, early, orphaned>>
      BY <2>3 DEF ReleaseControl
    <3>3. QED
      BY <3>1, <3>2, UserCallKeepsOwned
  <2>4. CASE Detach(h)
    BY <2>4, DetachKeepsOwned
  <2>5. CASE CallTimesOut(h)
    BY <2>5, CallTimesOutKeepsOwned
  <2>6. QED
    BY <1>3, <2>1, <2>2, <2>3, <2>4, <2>5 DEF UserStep
<1>4. CASE Receive
  BY <1>4, ReceiveKeepsOwned
<1>5. CASE Continue
  BY <1>5, ContinueKeepsOwned
<1>6. CASE StreamLost \/ Reconnected \/ ReattachOver
  BY <1>6, ChannelKeepsOwned
<1>7. ASSUME NEW h \in Handles, ReattachNext(h) PROVE Owned'
  BY <1>7, ReattachNextKeepsOwned
<1>8. CASE UNCHANGED vars
  <2>1. UNCHANGED <<att, up, down, chan, todo, pend, cont, handle, orphaned>>
    BY <1>8 DEF vars, daemonVars, wireVars, callVars, handleVars
  <2>2. Live' = Live /\ (Heir => Heir')
    BY <2>1, LiveKept DEF Heir, Pending, Refused, Due
  <2>3. Inherited' /\ LoopLive' /\ Fresh'
    BY <2>1, <2>2 DEF Owned, Inherited, Attachable, LoopLive, Fresh, Pending, Due
  <2>4. QED
    BY <2>3 DEF Owned
<1>9. QED
  BY <1>1, <1>2, <1>3, <1>4, <1>5, <1>6, <1>7, <1>8 DEF Next

\* When nothing is on its way, the daemon holds neither an attachment nor the lease
\* for a session without a handle, across detaches, refusals, preemptions, lost
\* channels and re-attaches, unless an attach or a re-attach timed out or a handle
\* was detached in the re-attach loop after its turn (handle.ts detach, client.ts
\* attach, connection.ts reattachAll).
THEOREM FeedNoOrphan == Spec => []NoOrphan
<1>1. Spec => []Owned
  BY FeedInvariant, OwnedInit, OwnedStep, PTL DEF Spec
<1>2. ModeIInv /\ Owned => NoOrphan
  <2> SUFFICES ASSUME ModeIInv, Owned, Quiet, Live = {}, ~orphaned PROVE ~att /\ lease # "me"
    BY DEF NoOrphan
  <2>1. TypeOK /\ LeaseTold
    BY DEF ModeIInv, FeedIInv, Granted
  <2>2. /\ Len(up) = 0 /\ Len(cont) = 0 /\ \A h \in Handles : pend[h] = NoCall
    BY DEF Quiet
  <2>3. ~Heir
    BY <2>2 DEF Heir, Pending, NoCall
  <2>4. ~Attachable(up, att)
    BY <2>3 DEF Owned, Inherited
  <2>5. ~att
    BY <2>2, <2>4 DEF Attachable
  <2>6. QED
    BY <2>1, <2>5 DEF LeaseTold
<1>3. QED
  BY <1>1, <1>2, ModeInvariant, PTL

=============================================================================
