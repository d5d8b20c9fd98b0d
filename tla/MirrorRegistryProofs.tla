------------------------ MODULE MirrorRegistryProofs ------------------------
(***************************************************************************)
(* Proofs about MirrorRegistry, for any sessions, any number of            *)
(* overlapping reconciles and callers, and any number of mirrors.          *)
(*                                                                         *)
(* The parts of the inductive invariant are operators of the values they   *)
(* relate, so that the lemmas about them are about values, not about       *)
(* steps.                                                                  *)
(***************************************************************************)
EXTENDS MirrorRegistry, FiniteSetTheorems, WellFoundedInduction, TLAPS

----------------------------------------------------------------------------
(* The inductive invariant *)

States == {"boot", "failed", "live", "releasing", "unwinding", "detaching", "gone"}
Pcs == {"idle", "over", "list", "sweep", "mirroring", "attaching", "attached", "teardown",
        "tearing", "creating", "created", "preparing", "listing", "acquiring", "borrowing",
        "borrowed", "forking", "forked", "own", "disposing", "disposed"}

HandleRec == [s : Sessions, mode : {"read", "write"}, detached : BOOLEAN]
MirrorRec == [s : Sessions, h : Nat, st : States, reads : BOOLEAN]
FlowRec == [pc : Pcs, op : {"none", "create", "resume", "fork"}, s : Sessions \cup {None},
            h : Nat, m : Nat, list : Seq(Sessions), seen : SUBSET Sessions]

Tearers == Reconciles \cup {Proxy}

\* Types.
ValuesOK ==
  /\ handles \in [Sessions -> Nat] /\ handle \in Seq(HandleRec)
  /\ mirrors \in [Sessions -> Nat] /\ inflight \in [Sessions -> Nat] /\ mirror \in Seq(MirrorRec)
  /\ flow \in [Flows -> FlowRec] /\ doomed \in [Tearers -> SUBSET (Sessions \X Nat)]

\* A published mirror was entered in the store once.
Entered(q, m) == q[m].st \notin {"boot", "failed"}

\* No mirror before m was published for its session.
FirstIn(q, m) == \A n \in DOMAIN q : n < m /\ Entered(q, n) => q[n].s # q[m].s

\* Handles and mirrors are of the session they are kept for.
HandlesOK(hs, k) == \A s \in Sessions : hs[s] # None => hs[s] \in DOMAIN k /\ k[hs[s]].s = s
MirrorsOK(q, k) == \A m \in DOMAIN q : q[m].h \in DOMAIN k /\ k[q[m].h].s = q[m].s

\* The bootstraps that run are those in flight, one per session and the last
\* mirror made for it.
InFlight(q, i) ==
  /\ \A s \in Sessions : i[s] # None => i[s] \in DOMAIN q /\ q[i[s]].s = s /\ q[i[s]].st = "boot"
  /\ \A m \in DOMAIN q : q[m].st = "boot" => i[q[m].s] = m
  /\ \A m, n \in DOMAIN q : q[m].st = "boot" /\ m < n => q[n].s # q[m].s

\* While a mirror is in the store no later one of its session is published.
StoreKept(q) ==
  \A m, n \in DOMAIN q :
    q[m].st \in {"live", "releasing"} /\ m < n /\ q[n].s = q[m].s => ~Entered(q, n)

\* RegistryTrue, for published mirrors.
Entries(q, reg, fl) ==
  \A s \in Sessions : reg[s] # None =>
    /\ reg[s] \in DOMAIN q /\ q[reg[s]].s = s /\ Entered(q, reg[s])
    /\ q[reg[s]].st = "live" \/ \E o \in Owners : fl[o].m = reg[s] /\ fl[o].pc = "disposing"

\* What a flow holds while it waits.
FlowOK(f, x, q, k) ==
  /\ x \in FlowRec
  /\ x.pc = "mirroring" => x.m \in DOMAIN q /\ x.h \in DOMAIN k /\ k[x.h].s = q[x.m].s
  /\ x.pc \in {"attaching", "attached", "creating", "created", "preparing", "listing", "acquiring",
               "forking", "forked"} => x.s \in Sessions
  /\ x.pc = "acquiring" => x.h \in DOMAIN k /\ k[x.h].s = x.s
  /\ x.pc \in {"borrowing", "borrowed"} => x.h \in DOMAIN k
  /\ f \in Owners /\ x.pc \in {"own", "disposing"} => x.m \in DOMAIN q /\ Entered(q, x.m)

FlowsOK(fl, q, k) == \A f \in Flows : FlowOK(f, fl[f], q, k)

\* What is to be torn down was published; the plugin's own list is of mirrors
\* that are registered no more.
DoomedOK(doo, q, reg) ==
  /\ \A r \in Tearers : \A d \in doo[r] : d[2] \in DOMAIN q /\ q[d[2]].s = d[1] /\ Entered(q, d[2])
  /\ \A d \in doo[Proxy] : reg[d[1]] # d[2]

\* The first mirror of a session hears the daemon while it boots, and is
\* registered and alone once it lives.
BootHears(q, k) ==
  \A m \in DOMAIN q : q[m].st = "boot" /\ q[m].reads /\ FirstIn(q, m) => ~k[q[m].h].detached
FirstKept(q, k, reg, i, dis) ==
  \A m \in DOMAIN q : q[m].st = "live" /\ FirstIn(q, m) =>
    dis \/ (reg[q[m].s] = m /\ i[q[m].s] = None /\ ~k[q[m].h].detached)

RegistryInv ==
  /\ ValuesOK
  /\ HandlesOK(handles, handle) /\ MirrorsOK(mirror, handle)
  /\ InFlight(mirror, inflight) /\ StoreKept(mirror)
  /\ Entries(mirror, mirrors, flow)
  /\ FlowsOK(flow, mirror, handle)
  /\ DoomedOK(doomed, mirror, mirrors)
  /\ BootHears(mirror, handle)
  /\ FirstKept(mirror, handle, mirrors, inflight, disposed)

----------------------------------------------------------------------------
(* Values *)

\* A set of numbers that is not empty has a least one.
LEMMA LeastExists ==
  ASSUME NEW S \in SUBSET Nat, S # {}
  PROVE  \E x \in S : \A y \in S : x <= y
<1> DEFINE R == OpToRel(<, Nat)
<1>1. \E x \in S : \A y \in S : ~(<<y, x>> \in R)
  BY NatLessThanWellFounded, WFMin, Zenon
<1>2. R = {ss \in Nat \X Nat : ss[1] < ss[2]}
  BY Zenon DEF OpToRel
<1> HIDE DEF R
<1>3. \A x, y \in Nat : y < x => <<y, x>> \in R
  BY <1>2
<1>4. PICK x \in S : \A y \in S : ~(<<y, x>> \in R)
  BY <1>1
<1>5. ASSUME NEW y \in S PROVE x <= y
  <2>1. <<y, x>> \notin R
    BY <1>4
  <2>2. ~(y < x)
    BY <1>3, <2>1
  <2>3. QED
    BY <2>2
<1>6. QED
  BY <1>5

\* Min takes one of the numbers.
LEMMA LeastTaken ==
  ASSUME NEW I \in SUBSET Nat, I # {}
  PROVE  Min(I) \in I
BY LeastExists DEF Min

\* The list of a daemon is a sequence of sessions.
LEMMA Listed ==
  ASSUME NEW A \in SUBSET Sessions, NEW q \in SetToSeqs(A)
  PROVE  q \in Seq(Sessions)
<1>1. IsFiniteSet(A)
  BY RegistryAssumption, FS_Subset
<1>2. Cardinality(A) \in Nat
  BY <1>1, FS_CardinalityType
<1>3. q \in [1..Cardinality(A) -> A]
  BY DEF SetToSeqs
<1>4. QED
  BY <1>2, <1>3

\* p is q with mirror m in state t.
Moved(q, p, m, t) ==
  /\ p \in Seq(MirrorRec) /\ DOMAIN p = DOMAIN q
  /\ \A n \in DOMAIN q :
       /\ p[n].s = q[n].s /\ p[n].h = q[n].h /\ p[n].reads = q[n].reads
       /\ p[n].st = IF n = m THEN t ELSE q[n].st

\* An update of a mirror's state.
LEMMA MoveFacts ==
  ASSUME NEW q \in Seq(MirrorRec), NEW m \in DOMAIN q, NEW t \in States
  PROVE  Moved(q, [q EXCEPT ![m].st = t], m, t)
<1> DEFINE p == [q EXCEPT ![m].st = t]
<1>1. DOMAIN p = DOMAIN q /\ DOMAIN q = 1..Len(q) /\ Len(q) \in Nat
  OBVIOUS
<1>2. \A n \in DOMAIN q : q[n] \in MirrorRec
  OBVIOUS
<1>3. \A n \in DOMAIN q :
        /\ p[n] \in MirrorRec
        /\ p[n].s = q[n].s /\ p[n].h = q[n].h /\ p[n].reads = q[n].reads
        /\ p[n].st = IF n = m THEN t ELSE q[n].st
  BY <1>2 DEF MirrorRec
<1>4. p \in Seq(MirrorRec)
  <2>1. p \in [1..Len(q) -> MirrorRec]
    BY <1>1, <1>3
  <2> HIDE DEF p
  <2>2. QED
    BY <1>1, <2>1
<1>5. QED
  BY <1>1, <1>3, <1>4 DEF Moved

\* p is q with one more mirror.
Grown(q, p, x) ==
  /\ p \in Seq(MirrorRec) /\ DOMAIN p = DOMAIN q \cup {Len(q) + 1} /\ p[Len(q) + 1] = x
  /\ Len(p) = Len(q) + 1 /\ Len(q) \in Nat
  /\ \A n \in DOMAIN q : p[n] = q[n] /\ n \in Nat /\ n # 0 /\ n < Len(q) + 1

\* A mirror that is made.
LEMMA GrowFacts ==
  ASSUME NEW q \in Seq(MirrorRec), NEW x \in MirrorRec
  PROVE  Grown(q, Append(q, x), x)
BY DEF Grown

\* Handles only come, and keep their session.
HandlesStay(k, l) == DOMAIN k \subseteq DOMAIN l /\ \A h \in DOMAIN k : l[h].s = k[h].s

\* Mirrors only come, keep their session and stay published.
MirrorsStay(q, p) ==
  /\ DOMAIN q \subseteq DOMAIN p
  /\ \A n \in DOMAIN q : p[n].s = q[n].s /\ p[n].h = q[n].h /\ (Entered(q, n) => Entered(p, n))

\* What a flow holds stays good.
LEMMA FlowStays ==
  ASSUME NEW f, NEW x, NEW q, NEW p, NEW k, NEW l, HandlesStay(k, l), MirrorsStay(q, p),
         FlowOK(f, x, q, k)
  PROVE  FlowOK(f, x, p, l)
BY DEF FlowOK, HandlesStay, MirrorsStay

\* What is to be torn down stays published.
LEMMA DoomedStays ==
  ASSUME NEW doo \in [Tearers -> SUBSET (Sessions \X Nat)], NEW q, NEW p, NEW reg, NEW new,
         DoomedOK(doo, q, reg), MirrorsStay(q, p),
         \A d \in doo[Proxy] : new[d[1]] # d[2]
  PROVE  DoomedOK(doo, p, new)
BY DEF DoomedOK, MirrorsStay

Later == {"releasing", "unwinding", "detaching", "gone"}

\* A published mirror moves on.
LEMMA MovesOn ==
  ASSUME NEW q \in Seq(MirrorRec), NEW p, NEW m \in DOMAIN q, NEW t \in Later,
         Moved(q, p, m, t), Entered(q, m), t = "releasing" => q[m].st = "live"
  PROVE  /\ MirrorsStay(q, p)
         /\ \A n \in DOMAIN q :
              /\ Entered(p, n) <=> Entered(q, n)
              /\ FirstIn(p, n) <=> FirstIn(q, n)
              /\ p[n].st = "boot" <=> q[n].st = "boot"
              /\ p[n].st = "live" => q[n].st = "live" /\ n # m
         /\ StoreKept(q) => StoreKept(p)
         /\ \A i : InFlight(q, i) => InFlight(p, i)
<1>1. DOMAIN p = DOMAIN q
  BY DEF Moved
<1>2. \A n \in DOMAIN q : p[n].s = q[n].s /\ p[n].h = q[n].h
  BY DEF Moved
<1>3. \A n \in DOMAIN q : Entered(p, n) <=> Entered(q, n)
  BY DEF Moved, Entered, Later
<1>4. \A n \in DOMAIN q : FirstIn(p, n) <=> FirstIn(q, n)
  BY <1>1, <1>2, <1>3 DEF FirstIn
<1>5. \A n \in DOMAIN q : p[n].st = "boot" <=> q[n].st = "boot"
  BY DEF Moved, Entered, Later
<1>6. \A n \in DOMAIN q : p[n].st = "live" => q[n].st = "live" /\ n # m
  BY DEF Moved, Later
<1>7. \A n \in DOMAIN q : p[n].st \in {"live", "releasing"} => q[n].st \in {"live", "releasing"}
  BY DEF Moved, Later
<1>8. StoreKept(q) => StoreKept(p)
  BY <1>1, <1>2, <1>3, <1>7 DEF StoreKept
<1>9. ASSUME NEW i, InFlight(q, i) PROVE InFlight(p, i)
  <2>1. \A s \in Sessions : i[s] # None => i[s] \in DOMAIN p /\ p[i[s]].s = s /\ p[i[s]].st = "boot"
    BY <1>1, <1>2, <1>5, <1>9 DEF InFlight
  <2>2. \A n \in DOMAIN p : p[n].st = "boot" => i[p[n].s] = n
    BY <1>1, <1>2, <1>5, <1>9 DEF InFlight
  <2>3. \A a, b \in DOMAIN p : p[a].st = "boot" /\ a < b => p[b].s # p[a].s
    BY <1>1, <1>2, <1>5, <1>9 DEF InFlight
  <2>4. QED
    BY <2>1, <2>2, <2>3 DEF InFlight
<1>10. MirrorsStay(q, p)
  BY <1>1, <1>2, <1>3 DEF MirrorsStay
<1>11. QED
  BY <1>3, <1>4, <1>5, <1>6, <1>8, <1>9, <1>10

----------------------------------------------------------------------------
(* The initial state *)

\* Nothing is mirrored.
LEMMA InitRegistry == Init => RegistryInv
<1> SUFFICES ASSUME Init PROVE RegistryInv
  OBVIOUS
<1>1. Idle \in FlowRec
  BY DEF Idle, FlowRec, Pcs, None
<1>2. ValuesOK
  BY <1>1 DEF Init, ValuesOK, None, Tearers
<1>3. HandlesOK(handles, handle) /\ MirrorsOK(mirror, handle) /\ InFlight(mirror, inflight)
  BY DEF Init, HandlesOK, MirrorsOK, InFlight, None
<1>4. StoreKept(mirror) /\ Entries(mirror, mirrors, flow) /\ BootHears(mirror, handle)
  BY DEF Init, StoreKept, Entries, BootHears, None
<1>5. FlowsOK(flow, mirror, handle)
  BY <1>1 DEF Init, FlowsOK, FlowOK, Idle
<1>6. DoomedOK(doomed, mirror, mirrors)
  BY DEF Init, DoomedOK, Tearers
<1>7. FirstKept(mirror, handle, mirrors, inflight, disposed)
  BY DEF Init, FirstKept
<1>8. QED
  BY <1>2, <1>3, <1>4, <1>5, <1>6, <1>7 DEF RegistryInv

----------------------------------------------------------------------------
(* Steps of a flow *)

\* Handles keep their session and their subscription.
HandlesSame(k, l) ==
  /\ l \in Seq(HandleRec) /\ DOMAIN l = DOMAIN k
  /\ \A h \in DOMAIN k : l[h].s = k[h].s /\ l[h].detached = k[h].detached

\* A change of mode.
LEMMA ModeFacts ==
  ASSUME NEW k \in Seq(HandleRec), NEW h \in DOMAIN k, NEW md \in {"read", "write"}
  PROVE  HandlesSame(k, [k EXCEPT ![h].mode = md]) /\ HandlesSame(k, k)
<1> DEFINE l == [k EXCEPT ![h].mode = md]
<1>1. DOMAIN l = DOMAIN k /\ DOMAIN k = 1..Len(k) /\ Len(k) \in Nat
  OBVIOUS
<1>2. \A g \in DOMAIN k : k[g] \in HandleRec
  OBVIOUS
<1>3. \A g \in DOMAIN k :
        l[g] \in HandleRec /\ l[g].s = k[g].s /\ l[g].detached = k[g].detached
  BY <1>2 DEF HandleRec
<1>4. l \in Seq(HandleRec)
  <2>1. l \in [1..Len(k) -> HandleRec]
    BY <1>1, <1>3
  <2> HIDE DEF l
  <2>2. QED
    BY <1>1, <2>1
<1>5. QED
  BY <1>1, <1>3, <1>4 DEF HandlesSame

\* A flow that moves on and holds what it needs leaves the registry alone.
LEMMA FlowMoves ==
  ASSUME RegistryInv, UNCHANGED <<handles, mirrors, inflight, mirror, doomed, disposed>>,
         HandlesSame(handle, handle'),
         NEW f \in Flows, NEW x, flow' = [flow EXCEPT ![f] = x], FlowOK(f, x, mirror, handle),
         ~(f \in Owners /\ flow[f].pc = "disposing")
  PROVE  RegistryInv'
<1> USE DEF RegistryInv
<1>1. HandlesStay(handle, handle')
  BY DEF HandlesSame, HandlesStay
<1>2. MirrorsStay(mirror, mirror')
  BY DEF MirrorsStay
<1>3. flow \in [Flows -> FlowRec] /\ x \in FlowRec
  BY DEF ValuesOK, FlowOK
<1>4. ValuesOK'
  BY <1>3 DEF ValuesOK, HandlesSame
<1>5. HandlesOK(handles', handle') /\ MirrorsOK(mirror', handle')
  <2>1. HandlesOK(handles, handle')
    BY DEF HandlesOK, HandlesSame
  <2>2. MirrorsOK(mirror, handle')
    BY DEF MirrorsOK, HandlesSame
  <2>3. QED
    BY <2>1, <2>2
<1>6. Entries(mirror', mirrors', flow')
  <2>1. ASSUME NEW o \in Owners, flow[o].pc = "disposing" PROVE flow'[o] = flow[o]
    <3>1. o # f
      BY <2>1
    <3>2. QED
      BY <1>3, <3>1 DEF Flows
  <2>2. QED
    BY <2>1 DEF Entries
<1>7. FlowsOK(flow', mirror', handle')
  <2> SUFFICES ASSUME NEW g \in Flows PROVE FlowOK(g, flow'[g], mirror', handle')
    BY DEF FlowsOK
  <2>1. FlowOK(g, flow'[g], mirror, handle)
    BY <1>3 DEF FlowsOK
  <2>2. QED
    BY <1>1, <1>2, <2>1, FlowStays
<1>8. BootHears(mirror', handle') /\ FirstKept(mirror', handle', mirrors', inflight', disposed')
  BY DEF BootHears, FirstKept, HandlesSame, MirrorsOK
<1>9. QED
  BY <1>4, <1>5, <1>6, <1>7, <1>8

\* A flow that does not run, or has ended, holds nothing.
LEMMA RestOK ==
  ASSUME NEW f, NEW q, NEW k
  PROVE  FlowOK(f, Idle, q, k) /\ FlowOK(f, Over, q, k)
<1>1. Idle \in FlowRec /\ Idle.pc = "idle"
  BY DEF Idle, FlowRec, Pcs, None
<1>2. Over \in FlowRec /\ Over.pc = "over"
  BY <1>1 DEF Over, FlowRec, Pcs
<1>3. QED
  BY <1>1, <1>2 DEF FlowOK

\* How a caller goes on is good for it.
LEMMA AfterOK ==
  ASSUME RegistryInv, NEW f \in Flows, NEW ok \in BOOLEAN, NEW m \in Nat,
         NEW list \in Seq(Sessions), NEW q, NEW k, ok => m \in DOMAIN q /\ Entered(q, m)
  PROVE  FlowOK(f, After(f, ok, m, list), q, k)
<1>1. Idle \in FlowRec /\ Over \in FlowRec /\ flow[f].seen \in SUBSET Sessions
  <2>1. Idle \in FlowRec
    BY DEF Idle, FlowRec, Pcs, None
  <2>2. Over \in FlowRec
    BY <2>1 DEF Over, FlowRec, Pcs
  <2>3. flow[f] \in FlowRec
    BY DEF RegistryInv, ValuesOK, Flows
  <2>4. QED
    BY <2>1, <2>2, <2>3 DEF FlowRec
<1>2. CASE f \in Reconciles
  <2>1. f \notin Owners
    BY <1>2, RegistryAssumption
  <2>2. After(f, ok, m, list) = [Idle EXCEPT !.pc = "sweep", !.list = list, !.seen = flow[f].seen]
    BY <1>2, <2>1 DEF After
  <2>3. QED
    BY <1>1, <2>1, <2>2 DEF FlowOK, FlowRec, Pcs, Idle
<1>3. CASE f \notin Reconciles /\ f \in Owners /\ (~ok \/ flow[f].op = "fork")
  <2>1. After(f, ok, m, list) = Over
    BY <1>3 DEF After
  <2>2. QED
    BY <1>1, <2>1 DEF FlowOK, FlowRec, Pcs, Idle, Over
<1>4. CASE f \notin Reconciles /\ ~(f \in Owners /\ (~ok \/ flow[f].op = "fork"))
  <2>1. After(f, ok, m, list) = [Idle EXCEPT !.pc = "own", !.m = m]
    BY <1>4 DEF After
  <2>2. QED
    BY <1>1, <1>4, <2>1, ZenonT(60) DEF FlowOK, FlowRec, Pcs, Idle
<1>5. QED
  BY <1>2, <1>3, <1>4

----------------------------------------------------------------------------
(* mirrorSession *)

\* Handles may come; the others stay subscribed.
HandlesGrow(k, l) ==
  /\ l \in Seq(HandleRec) /\ DOMAIN k \subseteq DOMAIN l
  /\ \A h \in DOMAIN k : l[h].s = k[h].s /\ l[h].detached = k[h].detached

\* A new mirror leaves what is known of the others as it is.
LEMMA GrowsBy ==
  ASSUME NEW q \in Seq(MirrorRec), NEW x \in MirrorRec, NEW p, Grown(q, p, x), x.st = "boot"
  PROVE  /\ MirrorsStay(q, p)
         /\ \A n \in DOMAIN q : FirstIn(p, n) <=> FirstIn(q, n)
         /\ StoreKept(q) => StoreKept(p)
         /\ \A i \in [Sessions -> Nat] :
              i[x.s] = None /\ InFlight(q, i) => InFlight(p, [i EXCEPT ![x.s] = Len(p)])
<1>1. /\ DOMAIN p = DOMAIN q \cup {Len(q) + 1} /\ p[Len(q) + 1] = x /\ Len(p) = Len(q) + 1
      /\ Len(q) \in Nat /\ Len(q) + 1 \notin DOMAIN q
      /\ \A n \in DOMAIN q : p[n] = q[n] /\ n \in Nat /\ n # 0 /\ n < Len(q) + 1
  BY DEF Grown
<1>2. ~Entered(p, Len(q) + 1)
  BY <1>1 DEF Entered
<1>3. MirrorsStay(q, p)
  BY <1>1 DEF MirrorsStay, Entered
<1>4. \A n \in DOMAIN q : FirstIn(p, n) <=> FirstIn(q, n)
  BY <1>1, <1>2 DEF FirstIn, Entered
<1>5. ASSUME StoreKept(q) PROVE StoreKept(p)
  <2> SUFFICES ASSUME NEW a \in DOMAIN p, NEW b \in DOMAIN p, p[a].st \in {"live", "releasing"},
                      a < b, p[b].s = p[a].s
               PROVE  ~Entered(p, b)
    BY DEF StoreKept
  <2>1. CASE b = Len(q) + 1
    BY <1>2, <2>1
  <2>2. CASE b \in DOMAIN q
    <3>1. a \in DOMAIN q
      BY <1>1, <2>2
    <3>2. QED
      BY <1>1, <1>5, <2>2, <3>1 DEF StoreKept, Entered
  <2>3. QED
    BY <1>1, <2>1, <2>2
<1>6. ASSUME NEW i \in [Sessions -> Nat], i[x.s] = None, InFlight(q, i)
      PROVE  InFlight(p, [i EXCEPT ![x.s] = Len(p)])
  <2> DEFINE j == [i EXCEPT ![x.s] = Len(p)]
  <2>1. x.s \in Sessions /\ \A n \in DOMAIN q : q[n].s \in Sessions
    <3>1. \A n \in DOMAIN q : q[n] \in MirrorRec
      OBVIOUS
    <3>2. QED
      BY <3>1 DEF MirrorRec
  <2>2. \A s \in Sessions : j[s] = IF s = x.s THEN Len(q) + 1 ELSE i[s]
    BY <1>1, <2>1
  <2>3. \A n \in DOMAIN q : q[n].st = "boot" => q[n].s # x.s
    BY <1>1, <1>6 DEF InFlight, None
  <2> HIDE DEF j
  <2>4. \A s \in Sessions : j[s] # None => j[s] \in DOMAIN p /\ p[j[s]].s = s /\ p[j[s]].st = "boot"
    BY <1>1, <1>6, <2>2 DEF InFlight
  <2>5. \A n \in DOMAIN p : p[n].st = "boot" => j[p[n].s] = n
    BY <1>1, <1>6, <2>1, <2>2, <2>3 DEF InFlight
  <2>6. \A a, b \in DOMAIN p : p[a].st = "boot" /\ a < b => p[b].s # p[a].s
    <3> SUFFICES ASSUME NEW a \in DOMAIN p, NEW b \in DOMAIN p, p[a].st = "boot", a < b
                 PROVE  p[b].s # p[a].s
      OBVIOUS
    <3>1. a \in DOMAIN q
      BY <1>1
    <3>2. QED
      BY <1>1, <1>6, <2>3, <3>1 DEF InFlight
  <2>7. InFlight(p, j)
    BY <2>4, <2>5, <2>6 DEF InFlight
  <2>8. QED
    BY <2>7 DEF j
<1>7. QED
  BY <1>3, <1>4, <1>5, <1>6

\* mirrorSession, for a handle of the session: at most one bootstrap is added,
\* and the caller gets a published mirror or waits for the one in flight.
LEMMA MirrorSessionKeeps ==
  ASSUME RegistryInv, NEW f \in Reconciles \cup Owners, NEW s \in Sessions, NEW h \in DOMAIN handle',
         NEW list \in Seq(Sessions), MirrorSession(f, s, h, list),
         flow[f].pc # "disposing", UNCHANGED <<doomed, disposed>>,
         HandlesGrow(handle, handle'), handle'[h].s = s, h \notin DOMAIN handle => ~handle'[h].detached,
         handles' \in [Sessions -> Nat], HandlesOK(handles', handle')
  PROVE  RegistryInv'
<1> USE DEF RegistryInv
<1>1. /\ HandlesStay(handle, handle') /\ mirrors' = mirrors /\ f \in Flows
      /\ flow \in [Flows -> FlowRec] /\ flow[f] \in FlowRec /\ h \in Nat
  BY DEF HandlesGrow, HandlesStay, MirrorSession, ValuesOK, Flows
<1> DEFINE waiting(m) == [flow[f] EXCEPT !.pc = "mirroring", !.s = None, !.h = h, !.m = m, !.list = list]
<1>2. ASSUME NEW m \in Nat,
             flow' = [flow EXCEPT ![f].pc = "mirroring", ![f].s = None, ![f].h = h,
                                  ![f].m = m, ![f].list = list]
      PROVE  flow' = [flow EXCEPT ![f] = waiting(m)]
  BY <1>1, <1>2
<1>3. ASSUME NEW m \in Nat, NEW q, m \in DOMAIN q, q[m].s = s
      PROVE  FlowOK(f, waiting(m), q, handle')
  BY <1>1, <1>3 DEF FlowOK, FlowRec, Pcs, None
<1> HIDE DEF waiting
<1>4. \E x : /\ flow' = [flow EXCEPT ![f] = x] /\ FlowOK(f, x, mirror', handle')
             /\ \/ UNCHANGED <<inflight, mirror>>
                \/ /\ mirrors[s] = None /\ inflight[s] = None
                   /\ mirror' = Append(mirror, NewMirror(s, h))
                   /\ inflight' = [inflight EXCEPT ![s] = Len(mirror')]
  <2>1. CASE mirrors[s] # None
    <3>1. flow' = [flow EXCEPT ![f] = After(f, TRUE, mirrors[s], list)] /\ UNCHANGED <<inflight, mirror>>
      BY <2>1 DEF MirrorSession
    <3>2. mirrors[s] \in Nat /\ mirrors[s] \in DOMAIN mirror /\ Entered(mirror, mirrors[s])
      BY <2>1 DEF ValuesOK, Entries
    <3>3. FlowOK(f, After(f, TRUE, mirrors[s], list), mirror, handle')
      BY <1>1, <3>2, AfterOK
    <3>4. QED
      BY <3>1, <3>3
  <2>2. CASE mirrors[s] = None /\ inflight[s] # None
    <3>1. inflight[s] \in Nat /\ inflight[s] \in DOMAIN mirror /\ mirror[inflight[s]].s = s
      BY <2>2 DEF ValuesOK, InFlight
    <3>2. /\ flow' = [flow EXCEPT ![f].pc = "mirroring", ![f].s = None, ![f].h = h,
                                  ![f].m = inflight[s], ![f].list = list]
          /\ UNCHANGED <<inflight, mirror>>
      BY <2>2 DEF MirrorSession
    <3>3. QED
      BY <1>2, <1>3, <3>1, <3>2
  <2>3. CASE mirrors[s] = None /\ inflight[s] = None
    <3>1. /\ mirror' = Append(mirror, NewMirror(s, h))
          /\ inflight' = [inflight EXCEPT ![s] = Len(mirror')]
          /\ flow' = [flow EXCEPT ![f].pc = "mirroring", ![f].s = None, ![f].h = h,
                                  ![f].m = Len(mirror'), ![f].list = list]
      BY <2>3 DEF MirrorSession
    <3>2. Len(mirror') \in Nat /\ Len(mirror') \in DOMAIN mirror' /\ mirror'[Len(mirror')].s = s
      BY <3>1 DEF ValuesOK, NewMirror
    <3>3. QED
      BY <1>2, <1>3, <2>3, <3>1, <3>2
  <2>4. QED
    BY <2>1, <2>2, <2>3
<1>5. PICK x : /\ flow' = [flow EXCEPT ![f] = x] /\ FlowOK(f, x, mirror', handle')
               /\ \/ UNCHANGED <<inflight, mirror>>
                  \/ /\ mirrors[s] = None /\ inflight[s] = None
                     /\ mirror' = Append(mirror, NewMirror(s, h))
                     /\ inflight' = [inflight EXCEPT ![s] = Len(mirror')]
  BY <1>4
<1>6. /\ mirror' \in Seq(MirrorRec) /\ inflight' \in [Sessions -> Nat]
      /\ MirrorsStay(mirror, mirror')
      /\ StoreKept(mirror') /\ InFlight(mirror', inflight') /\ MirrorsOK(mirror', handle')
      /\ BootHears(mirror', handle')
      /\ FirstKept(mirror', handle', mirrors', inflight', disposed')
      /\ \A m \in DOMAIN mirror : mirror'[m].st = mirror[m].st
  <2>1. CASE UNCHANGED <<inflight, mirror>>
    <3>1. MirrorsStay(mirror, mirror') /\ StoreKept(mirror') /\ InFlight(mirror', inflight')
      BY <2>1 DEF MirrorsStay
    <3>2. MirrorsOK(mirror, handle')
      BY DEF MirrorsOK, HandlesGrow
    <3>3. BootHears(mirror, handle')
      BY DEF BootHears, MirrorsOK, HandlesGrow
    <3>4. FirstKept(mirror, handle', mirrors, inflight, disposed)
      BY DEF FirstKept, MirrorsOK, HandlesGrow
    <3>5. QED
      BY <1>1, <2>1, <3>1, <3>2, <3>3, <3>4 DEF ValuesOK
  <2>2. CASE /\ mirrors[s] = None /\ inflight[s] = None
             /\ mirror' = Append(mirror, NewMirror(s, h))
             /\ inflight' = [inflight EXCEPT ![s] = Len(mirror')]
    <3> DEFINE b == NewMirror(s, h)
               e == Len(mirror) + 1
    <3>1. /\ b \in MirrorRec /\ b.s = s /\ b.h = h /\ b.st = "boot"
          /\ b.reads = (h \in DOMAIN handle => ~handle[h].detached)
      BY <1>1 DEF NewMirror, MirrorRec, States
    <3> HIDE DEF b
    <3>2. mirror \in Seq(MirrorRec) /\ Grown(mirror, mirror', b)
      BY <2>2, <3>1, GrowFacts DEF ValuesOK, b
    <3>3. /\ MirrorsStay(mirror, mirror') /\ StoreKept(mirror')
          /\ \A n \in DOMAIN mirror : FirstIn(mirror', n) <=> FirstIn(mirror, n)
          /\ InFlight(mirror', inflight')
      BY <2>2, <3>1, <3>2, GrowsBy DEF ValuesOK
    <3>4. /\ DOMAIN mirror' = DOMAIN mirror \cup {e} /\ mirror'[e] = b
          /\ \A n \in DOMAIN mirror : mirror'[n] = mirror[n] /\ n # 0
          /\ mirror' \in Seq(MirrorRec) /\ Len(mirror') \in Nat
      BY <3>2 DEF Grown
    <3>5. MirrorsOK(mirror', handle')
      BY <3>1, <3>4 DEF MirrorsOK, HandlesGrow
    <3>6. BootHears(mirror', handle')
      <4>1. b.reads => ~handle'[h].detached
        BY <3>1 DEF HandlesGrow
      <4>2. QED
        BY <3>1, <3>3, <3>4, <4>1, ZenonT(60) DEF BootHears, HandlesGrow, MirrorsOK
    <3>7. FirstKept(mirror', handle', mirrors', inflight', disposed')
      <4> SUFFICES ASSUME NEW m \in DOMAIN mirror', mirror'[m].st = "live", FirstIn(mirror', m), ~disposed
                   PROVE  /\ mirrors[mirror'[m].s] = m /\ inflight'[mirror'[m].s] = None
                          /\ ~handle'[mirror'[m].h].detached
        BY <1>1 DEF FirstKept
      <4>1. m \in DOMAIN mirror /\ mirror'[m] = mirror[m] /\ FirstIn(mirror, m) /\ m # None
        BY <3>1, <3>3, <3>4 DEF None
      <4>2. mirrors[mirror[m].s] = m /\ inflight[mirror[m].s] = None /\ ~handle[mirror[m].h].detached
        BY <4>1 DEF FirstKept
      <4>3. mirror[m].s # s
        BY <2>2, <4>1, <4>2
      <4>4. QED
        BY <2>2, <4>1, <4>2, <4>3 DEF HandlesGrow, MirrorsOK, ValuesOK
    <3>8. inflight' \in [Sessions -> Nat]
      BY <2>2, <3>4 DEF ValuesOK
    <3>9. QED
      BY <3>3, <3>4, <3>5, <3>6, <3>7, <3>8
  <2>3. QED
    BY <1>5, <2>1, <2>2
<1>7. ValuesOK'
  BY <1>1, <1>5, <1>6 DEF ValuesOK, HandlesGrow, FlowOK
<1>8. Entries(mirror', mirrors', flow')
  <2>1. ASSUME NEW o \in Owners, flow[o].pc = "disposing" PROVE flow'[o] = flow[o]
    <3>1. o # f
      BY <2>1
    <3>2. QED
      BY <1>1, <1>5, <3>1 DEF Flows
  <2>2. ASSUME NEW r \in Sessions, mirrors[r] # None
        PROVE  /\ mirrors[r] \in DOMAIN mirror' /\ mirror'[mirrors[r]].s = r /\ Entered(mirror', mirrors[r])
               /\ mirror'[mirrors[r]].st = mirror[mirrors[r]].st
    <3>1. mirrors[r] \in DOMAIN mirror /\ mirror[mirrors[r]].s = r /\ Entered(mirror, mirrors[r])
      BY <2>2 DEF Entries
    <3> HIDE DEF RegistryInv
    <3>2. QED
      BY <1>6, <3>1 DEF MirrorsStay
  <2>3. ASSUME NEW r \in Sessions, mirrors[r] # None
        PROVE  mirror[mirrors[r]].st = "live"
               \/ \E o \in Owners : flow'[o].m = mirrors[r] /\ flow'[o].pc = "disposing"
    BY <2>1, <2>3 DEF Entries
  <2>4. Entries(mirror', mirrors, flow')
    BY <2>2, <2>3 DEF Entries
  <2>5. QED
    BY <1>1, <2>4
<1>9. FlowsOK(flow', mirror', handle')
  <2> SUFFICES ASSUME NEW g \in Flows PROVE FlowOK(g, flow'[g], mirror', handle')
    BY DEF FlowsOK
  <2>1. CASE g = f
    BY <1>1, <1>5, <2>1
  <2>2. CASE g # f
    <3>1. flow'[g] = flow[g] /\ FlowOK(g, flow[g], mirror, handle)
      BY <1>1, <1>5, <2>2 DEF FlowsOK
    <3>2. QED
      BY <1>1, <1>6, <3>1, FlowStays
  <2>3. QED
    BY <2>1, <2>2
<1>10. DoomedOK(doomed', mirror', mirrors')
  <2>1. DoomedOK(doomed, mirror, mirrors) /\ \A d \in doomed[Proxy] : mirrors[d[1]] # d[2]
    BY DEF DoomedOK
  <2>2. DoomedOK(doomed, mirror', mirrors)
    BY <1>6, <2>1, DoomedStays DEF ValuesOK
  <2>3. QED
    BY <1>1, <2>2
<1>11. QED
  BY <1>6, <1>7, <1>8, <1>9, <1>10

----------------------------------------------------------------------------
(* The life of a mirror *)

\* What detach() does to the handles it is given.
LEMMA DetachFacts ==
  ASSUME RegistryInv, NEW hs, DetachAll(hs)
  PROVE  /\ handle' \in Seq(HandleRec) /\ DOMAIN handle' = DOMAIN handle
         /\ HandlesStay(handle, handle')
         /\ \A h \in DOMAIN handle : handle'[h].detached => handle[h].detached \/ h \in hs
         /\ handles' \in [Sessions -> Nat] /\ HandlesOK(handles', handle')
<1> USE DEF RegistryInv
<1> DEFINE now == {h \in hs : ~handle[h].detached}
<1>1. /\ handle' = [h \in DOMAIN handle |-> [handle[h] EXCEPT !.detached = @ \/ h \in now]]
      /\ handles' = [s \in Sessions |-> IF \E h \in now : handle[h].s = s THEN None ELSE handles[s]]
  BY DEF DetachAll
<1>2. /\ handle \in Seq(HandleRec) /\ DOMAIN handle = 1..Len(handle) /\ Len(handle) \in Nat
      /\ handles \in [Sessions -> Nat] /\ \A h \in DOMAIN handle : handle[h] \in HandleRec
  BY DEF ValuesOK
<1> HIDE DEF now
<1>3. \A h \in DOMAIN handle :
        /\ handle'[h] \in HandleRec /\ handle'[h].s = handle[h].s
        /\ handle'[h].detached = (handle[h].detached \/ h \in now)
  BY <1>1, <1>2 DEF HandleRec
<1>4. DOMAIN handle' = DOMAIN handle
  BY <1>1
<1>5. handle' \in Seq(HandleRec)
  <2>1. handle' \in [1..Len(handle) -> HandleRec]
    BY <1>1, <1>2, <1>3
  <2>2. QED
    BY <1>2, <2>1
<1>6. HandlesStay(handle, handle')
  BY <1>3, <1>4 DEF HandlesStay
<1>7. \A h \in DOMAIN handle : handle'[h].detached => handle[h].detached \/ h \in hs
  BY <1>3 DEF now
<1>8. handles' \in [Sessions -> Nat]
  BY <1>1, <1>2 DEF None
<1>9. HandlesOK(handles', handle')
  BY <1>1, <1>3, <1>4 DEF HandlesOK
<1>10. QED
  BY <1>4, <1>5, <1>6, <1>7, <1>8, <1>9

\* A published mirror that moves on while its flows and the registry stay as
\* they are, and detaches no handle but its own, once it lives no more.
LEMMA OnwardKeeps ==
  ASSUME RegistryInv, NEW m \in DOMAIN mirror, NEW t \in Later,
         Moved(mirror, mirror', m, t), Entered(mirror, m),
         t = "releasing" => mirror[m].st = "live",
         handle' \in Seq(HandleRec), DOMAIN handle' = DOMAIN handle, HandlesStay(handle, handle'),
         \A h \in DOMAIN handle : handle'[h].detached => handle[h].detached \/ h = mirror[m].h,
         \A h \in DOMAIN handle : mirror[m].st = "live" => handle'[h].detached = handle[h].detached,
         handles' \in [Sessions -> Nat], HandlesOK(handles', handle'), UNCHANGED inflight
  PROVE  /\ mirror' \in Seq(MirrorRec) /\ MirrorsStay(mirror, mirror')
         /\ MirrorsOK(mirror', handle') /\ StoreKept(mirror') /\ InFlight(mirror', inflight')
         /\ BootHears(mirror', handle')
         /\ FlowsOK(flow, mirror', handle')
         /\ \A n \in DOMAIN mirror : n # m => mirror'[n].st = mirror[n].st
         /\ \A n \in DOMAIN mirror' : mirror'[n].st = "live" /\ FirstIn(mirror', n) =>
              /\ n \in DOMAIN mirror /\ mirror[n].st = "live" /\ n # m
              /\ mirror[n].s = mirror'[n].s /\ FirstIn(mirror, n)
              /\ handle'[mirror'[n].h].detached => handle[mirror[n].h].detached
<1> USE DEF RegistryInv
<1>1. mirror \in Seq(MirrorRec)
  BY DEF ValuesOK
<1>2. /\ MirrorsStay(mirror, mirror') /\ StoreKept(mirror') /\ InFlight(mirror', inflight)
      /\ \A n \in DOMAIN mirror :
           /\ Entered(mirror', n) <=> Entered(mirror, n)
           /\ FirstIn(mirror', n) <=> FirstIn(mirror, n)
           /\ mirror'[n].st = "boot" <=> mirror[n].st = "boot"
           /\ mirror'[n].st = "live" => mirror[n].st = "live" /\ n # m
  <2>1. /\ MirrorsStay(mirror, mirror')
        /\ \A n \in DOMAIN mirror :
             /\ Entered(mirror', n) <=> Entered(mirror, n)
             /\ FirstIn(mirror', n) <=> FirstIn(mirror, n)
             /\ mirror'[n].st = "boot" <=> mirror[n].st = "boot"
             /\ mirror'[n].st = "live" => mirror[n].st = "live" /\ n # m
        /\ StoreKept(mirror) => StoreKept(mirror')
        /\ \A i : InFlight(mirror, i) => InFlight(mirror', i)
    <3> HIDE DEF RegistryInv
    <3>1. QED
      BY <1>1, MovesOn
  <2>2. QED
    BY <2>1
<1>3. /\ mirror' \in Seq(MirrorRec) /\ DOMAIN mirror' = DOMAIN mirror
      /\ \A n \in DOMAIN mirror :
           /\ mirror'[n].s = mirror[n].s /\ mirror'[n].h = mirror[n].h /\ mirror'[n].reads = mirror[n].reads
           /\ n # m => mirror'[n].st = mirror[n].st
           /\ n \in Nat
  <2>1. \A n \in DOMAIN mirror : n \in Nat
    BY <1>1
  <2>2. QED
    BY <1>1, <2>1 DEF Moved
<1>4. MirrorsOK(mirror', handle')
  BY <1>3, SMTT(60) DEF MirrorsOK, HandlesStay
<1>5. \A n \in DOMAIN mirror : mirror[n].h = mirror[m].h => mirror[n].s = mirror[m].s
  BY DEF MirrorsOK
<1>6. BootHears(mirror', handle')
  <2> SUFFICES ASSUME NEW n \in DOMAIN mirror, mirror[n].st = "boot", mirror[n].reads, FirstIn(mirror, n)
               PROVE  ~handle'[mirror[n].h].detached
    BY <1>2, <1>3 DEF BootHears
  <2>1. ~handle[mirror[n].h].detached /\ mirror[n].h \in DOMAIN handle
    BY DEF BootHears, MirrorsOK
  <2>2. mirror[n].s # mirror[m].s
    <3>1. n # m
      BY DEF Entered
    <3>2. CASE m < n
      BY <3>2 DEF FirstIn
    <3>3. CASE n < m
      BY <3>3 DEF InFlight
    <3>4. QED
      BY <1>3, <3>1, <3>2, <3>3
  <2>3. QED
    BY <1>5, <2>1, <2>2
<1>7. FlowsOK(flow, mirror', handle')
  BY <1>2, FlowStays DEF FlowsOK
<1>8. ASSUME NEW n \in DOMAIN mirror', mirror'[n].st = "live", FirstIn(mirror', n)
      PROVE  /\ n \in DOMAIN mirror /\ mirror[n].st = "live" /\ n # m
             /\ mirror[n].s = mirror'[n].s /\ FirstIn(mirror, n)
             /\ handle'[mirror'[n].h].detached => handle[mirror[n].h].detached
  <2>1. /\ n \in DOMAIN mirror /\ mirror[n].st = "live" /\ n # m
        /\ mirror[n].s = mirror'[n].s /\ FirstIn(mirror, n)
        /\ mirror'[n].h = mirror[n].h /\ mirror[n].h \in DOMAIN handle
    BY <1>2, <1>3, <1>8 DEF MirrorsOK
  <2>2. mirror[n].s # mirror[m].s
    <3>1. CASE m < n
      BY <2>1, <3>1 DEF FirstIn
    <3>2. CASE n < m
      BY <2>1, <3>2 DEF StoreKept
    <3>3. QED
      BY <1>3, <2>1, <3>1, <3>2
  <2>3. QED
    BY <1>5, <2>1, <2>2
<1>9. QED
  BY <1>2, <1>3, <1>4, <1>6, <1>7, <1>8

\* A mirror that is disposed goes on: released, unwound, detached.
LEMMA MirrorLeaves ==
  ASSUME RegistryInv, NEW m \in DOMAIN mirror, Released(m) \/ Unwound(m) \/ Gone(m)
  PROVE  RegistryInv'
<1> USE DEF RegistryInv
<1>1. \E t \in {"unwinding", "detaching", "gone"} : mirror' = [mirror EXCEPT ![m].st = t]
  BY DEF Released, Unwound, Gone
<1>2. PICK t \in {"unwinding", "detaching", "gone"} : mirror' = [mirror EXCEPT ![m].st = t]
  BY <1>1
<1>3. mirror \in Seq(MirrorRec) /\ Moved(mirror, mirror', m, t)
  BY <1>2, MoveFacts DEF ValuesOK, States
<1>4. /\ mirror[m].st \in {"releasing", "unwinding", "detaching"}
      /\ UNCHANGED <<mirrors, inflight, flow, doomed, disposed>>
  BY DEF Released, Unwound, Gone, proxyVars
<1>5. mirror[m].h \in DOMAIN handle /\ handle \in Seq(HandleRec) /\ handles \in [Sessions -> Nat]
  BY DEF MirrorsOK, ValuesOK
<1>6. /\ handle' \in Seq(HandleRec) /\ DOMAIN handle' = DOMAIN handle /\ HandlesStay(handle, handle')
      /\ \A h \in DOMAIN handle : handle'[h].detached => handle[h].detached \/ h = mirror[m].h
      /\ handles' \in [Sessions -> Nat] /\ HandlesOK(handles', handle')
  <2>1. CASE Released(m)
    <3>1. handles' = handles /\ HandlesSame(handle, handle')
      BY <1>5, <2>1, ModeFacts DEF Released
    <3>2. HandlesOK(handles, handle')
      BY <3>1 DEF HandlesOK, HandlesSame
    <3>3. QED
      BY <1>5, <3>1, <3>2 DEF HandlesSame, HandlesStay
  <2>2. CASE Unwound(m)
    BY <2>2, DetachFacts DEF Unwound
  <2>3. CASE Gone(m)
    <3>1. handle' = handle /\ handles' = handles
      BY <2>3 DEF Gone, clientVars
    <3>2. QED
      BY <1>5, <3>1 DEF HandlesStay
  <2>4. QED
    BY <2>1, <2>2, <2>3
<1>7. /\ mirror' \in Seq(MirrorRec) /\ MirrorsStay(mirror, mirror')
      /\ MirrorsOK(mirror', handle') /\ StoreKept(mirror') /\ InFlight(mirror', inflight')
      /\ BootHears(mirror', handle') /\ FlowsOK(flow, mirror', handle')
      /\ \A n \in DOMAIN mirror : n # m => mirror'[n].st = mirror[n].st
      /\ \A n \in DOMAIN mirror' : mirror'[n].st = "live" /\ FirstIn(mirror', n) =>
           /\ n \in DOMAIN mirror /\ mirror[n].st = "live" /\ n # m
           /\ mirror[n].s = mirror'[n].s /\ FirstIn(mirror, n)
           /\ handle'[mirror'[n].h].detached => handle[mirror[n].h].detached
  <2>1. Entered(mirror, m) /\ t \in Later /\ t # "releasing" /\ mirror[m].st # "live"
    BY <1>4 DEF Entered, Later
  <2> HIDE DEF RegistryInv
  <2>2. QED
    BY <1>3, <1>4, <1>6, <2>1, OnwardKeeps
<1>8. ValuesOK'
  BY <1>4, <1>6, <1>7 DEF ValuesOK
<1>9. Entries(mirror', mirrors, flow)
  <2> SUFFICES ASSUME NEW s \in Sessions, mirrors[s] # None
               PROVE  /\ mirrors[s] \in DOMAIN mirror' /\ mirror'[mirrors[s]].s = s
                      /\ Entered(mirror', mirrors[s])
                      /\ mirror'[mirrors[s]].st = "live"
                         \/ \E o \in Owners : flow[o].m = mirrors[s] /\ flow[o].pc = "disposing"
    BY DEF Entries
  <2>1. /\ mirrors[s] \in DOMAIN mirror /\ mirror[mirrors[s]].s = s /\ Entered(mirror, mirrors[s])
        /\ mirror[mirrors[s]].st = "live"
           \/ \E o \in Owners : flow[o].m = mirrors[s] /\ flow[o].pc = "disposing"
    BY DEF Entries
  <2>2. CASE mirrors[s] = m
    BY <1>4, <1>7, <2>1, <2>2 DEF MirrorsStay
  <2>3. CASE mirrors[s] # m
    BY <1>7, <2>1, <2>3 DEF MirrorsStay
  <2>4. QED
    BY <2>2, <2>3
<1>10. DoomedOK(doomed, mirror', mirrors)
  <2>1. \A d \in doomed[Proxy] : mirrors[d[1]] # d[2]
    BY DEF DoomedOK
  <2>2. QED
    BY <1>7, <2>1, DoomedStays DEF ValuesOK
<1>11. FirstKept(mirror', handle', mirrors, inflight, disposed)
  BY <1>7 DEF FirstKept
<1>12. QED
  BY <1>4, <1>6, <1>7, <1>8, <1>9, <1>10, <1>11

\* The promise of a bootstrap is settled.
LEMMA Settled ==
  ASSUME RegistryInv, NEW m \in DOMAIN mirror, NEW ok \in BOOLEAN, Settle(m, ok),
         NEW t \in {"live", "failed"}, Moved(mirror, mirror', m, t), mirror[m].st = "boot",
         ok => t = "live", HandlesStay(handle, handle')
  PROVE  /\ MirrorsStay(mirror, mirror') /\ MirrorsOK(mirror', handle')
         /\ flow' \in [Flows -> FlowRec] /\ FlowsOK(flow', mirror', handle')
         /\ \A o \in Flows : flow[o].pc = "disposing" => flow'[o] = flow[o]
         /\ inflight' \in [Sessions -> Nat] /\ InFlight(mirror', inflight')
         /\ \A s \in Sessions : inflight'[s] = IF s = mirror[m].s THEN None ELSE inflight[s]
         /\ \A n \in DOMAIN mirror : mirror[n].st = "boot" /\ n # m => mirror[n].s # mirror[m].s
<1> USE DEF RegistryInv
<1>1. /\ mirror \in Seq(MirrorRec) /\ inflight \in [Sessions -> Nat] /\ mirror[m].s \in Sessions
      /\ flow \in [Flows -> FlowRec] /\ m \in Nat /\ \A n \in DOMAIN mirror : mirror[n].s \in Sessions
  <2>1. mirror \in Seq(MirrorRec) /\ inflight \in [Sessions -> Nat] /\ flow \in [Flows -> FlowRec]
    BY DEF ValuesOK
  <2>2. m \in Nat /\ \A n \in DOMAIN mirror : mirror[n] \in MirrorRec
    BY <2>1
  <2>3. QED
    BY <2>1, <2>2 DEF MirrorRec
<1>2. MirrorsStay(mirror, mirror') /\ (ok => Entered(mirror', m)) /\ m \in DOMAIN mirror'
  BY DEF MirrorsStay, Moved, Entered
<1>3. MirrorsOK(mirror', handle')
  BY DEF MirrorsOK, Moved, HandlesStay
<1>4. flow' = [f \in Flows |-> IF f \in Waiting(m) THEN After(f, ok, m, flow[f].list) ELSE flow[f]]
  BY DEF Settle
<1>5. FlowsOK(flow', mirror', handle')
  <2> SUFFICES ASSUME NEW f \in Flows PROVE FlowOK(f, flow'[f], mirror', handle')
    BY DEF FlowsOK
  <2>1. CASE f \in Waiting(m)
    <3>1. flow'[f] = After(f, ok, m, flow[f].list) /\ flow[f].list \in Seq(Sessions)
      BY <1>1, <1>4, <2>1 DEF FlowRec
    <3>2. QED
      BY <1>1, <1>2, <3>1, AfterOK
  <2>2. CASE f \notin Waiting(m)
    <3>1. flow'[f] = flow[f] /\ FlowOK(f, flow[f], mirror, handle)
      BY <1>4, <2>2 DEF FlowsOK
    <3>2. QED
      BY <1>2, <3>1, FlowStays
  <2>3. QED
    BY <2>1, <2>2
<1>6. flow' \in [Flows -> FlowRec]
  BY <1>4, <1>5 DEF FlowsOK, FlowOK
<1>7. \A o \in Flows : flow[o].pc = "disposing" => flow'[o] = flow[o]
  BY <1>4 DEF Waiting
<1>8. \A s \in Sessions : inflight'[s] = IF s = mirror[m].s THEN None ELSE inflight[s]
  BY <1>1 DEF Settle
<1>9. inflight' \in [Sessions -> Nat]
  BY <1>1 DEF Settle, None
<1>10. \A n \in DOMAIN mirror : mirror[n].st = "boot" /\ n # m => mirror[n].s # mirror[m].s
  BY DEF InFlight
<1>11. InFlight(mirror', inflight')
  <2>1. /\ DOMAIN mirror' = DOMAIN mirror
        /\ \A n \in DOMAIN mirror : mirror'[n].s = mirror[n].s
        /\ \A n \in DOMAIN mirror : mirror'[n].st = "boot" <=> mirror[n].st = "boot" /\ n # m
    BY DEF Moved
  <2>2. \A s \in Sessions : inflight'[s] # None =>
          inflight'[s] \in DOMAIN mirror' /\ mirror'[inflight'[s]].s = s /\ mirror'[inflight'[s]].st = "boot"
    BY <1>8, <2>1 DEF InFlight
  <2>3. \A n \in DOMAIN mirror' : mirror'[n].st = "boot" => inflight'[mirror'[n].s] = n
    BY <1>1, <1>8, <1>10, <2>1 DEF InFlight
  <2>4. \A a, b \in DOMAIN mirror' : mirror'[a].st = "boot" /\ a < b => mirror'[b].s # mirror'[a].s
    BY <2>1 DEF InFlight
  <2>5. QED
    BY <2>2, <2>3, <2>4 DEF InFlight
<1>12. QED
  BY <1>2, <1>3, <1>5, <1>6, <1>7, <1>8, <1>9, <1>10, <1>11

\* A mirror is published: the store holds no other of its session.
LEMMA PublishKeeps ==
  ASSUME RegistryInv, NEW m \in DOMAIN mirror, Publish(m)
  PROVE  RegistryInv'
<1> USE DEF RegistryInv
<1> DEFINE s == mirror[m].s
<1>1. /\ mirror[m].st = "boot" /\ mirror[m].reads /\ ~Live(s) /\ Settle(m, TRUE)
      /\ mirrors' = [mirrors EXCEPT ![s] = m] /\ UNCHANGED <<handles, handle, doomed, disposed>>
  BY DEF Publish, clientVars
<1>2. mirror \in Seq(MirrorRec) /\ Moved(mirror, mirror', m, "live")
  BY MoveFacts DEF ValuesOK, States, Publish
<1>3. /\ DOMAIN mirror' = DOMAIN mirror /\ mirror' \in Seq(MirrorRec)
      /\ \A n \in DOMAIN mirror :
           /\ mirror'[n].s = mirror[n].s /\ mirror'[n].h = mirror[n].h /\ mirror'[n].reads = mirror[n].reads
           /\ n # m => mirror'[n].st = mirror[n].st
           /\ n \in Nat /\ n # 0
      /\ mirror'[m].st = "live"
  <2>1. \A n \in DOMAIN mirror : n \in Nat /\ n # 0
    BY <1>2
  <2>2. QED
    BY <1>2, <2>1 DEF Moved
<1>4. /\ MirrorsStay(mirror, mirror') /\ MirrorsOK(mirror', handle')
      /\ flow' \in [Flows -> FlowRec] /\ FlowsOK(flow', mirror', handle')
      /\ \A o \in Flows : flow[o].pc = "disposing" => flow'[o] = flow[o]
      /\ inflight' \in [Sessions -> Nat] /\ InFlight(mirror', inflight')
      /\ \A r \in Sessions : inflight'[r] = IF r = mirror[m].s THEN None ELSE inflight[r]
      /\ \A n \in DOMAIN mirror : mirror[n].st = "boot" /\ n # m => mirror[n].s # mirror[m].s
  <2>1. HandlesStay(handle, handle')
    BY <1>1 DEF HandlesStay
  <2> HIDE DEF RegistryInv
  <2>2. QED
    BY <1>1, <1>2, <2>1, Settled
<1>5. \A n \in DOMAIN mirror : mirror[n].s = s => mirror[n].st \notin {"live", "releasing"}
  BY <1>1 DEF Live
<1>6. /\ s \in Sessions /\ mirrors \in [Sessions -> Nat] /\ m # None
      /\ \A n \in DOMAIN mirror : mirror[n].s \in Sessions
  <2>1. \A n \in DOMAIN mirror : mirror[n] \in MirrorRec
    BY <1>2
  <2>2. QED
    BY <1>3, <2>1 DEF MirrorRec, ValuesOK, None
<1>7. \A r \in Sessions : mirrors'[r] = IF r = s THEN m ELSE mirrors[r]
  BY <1>1, <1>6
<1> HIDE DEF s
<1>8. ValuesOK'
  BY <1>1, <1>3, <1>4, <1>6 DEF ValuesOK
<1>9. HandlesOK(handles', handle')
  BY <1>1
<1>10. StoreKept(mirror')
  <2> SUFFICES ASSUME NEW a \in DOMAIN mirror, NEW b \in DOMAIN mirror, a < b,
                      mirror'[a].st \in {"live", "releasing"}, mirror[b].s = mirror[a].s
               PROVE  ~Entered(mirror', b)
    BY <1>3 DEF StoreKept
  <2>1. CASE a = m
    <3>1. FALSE
      BY <1>1, <2>1 DEF InFlight
    <3>2. QED
      BY <3>1
  <2>2. CASE a # m /\ b = m
    BY <1>3, <1>5, <2>2 DEF s
  <2>3. CASE a # m /\ b # m
    BY <1>3, <2>3 DEF StoreKept, Entered
  <2>4. QED
    BY <2>1, <2>2, <2>3
<1>11. Entries(mirror', mirrors', flow')
  <2> SUFFICES ASSUME NEW r \in Sessions, mirrors'[r] # None
               PROVE  /\ mirrors'[r] \in DOMAIN mirror' /\ mirror'[mirrors'[r]].s = r
                      /\ Entered(mirror', mirrors'[r])
                      /\ mirror'[mirrors'[r]].st = "live"
                         \/ \E o \in Owners : flow'[o].m = mirrors'[r] /\ flow'[o].pc = "disposing"
    BY DEF Entries
  <2>1. CASE r = s
    BY <1>3, <1>7, <2>1 DEF Entered, s
  <2>2. CASE r # s
    <3>1. mirrors'[r] = mirrors[r]
      BY <1>7, <2>2
    <3>2. /\ mirrors[r] \in DOMAIN mirror /\ mirror[mirrors[r]].s = r /\ Entered(mirror, mirrors[r])
          /\ mirror[mirrors[r]].st = "live"
             \/ \E o \in Owners : flow[o].m = mirrors[r] /\ flow[o].pc = "disposing"
      BY <3>1 DEF Entries
    <3>3. \A o \in Owners : flow[o].pc = "disposing" => flow'[o] = flow[o]
      BY <1>4 DEF Flows
    <3>4. mirrors[r] # m
      BY <2>2, <3>2 DEF s
    <3>5. QED
      BY <1>3, <1>4, <3>1, <3>2, <3>3, <3>4 DEF MirrorsStay
  <2>3. QED
    BY <2>1, <2>2
<1>12. DoomedOK(doomed, mirror', mirrors')
  <2>1. \A d \in doomed[Proxy] : mirrors'[d[1]] # d[2]
    <3> SUFFICES ASSUME NEW d \in doomed[Proxy] PROVE mirrors'[d[1]] # d[2]
      OBVIOUS
    <3>1. d[1] \in Sessions /\ d[2] # m /\ mirrors[d[1]] # d[2]
      BY <1>1 DEF DoomedOK, ValuesOK, Tearers, Entered
    <3>2. QED
      BY <1>7, <3>1
  <2>2. QED
    BY <1>4, <2>1, DoomedStays DEF ValuesOK
<1>13. \A n \in DOMAIN mirror : FirstIn(mirror', n) => FirstIn(mirror, n)
  BY <1>3, <1>4 DEF FirstIn, MirrorsStay
<1>14. BootHears(mirror', handle')
  BY <1>1, <1>3, <1>13 DEF BootHears
<1>15. FirstKept(mirror', handle', mirrors', inflight', disposed')
  <2> SUFFICES ASSUME NEW n \in DOMAIN mirror, mirror'[n].st = "live", FirstIn(mirror, n), ~disposed
               PROVE  /\ mirrors'[mirror[n].s] = n /\ inflight'[mirror[n].s] = None
                      /\ ~handle[mirror[n].h].detached
    BY <1>1, <1>3, <1>13 DEF FirstKept
  <2>1. CASE n = m
    BY <1>1, <1>4, <1>6, <1>7, <2>1 DEF BootHears, s
  <2>2. CASE n # m
    <3>1. mirror[n].st = "live" /\ mirror[n].s # s
      BY <1>3, <1>5, <2>2
    <3>2. QED
      BY <1>4, <1>6, <1>7, <3>1 DEF FirstKept, s
  <2>3. QED
    BY <2>1, <2>2
<1>16. QED
  BY <1>1, <1>4, <1>8, <1>9, <1>10, <1>11, <1>12, <1>14, <1>15

\* A bootstrap fails: the handles detached are those of its own session, which
\* has no first mirror that lives.
LEMMA BootFailsKeeps ==
  ASSUME RegistryInv, NEW m \in DOMAIN mirror, BootFails(m)
  PROVE  RegistryInv'
<1> USE DEF RegistryInv
<1> DEFINE hs == {flow[f].h : f \in {f \in Waiting(m) : flow[f].op \in {"create", "resume"}}}
<1>1. /\ mirror[m].st = "boot" /\ Settle(m, FALSE) /\ DetachAll(hs)
      /\ UNCHANGED <<mirrors, doomed, disposed>>
  BY DEF BootFails
<1>2. mirror \in Seq(MirrorRec) /\ Moved(mirror, mirror', m, "failed")
  BY MoveFacts DEF ValuesOK, States, BootFails
<1>3. /\ DOMAIN mirror' = DOMAIN mirror /\ mirror' \in Seq(MirrorRec)
      /\ \A n \in DOMAIN mirror :
           /\ mirror'[n].s = mirror[n].s /\ mirror'[n].h = mirror[n].h /\ mirror'[n].reads = mirror[n].reads
           /\ n # m => mirror'[n].st = mirror[n].st
           /\ Entered(mirror', n) <=> Entered(mirror, n)
           /\ n \in Nat /\ n # 0
      /\ mirror'[m].st = "failed"
  <2>1. \A n \in DOMAIN mirror : n \in Nat /\ n # 0
    BY <1>2
  <2>2. QED
    BY <1>1, <1>2, <2>1 DEF Moved, Entered
<1>4. \A h \in hs : h \in DOMAIN handle /\ handle[h].s = mirror[m].s
  BY DEF Waiting, FlowsOK, FlowOK
<1> HIDE DEF hs
<1>5. /\ handle' \in Seq(HandleRec) /\ DOMAIN handle' = DOMAIN handle
      /\ HandlesStay(handle, handle')
      /\ \A h \in DOMAIN handle : handle'[h].detached => handle[h].detached \/ h \in hs
      /\ handles' \in [Sessions -> Nat] /\ HandlesOK(handles', handle')
  <2> HIDE DEF RegistryInv
  <2>1. QED
    BY <1>1, DetachFacts
<1>6. /\ MirrorsStay(mirror, mirror') /\ MirrorsOK(mirror', handle')
      /\ flow' \in [Flows -> FlowRec] /\ FlowsOK(flow', mirror', handle')
      /\ \A o \in Flows : flow[o].pc = "disposing" => flow'[o] = flow[o]
      /\ inflight' \in [Sessions -> Nat] /\ InFlight(mirror', inflight')
      /\ \A r \in Sessions : inflight'[r] = IF r = mirror[m].s THEN None ELSE inflight[r]
      /\ \A n \in DOMAIN mirror : mirror[n].st = "boot" /\ n # m => mirror[n].s # mirror[m].s
  <2> HIDE DEF RegistryInv
  <2>1. QED
    BY <1>1, <1>2, <1>5, Settled
<1>7. \A n \in DOMAIN mirror : mirror[n].h \in DOMAIN handle /\ handle[mirror[n].h].s = mirror[n].s
  BY DEF MirrorsOK
<1>8. \A n \in DOMAIN mirror : FirstIn(mirror', n) <=> FirstIn(mirror, n)
  BY <1>3 DEF FirstIn
<1>9. ValuesOK'
  BY <1>1, <1>3, <1>5, <1>6 DEF ValuesOK
<1>10. StoreKept(mirror')
  BY <1>3 DEF StoreKept
<1>11. Entries(mirror', mirrors, flow')
  <2> SUFFICES ASSUME NEW r \in Sessions, mirrors[r] # None
               PROVE  /\ mirrors[r] \in DOMAIN mirror' /\ mirror'[mirrors[r]].s = r
                      /\ Entered(mirror', mirrors[r])
                      /\ mirror'[mirrors[r]].st = "live"
                         \/ \E o \in Owners : flow'[o].m = mirrors[r] /\ flow'[o].pc = "disposing"
    BY DEF Entries
  <2>1. /\ mirrors[r] \in DOMAIN mirror /\ mirror[mirrors[r]].s = r /\ Entered(mirror, mirrors[r])
        /\ mirror[mirrors[r]].st = "live"
           \/ \E o \in Owners : flow[o].m = mirrors[r] /\ flow[o].pc = "disposing"
    BY DEF Entries
  <2>2. \A o \in Owners : flow[o].pc = "disposing" => flow'[o] = flow[o]
    BY <1>6 DEF Flows
  <2>3. mirrors[r] # m
    BY <1>1, <2>1 DEF Entered
  <2>4. QED
    BY <1>3, <2>1, <2>2, <2>3
<1>12. DoomedOK(doomed, mirror', mirrors)
  <2>1. \A d \in doomed[Proxy] : mirrors[d[1]] # d[2]
    BY DEF DoomedOK
  <2>2. QED
    BY <1>6, <2>1, DoomedStays DEF ValuesOK
<1>13. BootHears(mirror', handle')
  <2> SUFFICES ASSUME NEW n \in DOMAIN mirror, mirror'[n].st = "boot", mirror[n].reads, FirstIn(mirror, n)
               PROVE  ~handle'[mirror[n].h].detached
    BY <1>3, <1>8 DEF BootHears
  <2>1. n # m /\ mirror[n].st = "boot"
    BY <1>3
  <2>2. mirror[n].s # mirror[m].s
    BY <1>6, <2>1
  <2>3. ~handle[mirror[n].h].detached
    BY <2>1 DEF BootHears
  <2>4. QED
    BY <1>4, <1>5, <1>7, <2>2, <2>3
<1>14. FirstKept(mirror', handle', mirrors, inflight', disposed)
  <2> SUFFICES ASSUME NEW n \in DOMAIN mirror, mirror'[n].st = "live", FirstIn(mirror, n), ~disposed
               PROVE  /\ mirrors[mirror[n].s] = n /\ inflight'[mirror[n].s] = None
                      /\ ~handle'[mirror[n].h].detached
    BY <1>3, <1>8 DEF FirstKept
  <2>1. n # m /\ mirror[n].st = "live"
    BY <1>3
  <2>2. mirrors[mirror[n].s] = n /\ inflight[mirror[n].s] = None /\ ~handle[mirror[n].h].detached
    BY <2>1 DEF FirstKept
  <2>3. mirror[n].s # mirror[m].s
    BY <1>1, <1>3, <2>2 DEF InFlight, None
  <2>4. mirror[n].s \in Sessions
    <3>1. mirror[n] \in MirrorRec
      BY <1>2
    <3>2. QED
      BY <3>1 DEF MirrorRec
  <2>5. QED
    BY <1>4, <1>5, <1>6, <1>7, <2>2, <2>3, <2>4
<1>15. QED
  BY <1>1, <1>5, <1>6, <1>9, <1>10, <1>11, <1>12, <1>13, <1>14

----------------------------------------------------------------------------
(* Disposal *)

\* The first mirror of a session that lives is the only one that was published.
LEMMA AloneInStore ==
  ASSUME RegistryInv, NEW n \in DOMAIN mirror, NEW m \in DOMAIN mirror, mirror[n].st = "live",
         FirstIn(mirror, n), Entered(mirror, m), n # m
  PROVE  mirror[n].s # mirror[m].s
<1>1. n \in Nat /\ m \in Nat
  BY DEF RegistryInv, ValuesOK
<1>2. CASE m < n
  BY <1>2 DEF FirstIn
<1>3. CASE n < m
  BY <1>3 DEF RegistryInv, StoreKept
<1>4. QED
  BY <1>1, <1>2, <1>3

\* One mirror that lives is disposed, or none.
OneDisposed(m, t) ==
  \/ UNCHANGED mirror
  \/ m \in DOMAIN mirror /\ mirror[m].st = "live" /\ Moved(mirror, mirror', m, t)

\* The entries left are those of mirrors that live, or that f disposes.
EntriesLeft(f, x, m) ==
  \A s \in Sessions : mirrors'[s] # None =>
    /\ mirrors'[s] = mirrors[s]
    /\ UNCHANGED mirror \/ mirrors'[s] # m \/ (f \in Owners /\ x.m = m /\ x.pc = "disposing")
    /\ ~(f \in Owners /\ flow[f].pc = "disposing" /\ flow[f].m = mirrors[s])

\* The entry of a first mirror stays unless the plugin is disposed.
FirstLeft ==
  \A n \in DOMAIN mirror : mirror'[n].st = "live" /\ FirstIn(mirror, n) /\ ~disposed' =>
    mirrors'[mirror[n].s] = mirrors[mirror[n].s]

\* One mirror that lives is disposed or none, and entries are deleted.
LEMMA DisposeStep ==
  ASSUME RegistryInv, UNCHANGED <<handles, handle, inflight>>,
         NEW m, NEW t \in {"releasing", "unwinding"}, OneDisposed(m, t),
         NEW f \in Flows, NEW x, flow' = [flow EXCEPT ![f] = x], FlowOK(f, x, mirror, handle),
         mirrors' \in [Sessions -> Nat], EntriesLeft(f, x, m), FirstLeft,
         disposed => disposed',
         doomed' \in [Tearers -> SUBSET (Sessions \X Nat)], DoomedOK(doomed', mirror, mirrors')
  PROVE  RegistryInv'
<1> USE DEF RegistryInv
<1>1. /\ mirror' \in Seq(MirrorRec) /\ MirrorsStay(mirror, mirror')
      /\ MirrorsOK(mirror', handle') /\ StoreKept(mirror') /\ InFlight(mirror', inflight')
      /\ BootHears(mirror', handle')
      /\ \A n \in DOMAIN mirror : mirror'[n].st = mirror[n].st \/ (n = m /\ mirror' # mirror)
      /\ \A n \in DOMAIN mirror' : mirror'[n].st = "live" /\ FirstIn(mirror', n) =>
           /\ n \in DOMAIN mirror /\ mirror[n].st = "live"
           /\ mirror'[n].s = mirror[n].s /\ FirstIn(mirror, n) /\ mirror'[n].h = mirror[n].h
  <2>1. CASE UNCHANGED mirror
    <3>1. MirrorsStay(mirror, mirror')
      BY <2>1 DEF MirrorsStay
    <3>2. QED
      BY <2>1, <3>1 DEF ValuesOK
  <2>2. CASE ~ UNCHANGED mirror
    <3>1. m \in DOMAIN mirror /\ mirror[m].st = "live" /\ Moved(mirror, mirror', m, t)
      BY <2>2 DEF OneDisposed
    <3>2. Entered(mirror, m) /\ t \in Later /\ HandlesStay(handle, handle')
      BY <3>1 DEF Entered, Later, HandlesStay
    <3>3. /\ handle' \in Seq(HandleRec) /\ DOMAIN handle' = DOMAIN handle
          /\ \A h \in DOMAIN handle : handle'[h].detached = handle[h].detached
          /\ handles' \in [Sessions -> Nat] /\ HandlesOK(handles', handle')
      BY DEF ValuesOK
    <3>4. DOMAIN mirror' = DOMAIN mirror /\ \A n \in DOMAIN mirror : mirror'[n].h = mirror[n].h
      BY <3>1 DEF Moved
    <3> HIDE DEF RegistryInv
    <3>5. /\ mirror' \in Seq(MirrorRec) /\ MirrorsStay(mirror, mirror')
          /\ MirrorsOK(mirror', handle') /\ StoreKept(mirror') /\ InFlight(mirror', inflight')
          /\ BootHears(mirror', handle')
          /\ \A n \in DOMAIN mirror : n # m => mirror'[n].st = mirror[n].st
          /\ \A n \in DOMAIN mirror' : mirror'[n].st = "live" /\ FirstIn(mirror', n) =>
               /\ n \in DOMAIN mirror /\ mirror[n].st = "live"
               /\ mirror[n].s = mirror'[n].s /\ FirstIn(mirror, n)
      BY <3>1, <3>2, <3>3, OnwardKeeps
    <3>6. QED
      BY <2>2, <3>4, <3>5
  <2>3. QED
    BY <2>1, <2>2
<1>2. flow \in [Flows -> FlowRec] /\ x \in FlowRec
  BY DEF ValuesOK, FlowOK
<1>3. ValuesOK'
  BY <1>1, <1>2 DEF ValuesOK
<1>4. FlowsOK(flow', mirror', handle')
  <2> SUFFICES ASSUME NEW g \in Flows PROVE FlowOK(g, flow'[g], mirror', handle')
    BY DEF FlowsOK
  <2>1. FlowOK(g, flow'[g], mirror, handle)
    BY <1>2 DEF FlowsOK
  <2>2. HandlesStay(handle, handle')
    BY DEF HandlesStay
  <2>3. QED
    BY <1>1, <2>1, <2>2, FlowStays
<1>5. Entries(mirror', mirrors', flow')
  <2> SUFFICES ASSUME NEW s \in Sessions, mirrors'[s] # None
               PROVE  /\ mirrors'[s] \in DOMAIN mirror' /\ mirror'[mirrors'[s]].s = s
                      /\ Entered(mirror', mirrors'[s])
                      /\ mirror'[mirrors'[s]].st = "live"
                         \/ \E o \in Owners : flow'[o].m = mirrors'[s] /\ flow'[o].pc = "disposing"
    BY DEF Entries
  <2>1. /\ mirrors'[s] = mirrors[s] /\ mirrors[s] \in DOMAIN mirror /\ mirror[mirrors[s]].s = s
        /\ Entered(mirror, mirrors[s])
        /\ mirror[mirrors[s]].st = "live"
           \/ \E o \in Owners : flow[o].m = mirrors[s] /\ flow[o].pc = "disposing"
    BY DEF Entries, EntriesLeft
  <2>2. mirrors[s] \in DOMAIN mirror' /\ mirror'[mirrors[s]].s = s /\ Entered(mirror', mirrors[s])
    BY <1>1, <2>1 DEF MirrorsStay
  <2>3. CASE mirror'[mirrors[s]].st # mirror[mirrors[s]].st
    <3>1. f \in Owners /\ x.m = mirrors[s] /\ x.pc = "disposing"
      BY <1>1, <2>1, <2>3 DEF EntriesLeft
    <3>2. flow'[f] = x
      BY <1>2
    <3>3. QED
      BY <2>1, <2>2, <3>1, <3>2
  <2>4. CASE mirror'[mirrors[s]].st = mirror[mirrors[s]].st
    <3>1. ASSUME NEW o \in Owners, flow[o].m = mirrors[s], flow[o].pc = "disposing"
          PROVE  flow'[o] = flow[o]
      <4>1. o # f /\ o \in Flows
        BY <2>1, <3>1 DEF Flows, EntriesLeft
      <4>2. QED
        BY <1>2, <4>1
    <3>2. QED
      BY <2>1, <2>2, <2>4, <3>1
  <2>5. QED
    BY <2>3, <2>4
<1>6. DoomedOK(doomed', mirror', mirrors')
  <2>1. \A d \in doomed'[Proxy] : mirrors'[d[1]] # d[2]
    BY DEF DoomedOK
  <2>2. QED
    BY <1>1, <2>1, DoomedStays
<1>7. FirstKept(mirror', handle', mirrors', inflight', disposed')
  <2> SUFFICES ASSUME NEW n \in DOMAIN mirror', mirror'[n].st = "live", FirstIn(mirror', n), ~disposed'
               PROVE  /\ mirrors'[mirror'[n].s] = n /\ inflight[mirror'[n].s] = None
                      /\ ~handle[mirror'[n].h].detached
    BY DEF FirstKept
  <2>1. /\ n \in DOMAIN mirror /\ mirror[n].st = "live" /\ mirror'[n].s = mirror[n].s
        /\ FirstIn(mirror, n) /\ mirror'[n].h = mirror[n].h
    BY <1>1
  <2>2. mirrors[mirror[n].s] = n /\ inflight[mirror[n].s] = None /\ ~handle[mirror[n].h].detached
    BY <2>1 DEF FirstKept
  <2>3. mirrors'[mirror[n].s] = mirrors[mirror[n].s]
    BY <2>1 DEF FirstLeft
  <2>4. QED
    BY <2>1, <2>2, <2>3
<1>8. QED
  BY <1>1, <1>3, <1>4, <1>5, <1>6, <1>7

\* How a mirror that lives is disposed.
LEMMA DisposeFacts ==
  ASSUME RegistryInv, NEW m \in DOMAIN mirror, NEW b \in BOOLEAN
  PROVE  /\ DisposeTo(m, b) \in {"releasing", "unwinding"}
         /\ Moved(mirror, [mirror EXCEPT ![m].st = DisposeTo(m, b)], m, DisposeTo(m, b))
<1>1. DisposeTo(m, b) \in {"releasing", "unwinding"}
  BY DEF DisposeTo
<1>2. DisposeTo(m, b) \in States /\ mirror \in Seq(MirrorRec)
  BY <1>1 DEF States, RegistryInv, ValuesOK
<1>3. QED
  BY <1>1, <1>2, MoveFacts

\* The teardown loop of a reconcile, over mirrors that were published.
LEMMA TearSomeKeeps ==
  ASSUME RegistryInv, NEW r \in Reconciles, NEW D \in SUBSET (Sessions \X Nat), TearSome(r, D),
         \A d \in D : d[2] \in DOMAIN mirror /\ mirror[d[2]].s = d[1] /\ Entered(mirror, d[2]),
         UNCHANGED <<handles, handle, inflight, disposed>>
  PROVE  RegistryInv'
<1>1. /\ r \notin Owners /\ r # Proxy /\ r \in Flows /\ r \in Tearers
      /\ flow \in [Flows -> FlowRec] /\ flow[r] \in FlowRec
      /\ doomed \in [Tearers -> SUBSET (Sessions \X Nat)] /\ mirrors \in [Sessions -> Nat]
      /\ mirror \in Seq(MirrorRec)
  BY RegistryAssumption DEF RegistryInv, ValuesOK, Flows, Tearers, Proxy
<1>2. /\ \A g \in Tearers : \A d \in doomed[g] :
           d[2] \in DOMAIN mirror /\ mirror[d[2]].s = d[1] /\ Entered(mirror, d[2])
      /\ \A d \in doomed[Proxy] : mirrors[d[1]] # d[2]
  BY DEF RegistryInv, DoomedOK
<1>3. CASE D = {}
  <2>1. /\ flow' = [flow EXCEPT ![r] = Idle] /\ doomed' = [doomed EXCEPT ![r] = {}]
        /\ UNCHANGED <<mirrors, mirror>>
    BY <1>3 DEF TearSome
  <2>2. FlowOK(r, Idle, mirror, handle)
    BY RestOK
  <2>3. doomed' \in [Tearers -> SUBSET (Sessions \X Nat)] /\ DoomedOK(doomed', mirror, mirrors')
    BY <1>1, <1>2, <2>1 DEF DoomedOK, Tearers
  <2>4. OneDisposed(None, "unwinding") /\ EntriesLeft(r, Idle, None) /\ FirstLeft
    BY <1>1, <2>1 DEF OneDisposed, EntriesLeft, FirstLeft
  <2>5. QED
    BY <1>1, <2>1, <2>2, <2>3, <2>4, DisposeStep
<1>4. CASE D # {}
  <2>1. PICK d \in D : TearOne(r, D, d)
    BY <1>4 DEF TearSome
  <2>2. /\ d[1] \in Sessions /\ d[2] \in Nat /\ d[2] # None
        /\ d[2] \in DOMAIN mirror /\ mirror[d[2]].s = d[1] /\ Entered(mirror, d[2])
    BY <1>1 DEF None
  <2>3. doomed' = [doomed EXCEPT ![r] = D \ {d}] /\ mirrors' = [mirrors EXCEPT ![d[1]] = None]
    BY <2>1 DEF TearOne
  <2>4. mirrors' \in [Sessions -> Nat] /\ \A s \in Sessions : mirrors'[s] = IF s = d[1] THEN None ELSE mirrors[s]
    BY <1>1, <2>2, <2>3 DEF None
  <2>5. doomed' \in [Tearers -> SUBSET (Sessions \X Nat)]
    BY <1>1, <2>3
  <2>6. DoomedOK(doomed', mirror, mirrors')
    <3>1. \A g \in Tearers : doomed'[g] = IF g = r THEN D \ {d} ELSE doomed[g]
      BY <1>1, <2>3
    <3>2. \A e \in doomed[Proxy] : e[1] \in Sessions /\ e[2] # None
      BY <1>1, <1>2 DEF Tearers, None
    <3>3. \A e \in doomed'[Proxy] : mirrors'[e[1]] # e[2]
      BY <1>1, <1>2, <2>4, <3>1, <3>2 DEF Tearers
    <3>4. QED
      BY <1>2, <3>1, <3>3 DEF DoomedOK
  <2>7. \E x : flow' = [flow EXCEPT ![r] = x] /\ FlowOK(r, x, mirror, handle)
    <3>1. CASE mirror[d[2]].st = "live"
      <4> DEFINE x == [flow[r] EXCEPT !.pc = "tearing", !.m = d[2]]
      <4>1. flow' = [flow EXCEPT ![r] = x]
        BY <1>1, <2>1, <3>1 DEF TearOne
      <4>2. FlowOK(r, x, mirror, handle)
        BY <1>1, <2>2 DEF FlowOK, FlowRec, Pcs
      <4>3. QED
        BY <4>1, <4>2
    <3>2. CASE mirror[d[2]].st # "live"
      <4> DEFINE x == [flow[r] EXCEPT !.pc = "teardown"]
      <4>1. flow' = [flow EXCEPT ![r] = x]
        BY <1>1, <2>1, <3>2 DEF TearOne
      <4>2. FlowOK(r, x, mirror, handle)
        BY <1>1 DEF FlowOK, FlowRec, Pcs
      <4>3. QED
        BY <4>1, <4>2
    <3>3. QED
      BY <3>1, <3>2
  <2>8. \E t \in {"releasing", "unwinding"} :
          \/ UNCHANGED mirror /\ mirror[d[2]].st # "live"
          \/ mirror[d[2]].st = "live" /\ Moved(mirror, mirror', d[2], t)
    <3>1. CASE mirror[d[2]].st = "live"
      <4>1. mirror' = [mirror EXCEPT ![d[2]].st = DisposeTo(d[2], FALSE)]
        BY <2>1, <3>1 DEF TearOne
      <4>2. QED
        BY <2>2, <3>1, <4>1, DisposeFacts
    <3>2. CASE mirror[d[2]].st # "live"
      BY <2>1, <3>2 DEF TearOne
    <3>3. QED
      BY <3>1, <3>2
  <2>9. PICK x : flow' = [flow EXCEPT ![r] = x] /\ FlowOK(r, x, mirror, handle)
    BY <2>7
  <2>10. PICK t \in {"releasing", "unwinding"} :
           \/ UNCHANGED mirror /\ mirror[d[2]].st # "live"
           \/ mirror[d[2]].st = "live" /\ Moved(mirror, mirror', d[2], t)
    BY <2>8
  <2>11. ASSUME NEW n \in DOMAIN mirror, mirror'[n].st = "live", FirstIn(mirror, n)
         PROVE  mirrors'[mirror[n].s] = mirrors[mirror[n].s]
    <3>1. mirror[n].st = "live" /\ n # d[2]
      BY <2>2, <2>10, <2>11 DEF Moved
    <3>2. mirror[n].s # d[1]
      BY <2>2, <2>11, <3>1, AloneInStore
    <3>3. mirror[n] \in MirrorRec
      BY <1>1
    <3>4. QED
      BY <2>4, <3>2, <3>3 DEF MirrorRec
  <2>12. \A s \in Sessions : mirrors'[s] # None => mirrors'[s] = mirrors[s] /\ mirrors'[s] # d[2]
    <3>1. \A s \in Sessions : mirrors[s] # None => mirror[mirrors[s]].s = s
      BY DEF RegistryInv, Entries
    <3>2. QED
      BY <2>2, <2>4, <3>1
  <2>13. OneDisposed(d[2], t)
    BY <2>2, <2>10 DEF OneDisposed
  <2>14. EntriesLeft(r, x, d[2])
    BY <1>1, <2>12 DEF EntriesLeft
  <2>15. FirstLeft
    BY <2>11 DEF FirstLeft
  <2>16. QED
    BY <1>1, <2>4, <2>5, <2>6, <2>9, <2>13, <2>14, <2>15, DisposeStep
<1>5. QED
  BY <1>3, <1>4

\* disposeOwned deletes the entry of a session whose mirror lives no more.
LEMMA OwnerForgets ==
  ASSUME RegistryInv, NEW o \in Owners, flow[o].pc \in {"own", "disposing"},
         mirror[flow[o].m].st # "live",
         mirrors' = [mirrors EXCEPT ![mirror[flow[o].m].s] = None],
         flow' = [flow EXCEPT ![o] = Over],
         UNCHANGED <<handles, handle, inflight, mirror, doomed, disposed>>
  PROVE  RegistryInv'
<1> DEFINE m == flow[o].m
<1>1. /\ o \in Flows /\ flow \in [Flows -> FlowRec] /\ mirror \in Seq(MirrorRec)
      /\ doomed \in [Tearers -> SUBSET (Sessions \X Nat)] /\ mirrors \in [Sessions -> Nat]
  BY DEF RegistryInv, ValuesOK, Flows
<1>2. m \in DOMAIN mirror /\ Entered(mirror, m)
  BY <1>1 DEF RegistryInv, FlowsOK, FlowOK
<1>3. mirror[m].s \in Sessions
  <2>1. mirror[m] \in MirrorRec
    BY <1>1, <1>2
  <2>2. QED
    BY <2>1 DEF MirrorRec
<1>4. mirrors' \in [Sessions -> Nat] /\ \A s \in Sessions : mirrors'[s] = IF s = mirror[m].s THEN None ELSE mirrors[s]
  BY <1>1, <1>3 DEF None
<1>5. FlowOK(o, Over, mirror, handle)
  BY RestOK
<1>6. DoomedOK(doomed', mirror, mirrors')
  <2>1. \A d \in doomed[Proxy] : d[1] \in Sessions /\ d[2] # None /\ mirrors[d[1]] # d[2]
    BY <1>1 DEF RegistryInv, DoomedOK, Tearers, None
  <2>2. \A d \in doomed[Proxy] : mirrors'[d[1]] # d[2]
    BY <1>4, <2>1
  <2>3. QED
    BY <2>2 DEF RegistryInv, DoomedOK
<1>7. OneDisposed(None, "unwinding")
  BY DEF OneDisposed
<1>8. EntriesLeft(o, Over, None)
  <2>1. \A s \in Sessions : mirrors[s] # None => mirror[mirrors[s]].s = s
    BY DEF RegistryInv, Entries
  <2>2. QED
    BY <1>4, <2>1 DEF EntriesLeft
<1>9. FirstLeft
  <2> SUFFICES ASSUME NEW n \in DOMAIN mirror, mirror[n].st = "live", FirstIn(mirror, n)
               PROVE  mirrors'[mirror[n].s] = mirrors[mirror[n].s]
    BY DEF FirstLeft
  <2>1. mirror[n].s # mirror[m].s
    BY <1>2, AloneInStore
  <2>2. mirror[n] \in MirrorRec
    BY <1>1
  <2>3. QED
    BY <1>4, <2>1, <2>2 DEF MirrorRec
<1>10. QED
  BY <1>1, <1>4, <1>5, <1>6, <1>7, <1>8, <1>9, DisposeStep

\* The owner of a mirror disposes it.
LEMMA OwnerDisposesKeeps ==
  ASSUME RegistryInv, NEW o \in Owners, OwnerDisposes(o)
  PROVE  RegistryInv'
<1> DEFINE m == flow[o].m
<1>1. /\ o \in Flows /\ flow \in [Flows -> FlowRec] /\ flow[o] \in FlowRec /\ flow[o].pc = "own"
      /\ doomed \in [Tearers -> SUBSET (Sessions \X Nat)] /\ mirrors \in [Sessions -> Nat]
      /\ UNCHANGED <<handles, handle, inflight, doomed, disposed>>
  BY DEF RegistryInv, ValuesOK, Flows, OwnerDisposes, clientVars
<1>2. m \in DOMAIN mirror /\ Entered(mirror, m)
  BY <1>1 DEF RegistryInv, FlowsOK, FlowOK
<1>3. CASE mirror[m].st = "live"
  <2> DEFINE x == [flow[o] EXCEPT !.pc = "disposing"]
             t == DisposeTo(m, TRUE)
  <2>1. /\ mirror' = [mirror EXCEPT ![m].st = t] /\ flow' = [flow EXCEPT ![o].pc = "disposing"]
        /\ mirrors' = mirrors
    BY <1>3 DEF OwnerDisposes, Goto
  <2>2. flow' = [flow EXCEPT ![o] = x]
    BY <1>1, <2>1
  <2>3. FlowOK(o, x, mirror, handle) /\ x.m = m /\ x.pc = "disposing"
    BY <1>1, <1>2 DEF FlowOK, FlowRec, Pcs
  <2>4. t \in {"releasing", "unwinding"} /\ Moved(mirror, mirror', m, t)
    BY <1>2, <2>1, DisposeFacts
  <2> HIDE DEF t, x
  <2>5. OneDisposed(m, t)
    BY <1>2, <1>3, <2>4 DEF OneDisposed
  <2>6. EntriesLeft(o, x, m)
    BY <1>1, <2>1, <2>3 DEF EntriesLeft
  <2>7. FirstLeft /\ DoomedOK(doomed', mirror, mirrors')
    BY <1>1, <2>1 DEF FirstLeft, RegistryInv
  <2>8. QED
    BY <1>1, <2>1, <2>2, <2>3, <2>4, <2>5, <2>6, <2>7, DisposeStep
<1>4. CASE mirror[m].st # "live"
  BY <1>1, <1>4, OwnerForgets DEF OwnerDisposes
<1>5. QED
  BY <1>3, <1>4

\* The dispose of the plugin, over mirrors that are registered no more.
LEMMA ProxyNextKeeps ==
  ASSUME RegistryInv, NEW D \in SUBSET (Sessions \X Nat), ProxyNext(D),
         UNCHANGED <<handles, handle, inflight>>, disposed => disposed',
         \A d \in D : d[2] \in DOMAIN mirror /\ mirror[d[2]].s = d[1] /\ Entered(mirror, d[2]),
         mirrors' \in [Sessions -> Nat],
         \A s \in Sessions : mirrors'[s] # None => mirrors'[s] = mirrors[s],
         \A d \in D : mirrors'[d[1]] # d[2], FirstLeft
  PROVE  RegistryInv'
<1>1. /\ Proxy \in Flows /\ Proxy \notin Owners /\ Proxy \in Tearers
      /\ flow \in [Flows -> FlowRec] /\ flow[Proxy] \in FlowRec
      /\ doomed \in [Tearers -> SUBSET (Sessions \X Nat)]
  BY RegistryAssumption DEF RegistryInv, ValuesOK, Flows, Tearers, Proxy
<1>2. \E E \in SUBSET D : doomed' = [doomed EXCEPT ![Proxy] = E]
  BY DEF ProxyNext
<1>3. doomed' \in [Tearers -> SUBSET (Sessions \X Nat)] /\ DoomedOK(doomed', mirror, mirrors')
  <2>1. PICK E \in SUBSET D : doomed' = [doomed EXCEPT ![Proxy] = E]
    BY <1>2
  <2>2. doomed'[Proxy] = E /\ \A g \in Tearers : g # Proxy => doomed'[g] = doomed[g]
    BY <1>1, <2>1
  <2>3. \A g \in Tearers : \A d \in doomed'[g] :
          d[2] \in DOMAIN mirror /\ mirror[d[2]].s = d[1] /\ Entered(mirror, d[2])
    BY <2>2 DEF RegistryInv, DoomedOK
  <2>4. doomed' \in [Tearers -> SUBSET (Sessions \X Nat)]
    BY <1>1, <2>1
  <2>5. QED
    BY <2>2, <2>3, <2>4 DEF DoomedOK
<1>4. ASSUME NEW x, NEW m, UNCHANGED mirror \/ \A s \in Sessions : mirrors'[s] # None => mirrors'[s] # m
      PROVE  EntriesLeft(Proxy, x, m)
  BY <1>1, <1>4 DEF EntriesLeft
<1>5. CASE D = {}
  <2>1. flow' = [flow EXCEPT ![Proxy] = Over] /\ UNCHANGED mirror
    BY <1>5 DEF ProxyNext
  <2>2. FlowOK(Proxy, Over, mirror, handle)
    BY RestOK
  <2>3. OneDisposed(None, "unwinding") /\ EntriesLeft(Proxy, Over, None)
    BY <1>4, <2>1 DEF OneDisposed
  <2>4. QED
    BY <1>1, <1>3, <2>1, <2>2, <2>3, DisposeStep
<1>6. CASE D # {}
  <2>1. PICK d \in D :
          IF mirror[d[2]].st = "live"
          THEN /\ mirror' = [mirror EXCEPT ![d[2]].st = DisposeTo(d[2], TRUE)]
               /\ flow' = [flow EXCEPT ![Proxy].pc = "disposing", ![Proxy].m = d[2]]
          ELSE flow' = [flow EXCEPT ![Proxy].pc = "disposed"] /\ UNCHANGED mirror
    BY <1>6 DEF ProxyNext, Goto
  <2>2. d[1] \in Sessions /\ d[2] \in Nat /\ d[2] \in DOMAIN mirror /\ mirror[d[2]].s = d[1]
    OBVIOUS
  <2>3. CASE mirror[d[2]].st = "live"
    <3> DEFINE x == [flow[Proxy] EXCEPT !.pc = "disposing", !.m = d[2]]
               t == DisposeTo(d[2], TRUE)
    <3>1. flow' = [flow EXCEPT ![Proxy] = x] /\ mirror' = [mirror EXCEPT ![d[2]].st = t]
      BY <1>1, <2>1, <2>3
    <3>2. FlowOK(Proxy, x, mirror, handle)
      BY <1>1, <2>2 DEF FlowOK, FlowRec, Pcs
    <3>3. t \in {"releasing", "unwinding"} /\ Moved(mirror, mirror', d[2], t)
      BY <2>2, <3>1, DisposeFacts
    <3> HIDE DEF t, x
    <3>4. OneDisposed(d[2], t)
      BY <2>2, <2>3, <3>3 DEF OneDisposed
    <3>5. EntriesLeft(Proxy, x, d[2])
      <4>1. \A s \in Sessions : mirrors[s] # None => mirror[mirrors[s]].s = s
        BY DEF RegistryInv, Entries
      <4>2. \A s \in Sessions : mirrors'[s] # None => mirrors'[s] # d[2]
        BY <2>2, <4>1
      <4>3. QED
        BY <1>4, <4>2
    <3>6. QED
      BY <1>1, <1>3, <3>1, <3>2, <3>3, <3>4, <3>5, DisposeStep
  <2>4. CASE mirror[d[2]].st # "live"
    <3> DEFINE x == [flow[Proxy] EXCEPT !.pc = "disposed"]
    <3>1. flow' = [flow EXCEPT ![Proxy] = x] /\ UNCHANGED mirror
      BY <1>1, <2>1, <2>4
    <3>2. FlowOK(Proxy, x, mirror, handle)
      BY <1>1 DEF FlowOK, FlowRec, Pcs
    <3> HIDE DEF x
    <3>3. OneDisposed(None, "unwinding") /\ EntriesLeft(Proxy, x, None)
      BY <1>4, <3>1 DEF OneDisposed
    <3>4. QED
      BY <1>1, <1>3, <3>1, <3>2, <3>3, DisposeStep
  <2>5. QED
    BY <2>3, <2>4
<1>7. QED
  BY <1>5, <1>6

\* Registered mirrors were published.
LEMMA RegisteredKnown ==
  ASSUME RegistryInv
  PROVE  /\ Registered \in SUBSET (Sessions \X Nat)
         /\ \A d \in Registered :
              /\ d[2] \in DOMAIN mirror /\ mirror[d[2]].s = d[1] /\ Entered(mirror, d[2])
              /\ d[1] \in Sessions /\ d[2] # None
<1>1. mirrors \in [Sessions -> Nat]
  BY DEF RegistryInv, ValuesOK
<1>2. \A s \in Sessions : mirrors[s] # None =>
        mirrors[s] \in DOMAIN mirror /\ mirror[mirrors[s]].s = s /\ Entered(mirror, mirrors[s])
  BY DEF RegistryInv, Entries
<1>3. ASSUME NEW d \in Registered
      PROVE  /\ d \in Sessions \X Nat
             /\ d[2] \in DOMAIN mirror /\ mirror[d[2]].s = d[1] /\ Entered(mirror, d[2])
             /\ d[1] \in Sessions /\ d[2] # None
  <2>1. PICK s \in Sessions : mirrors[s] # None /\ d = <<s, mirrors[s]>>
    BY DEF Registered
  <2>2. d[1] = s /\ d[2] = mirrors[s] /\ d \in Sessions \X Nat
    BY <1>1, <2>1
  <2>3. QED
    BY <1>2, <2>1, <2>2
<1>4. QED
  BY <1>3

\* RemoteProxy.dispose.
LEMMA ProxyKeeps ==
  ASSUME RegistryInv, ProxyDisposes \/ ProxyGoesOn
  PROVE  RegistryInv'
<1>1. mirrors \in [Sessions -> Nat]
  BY DEF RegistryInv, ValuesOK
<1>2. CASE ProxyDisposes
  <2>1. /\ disposed' = TRUE /\ mirrors' = [s \in Sessions |-> None] /\ ProxyNext(Registered)
        /\ UNCHANGED <<handles, handle, inflight>>
    BY <1>2 DEF ProxyDisposes, clientVars
  <2>2. mirrors' \in [Sessions -> Nat] /\ \A s \in Sessions : mirrors'[s] = None
    BY <2>1 DEF None
  <2>3. FirstLeft
    BY <2>1 DEF FirstLeft
  <2>4. \A d \in Registered : mirrors'[d[1]] # d[2]
    BY <2>2, RegisteredKnown
  <2>5. QED
    BY <2>1, <2>2, <2>3, <2>4, RegisteredKnown, ProxyNextKeeps
<1>3. CASE ProxyGoesOn
  <2>1. ProxyNext(doomed[Proxy]) /\ UNCHANGED <<handles, handle, inflight, mirrors, disposed>>
    BY <1>3 DEF ProxyGoesOn, clientVars
  <2>2. FirstLeft
    BY <2>1 DEF FirstLeft
  <2>3. doomed[Proxy] \in SUBSET (Sessions \X Nat)
    BY DEF RegistryInv, ValuesOK, Tearers
  <2>4. /\ \A d \in doomed[Proxy] : d[2] \in DOMAIN mirror /\ mirror[d[2]].s = d[1] /\ Entered(mirror, d[2])
        /\ \A d \in doomed[Proxy] : mirrors'[d[1]] # d[2]
    BY <2>1 DEF RegistryInv, DoomedOK, Tearers
  <2>5. QED
    BY <1>1, <2>1, <2>2, <2>3, <2>4, ProxyNextKeeps
<1>4. QED
  BY <1>2, <1>3

----------------------------------------------------------------------------
(* Calls and their answers *)

\* What is known of a flow.
LEMMA FlowKnown ==
  ASSUME RegistryInv, NEW f \in Flows
  PROVE  /\ flow \in [Flows -> FlowRec] /\ flow[f] \in FlowRec /\ FlowOK(f, flow[f], mirror, handle)
         /\ flow[f].list \in Seq(Sessions) /\ flow[f].seen \in SUBSET Sessions
         /\ handle \in Seq(HandleRec) /\ handles \in [Sessions -> Nat]
<1>1. flow \in [Flows -> FlowRec] /\ flow[f] \in FlowRec /\ FlowOK(f, flow[f], mirror, handle)
  BY DEF RegistryInv, ValuesOK, FlowsOK
<1>2. QED
  BY <1>1 DEF FlowRec, RegistryInv, ValuesOK

\* Handles that do not change.
LEMMA SameHandles ==
  ASSUME RegistryInv, UNCHANGED handle
  PROVE  HandlesSame(handle, handle') /\ HandlesGrow(handle, handle')
BY DEF RegistryInv, ValuesOK, HandlesSame, HandlesGrow

\* The registry of a state is what it was when nothing of it changes.
LEMMA NothingChanges ==
  ASSUME RegistryInv, UNCHANGED <<handles, handle, mirrors, inflight, mirror, flow, doomed, disposed>>
  PROVE  RegistryInv'
BY DEF RegistryInv, ValuesOK

\* A flow that ends, or waits for its next call, and holds what it needs.
LEMMA FlowOnly ==
  ASSUME RegistryInv, UNCHANGED <<handles, handle, mirrors, inflight, mirror, doomed, disposed>>,
         NEW f \in Flows, NEW x, flow' = [flow EXCEPT ![f] = x], FlowOK(f, x, mirror, handle),
         flow[f].pc # "disposing"
  PROVE  RegistryInv'
<1>1. HandlesSame(handle, handle')
  BY SameHandles
<1>2. QED
  BY <1>1, FlowMoves

\* A flow that goes on to a call about its session.
LEMMA GotoKeeps ==
  ASSUME RegistryInv, UNCHANGED <<handles, handle, mirrors, inflight, mirror, doomed, disposed>>,
         NEW f \in Flows, NEW pc \in {"list", "attaching", "attached", "created", "listing", "forked"},
         Goto(f, pc), pc # "list" => flow[f].s \in Sessions, flow[f].pc # "disposing"
  PROVE  RegistryInv'
<1> DEFINE x == [flow[f] EXCEPT !.pc = pc]
<1>1. flow \in [Flows -> FlowRec] /\ flow[f] \in FlowRec
  BY FlowKnown
<1>2. flow' = [flow EXCEPT ![f] = x]
  BY <1>1 DEF Goto
<1>3. x \in FlowRec /\ x.pc = pc /\ x.s = flow[f].s
  BY <1>1 DEF FlowRec, Pcs
<1> HIDE DEF x
<1>4. FlowOK(f, x, mirror, handle)
  BY <1>3 DEF FlowOK
<1>5. QED
  BY <1>2, <1>4, FlowOnly

\* mirrorSession with a handle that was there before.
LEMMA MirrorSessionSame ==
  ASSUME RegistryInv, NEW f \in Reconciles \cup Owners, NEW s \in Sessions, NEW list \in Seq(Sessions),
         HasHandle(s), MirrorSession(f, s, handles[s], list), flow[f].pc # "disposing",
         UNCHANGED <<handles, handle, doomed, disposed>>
  PROVE  RegistryInv'
<1>1. handles[s] \in DOMAIN handle /\ handle[handles[s]].s = s
  BY DEF HasHandle, RegistryInv, HandlesOK
<1>2. handles' \in [Sessions -> Nat] /\ HandlesOK(handles', handle')
  BY DEF RegistryInv, ValuesOK
<1> DEFINE h == handles[s]
<1>3. h \in DOMAIN handle' /\ handle'[h].s = s /\ (h \notin DOMAIN handle => ~handle'[h].detached)
  BY <1>1
<1>4. MirrorSession(f, s, h, list) /\ UNCHANGED <<doomed, disposed>>
  OBVIOUS
<1> HIDE DEF h
<1>5. QED
  BY <1>2, <1>3, <1>4, SameHandles, MirrorSessionKeeps

\* The loop over the list of the daemon.
LEMMA SweepKeeps ==
  ASSUME RegistryInv, NEW r \in Reconciles, Sweep(r)
  PROVE  RegistryInv'
<1> DEFINE list == flow[r].list
           i == SelectInSeq(list, LAMBDA s : mirrors[s] = None /\ inflight[s] = None)
           rest == SubSeq(list, i + 1, Len(list))
           I == {j \in 1..Len(list) : mirrors[list[j]] = None /\ inflight[list[j]] = None}
           D == {d \in Registered : d[1] \notin flow[r].seen}
<1>1. r \in Flows /\ flow[r].pc = "sweep" /\ UNCHANGED <<handles, handle, disposed>>
  BY DEF Flows, Sweep, clientVars
<1>2. list \in Seq(Sessions) /\ flow \in [Flows -> FlowRec] /\ flow[r] \in FlowRec
  BY <1>1, FlowKnown
<1>3. i \in 0..Len(list)
  <2>1. i = IF I # {} THEN Min(I) ELSE 0
    BY DEF SelectInSeq
  <2>2. I \in SUBSET Nat /\ I \subseteq 1..Len(list)
    OBVIOUS
  <2> HIDE DEF I
  <2>3. I # {} => Min(I) \in I
    BY <2>2, LeastTaken
  <2>4. QED
    BY <1>2, <2>1, <2>2, <2>3
<1>4. /\ i = 0 => TearSome(r, D) /\ UNCHANGED inflight
      /\ i # 0 /\ HasHandle(list[i]) => MirrorSession(r, list[i], handles[list[i]], rest) /\ UNCHANGED doomed
      /\ i # 0 /\ ~HasHandle(list[i]) =>
           /\ flow' = [flow EXCEPT ![r].pc = "attaching", ![r].s = list[i], ![r].list = rest]
           /\ UNCHANGED <<mirrors, mirror, inflight, doomed>>
  BY DEF Sweep
<1> HIDE DEF i
<1>5. i # 0 => list[i] \in Sessions /\ rest \in Seq(Sessions)
  BY <1>2, <1>3
<1>6. D \in SUBSET (Sessions \X Nat) /\ \A d \in D :
        d[2] \in DOMAIN mirror /\ mirror[d[2]].s = d[1] /\ Entered(mirror, d[2])
  BY RegisteredKnown
<1> HIDE DEF D, list, rest
<1>7. CASE i = 0
  BY <1>1, <1>4, <1>6, <1>7, TearSomeKeeps
<1>8. CASE i # 0 /\ HasHandle(list[i])
  <2>1. flow[r].pc # "disposing"
    BY <1>1
  <2>2. QED
    BY <1>1, <1>4, <1>5, <1>8, <2>1, MirrorSessionSame
<1>9. CASE i # 0 /\ ~HasHandle(list[i])
  <2> DEFINE x == [flow[r] EXCEPT !.pc = "attaching", !.s = list[i], !.list = rest]
  <2>1. flow' = [flow EXCEPT ![r] = x]
    BY <1>2, <1>4, <1>9, <1>1
  <2>2. FlowOK(r, x, mirror, handle)
    BY <1>2, <1>5, <1>9 DEF FlowOK, FlowRec, Pcs
  <2>3. flow[r].pc # "disposing"
    BY <1>1
  <2> HIDE DEF x
  <2>4. QED
    BY <1>1, <1>4, <1>9, <2>1, <2>2, <2>3, FlowOnly
<1>10. QED
  BY <1>7, <1>8, <1>9

\* A reconcile.
LEMMA ReconcileKeeps ==
  ASSUME RegistryInv, NEW r \in Reconciles, ReconcileStarts(r) \/ ReconcileStep(r)
  PROVE  RegistryInv'
<1>1. r \in Flows /\ r \in Tearers
  BY DEF Flows, Tearers
<1>2. CASE ReconcileStarts(r)
  <2>1. /\ flow[r].pc # "disposing" /\ UNCHANGED <<handles, handle, mirrors, inflight, mirror, doomed, disposed>>
        /\ flow' = flow \/ Goto(r, "list")
    BY <1>2 DEF ReconcileStarts, clientVars, proxyVars, Goto
  <2>2. CASE flow' = flow
    BY <2>1, <2>2, NothingChanges
  <2>3. CASE Goto(r, "list")
    BY <1>1, <2>1, <2>3, GotoKeeps
  <2>4. QED
    BY <2>1, <2>2, <2>3
<1>3. CASE ListServed(r)
  <2>1. /\ flow[r].pc # "disposing" /\ UNCHANGED <<handles, handle, mirrors, inflight, mirror, doomed, disposed>>
        /\ \E q \in SetToSeqs(Active) :
             flow' = [flow EXCEPT ![r].pc = "sweep", ![r].list = q, ![r].seen = Active]
    BY <1>3 DEF ListServed, clientVars, proxyVars
  <2>2. PICK q \in SetToSeqs(Active) :
          flow' = [flow EXCEPT ![r].pc = "sweep", ![r].list = q, ![r].seen = Active]
    BY <2>1
  <2>3. Active \in SUBSET Sessions
    BY DEF Active
  <2>4. q \in Seq(Sessions)
    BY <2>3, Listed
  <2> DEFINE x == [flow[r] EXCEPT !.pc = "sweep", !.list = q, !.seen = Active]
  <2>5. flow \in [Flows -> FlowRec] /\ flow[r] \in FlowRec
    BY <1>1, FlowKnown
  <2>6. flow' = [flow EXCEPT ![r] = x]
    BY <1>1, <2>2, <2>5
  <2>7. FlowOK(r, x, mirror, handle)
    BY <2>3, <2>4, <2>5 DEF FlowOK, FlowRec, Pcs
  <2> HIDE DEF x
  <2>8. QED
    BY <1>1, <2>1, <2>6, <2>7, FlowOnly
<1>4. CASE ListFails(r)
  <2>1. /\ flow[r].pc # "disposing" /\ UNCHANGED <<handles, handle, mirrors, inflight, mirror, doomed, disposed>>
        /\ flow' = [flow EXCEPT ![r] = Idle]
    BY <1>4 DEF ListFails, clientVars, proxyVars
  <2>2. QED
    BY <1>1, <2>1, RestOK, FlowOnly
<1>5. CASE Sweep(r)
  BY <1>5, SweepKeeps
<1>6. CASE TeardownGoesOn(r)
  <2>1. TearSome(r, doomed[r]) /\ UNCHANGED <<handles, handle, inflight, disposed>>
    BY <1>6 DEF TeardownGoesOn, clientVars
  <2>2. doomed[r] \in SUBSET (Sessions \X Nat)
    BY <1>1 DEF RegistryInv, ValuesOK
  <2>3. \A d \in doomed[r] : d[2] \in DOMAIN mirror /\ mirror[d[2]].s = d[1] /\ Entered(mirror, d[2])
    BY <1>1 DEF RegistryInv, DoomedOK
  <2>4. QED
    BY <2>1, <2>2, <2>3, TearSomeKeeps
<1>7. QED
  BY <1>2, <1>3, <1>4, <1>5, <1>6 DEF ReconcileStep

\* The registration of a new handle.
LEMMA AttachedKeeps ==
  ASSUME RegistryInv, NEW f \in Reconciles \cup Owners, Attached(f)
  PROVE  RegistryInv'
<1> DEFINE s == flow[f].s
           k == [s |-> s, mode |-> ModeOf(f), detached |-> FALSE]
           h == Len(handle) + 1
<1>1. /\ f \in Flows /\ flow[f].pc = "attached"
      /\ handle' = Append(handle, k)
      /\ handles' = [handles EXCEPT ![s] = Len(handle')]
      /\ MirrorSession(f, s, Len(handle'), flow[f].list)
      /\ UNCHANGED <<doomed, disposed>>
  BY DEF Attached, Flows
<1>2. /\ s \in Sessions /\ flow[f].list \in Seq(Sessions)
      /\ handle \in Seq(HandleRec) /\ handles \in [Sessions -> Nat]
  <2>1. FlowOK(f, flow[f], mirror, handle)
    BY <1>1, FlowKnown
  <2>2. s \in Sessions
    BY <1>1, <2>1 DEF FlowOK
  <2>3. QED
    BY <1>1, <2>2, FlowKnown
<1>3. k \in HandleRec /\ k.s = s /\ k.detached = FALSE
  BY <1>2 DEF HandleRec, ModeOf
<1> HIDE DEF k, s
<1>4. /\ handle' \in Seq(HandleRec) /\ Len(handle') = h /\ h \in Nat /\ h # None
      /\ DOMAIN handle' = DOMAIN handle \cup {h} /\ handle'[h] = k /\ h \notin DOMAIN handle
      /\ \A g \in DOMAIN handle : handle'[g] = handle[g]
  BY <1>1, <1>2, <1>3 DEF None
<1> HIDE DEF h
<1>5. HandlesGrow(handle, handle')
  BY <1>4 DEF HandlesGrow
<1>6. handles' \in [Sessions -> Nat] /\ \A r \in Sessions : handles'[r] = IF r = s THEN h ELSE handles[r]
  BY <1>1, <1>2, <1>4
<1>7. HandlesOK(handles', handle')
  <2>1. \A r \in Sessions : handles[r] # None => handles[r] \in DOMAIN handle /\ handle[handles[r]].s = r
    BY DEF RegistryInv, HandlesOK
  <2>2. QED
    BY <1>3, <1>4, <1>6, <2>1 DEF HandlesOK
<1>8. h \in DOMAIN handle' /\ handle'[h].s = s /\ (h \notin DOMAIN handle => ~handle'[h].detached)
  BY <1>3, <1>4
<1>9. MirrorSession(f, s, h, flow[f].list) /\ flow[f].pc # "disposing"
  BY <1>1, <1>4
<1>10. QED
  BY <1>1, <1>2, <1>5, <1>6, <1>7, <1>8, <1>9, MirrorSessionKeeps

\* The calls of client.attach.
LEMMA AttachKeeps ==
  ASSUME RegistryInv, NEW f \in Reconciles \cup Owners, AttachStep(f)
  PROVE  RegistryInv'
<1>1. f \in Flows
  BY DEF Flows
<1>2. FlowOK(f, flow[f], mirror, handle) /\ flow[f].list \in Seq(Sessions)
  BY <1>1, FlowKnown
<1>3. CASE AttachServed(f)
  <2>1. /\ flow[f].pc = "attaching" /\ Goto(f, "attached")
        /\ UNCHANGED <<handles, handle, mirrors, inflight, mirror, doomed, disposed>>
    BY <1>3 DEF AttachServed, clientVars, proxyVars
  <2>2. flow[f].s \in Sessions
    BY <1>2, <2>1 DEF FlowOK
  <2>3. QED
    BY <1>1, <2>1, <2>2, GotoKeeps
<1>4. CASE AttachFails(f)
  <2>1. /\ flow[f].pc # "disposing" /\ flow' = [flow EXCEPT ![f] = After(f, FALSE, None, flow[f].list)]
        /\ UNCHANGED <<handles, handle, mirrors, inflight, mirror, doomed, disposed>>
    BY <1>4 DEF AttachFails, clientVars, proxyVars
  <2>2. None \in Nat
    BY DEF None
  <2>3. FlowOK(f, After(f, FALSE, None, flow[f].list), mirror, handle)
    BY <1>1, <1>2, <2>2, AfterOK
  <2>4. QED
    BY <1>1, <2>1, <2>3, FlowOnly
<1>5. CASE Attached(f)
  BY <1>5, AttachedKeeps
<1>6. QED
  BY <1>3, <1>4, <1>5 DEF AttachStep

\* The write attach of create and resume.
LEMMA AttachWriteKeeps ==
  ASSUME RegistryInv, NEW o \in Owners, AttachWrite(o), flow[o].pc \in {"created", "listing"},
         UNCHANGED <<handles, handle, doomed, disposed>>
  PROVE  RegistryInv'
<1> DEFINE s == flow[o].s
           h == handles[s]
<1>1. o \in Flows /\ o \in Reconciles \cup Owners /\ flow[o].pc # "disposing" /\ <<>> \in Seq(Sessions)
  BY DEF Flows
<1>2. FlowOK(o, flow[o], mirror, handle) /\ flow \in [Flows -> FlowRec] /\ flow[o] \in FlowRec
  BY <1>1, FlowKnown
<1>3. s \in Sessions
  BY <1>2 DEF FlowOK
<1>4. CASE ~HasHandle(s)
  <2>1. Goto(o, "attaching") /\ UNCHANGED <<mirrors, inflight, mirror>>
    BY <1>4 DEF AttachWrite
  <2>2. QED
    BY <1>1, <1>3, <2>1, GotoKeeps
<1>5. CASE HasHandle(s) /\ handle[h].mode = "read"
  <2>1. flow' = [flow EXCEPT ![o].pc = "acquiring", ![o].h = h] /\ UNCHANGED <<mirrors, inflight, mirror>>
    BY <1>5 DEF AttachWrite
  <2>2. h \in DOMAIN handle /\ handle[h].s = s /\ h \in Nat
    BY <1>3, <1>5 DEF HasHandle, RegistryInv, HandlesOK, ValuesOK
  <2> DEFINE x == [flow[o] EXCEPT !.pc = "acquiring", !.h = h]
  <2>3. flow' = [flow EXCEPT ![o] = x]
    BY <1>1, <1>2, <2>1
  <2>4. x \in FlowRec /\ x.pc = "acquiring" /\ x.s = s /\ x.h = h
    BY <1>2, <2>2 DEF FlowRec, Pcs
  <2> HIDE DEF x, h, s
  <2>5. FlowOK(o, x, mirror, handle)
    BY <1>3, <2>2, <2>4 DEF FlowOK
  <2>6. QED
    BY <1>1, <2>1, <2>3, <2>5, FlowOnly
<1>6. CASE HasHandle(s) /\ handle[h].mode # "read"
  <2>1. MirrorSession(o, s, handles[s], <<>>)
    BY <1>6 DEF AttachWrite
  <2> HIDE DEF s
  <2>2. QED
    BY <1>1, <1>3, <1>6, <2>1, MirrorSessionSame
<1>7. QED
  BY <1>4, <1>5, <1>6

\* The write lease of a handle was acquired.
LEMMA AcquiredKeeps ==
  ASSUME RegistryInv, NEW o \in Owners, Acquired(o)
  PROVE  RegistryInv'
<1> DEFINE s == flow[o].s
           h == flow[o].h
<1>1. /\ o \in Flows /\ o \in Reconciles \cup Owners /\ flow[o].pc = "acquiring" /\ <<>> \in Seq(Sessions)
      /\ handle' = [handle EXCEPT ![h].mode = "write"] /\ MirrorSession(o, s, h, <<>>)
      /\ UNCHANGED <<handles, doomed, disposed>>
  BY DEF Flows, Acquired
<1>2. FlowOK(o, flow[o], mirror, handle) /\ handle \in Seq(HandleRec) /\ handles \in [Sessions -> Nat]
  BY <1>1, FlowKnown
<1>3. s \in Sessions /\ h \in DOMAIN handle /\ handle[h].s = s
  BY <1>1, <1>2 DEF FlowOK
<1> HIDE DEF s, h
<1>4. HandlesSame(handle, handle')
  BY <1>1, <1>2, <1>3, ModeFacts
<1>5. HandlesGrow(handle, handle')
  BY <1>4 DEF HandlesSame, HandlesGrow
<1>6. HandlesOK(handles', handle') /\ h \in DOMAIN handle' /\ handle'[h].s = s
  <2>1. HandlesOK(handles, handle')
    BY <1>4 DEF RegistryInv, HandlesOK, HandlesSame
  <2>2. QED
    BY <1>1, <1>3, <1>4, <2>1 DEF HandlesSame
<1>7. flow[o].pc # "disposing" /\ (h \notin DOMAIN handle => ~handle'[h].detached) /\ handles' \in [Sessions -> Nat]
  BY <1>1, <1>2, <1>3
<1>8. QED
  BY <1>1, <1>3, <1>5, <1>6, <1>7, MirrorSessionKeeps

\* A registered mirror is borrowed and its lease released.
LEMMA BorrowKeeps ==
  ASSUME RegistryInv, NEW o \in Owners, Borrowed(o) \/ BorrowerReleases(o)
  PROVE  RegistryInv'
<1> DEFINE h == flow[o].h
<1>1. /\ o \in Flows /\ flow[o].pc \in {"borrowing", "borrowed"}
      /\ UNCHANGED <<handles, mirrors, inflight, mirror, doomed, disposed>>
  BY DEF Flows, Borrowed, BorrowerReleases, proxyVars
<1>2. /\ FlowOK(o, flow[o], mirror, handle) /\ handle \in Seq(HandleRec)
      /\ flow \in [Flows -> FlowRec] /\ flow[o] \in FlowRec
  BY <1>1, FlowKnown
<1>3. h \in DOMAIN handle
  BY <1>1, <1>2 DEF FlowOK
<1>4. HandlesSame(handle, handle')
  <2>1. \/ UNCHANGED handle \/ handle' = [handle EXCEPT ![h].mode = "write"]
        \/ handle' = [handle EXCEPT ![h].mode = "read"]
    BY DEF Borrowed, BorrowerReleases
  <2> HIDE DEF h
  <2>2. QED
    BY <1>2, <1>3, <2>1, ModeFacts, SameHandles
<1>5. CASE Borrowed(o)
  <2> DEFINE x == [flow[o] EXCEPT !.pc = "borrowed"]
  <2>1. flow' = [flow EXCEPT ![o] = x]
    BY <1>1, <1>2, <1>5 DEF Borrowed, Goto
  <2>2. x \in FlowRec /\ x.pc = "borrowed" /\ x.h = h
    BY <1>2 DEF FlowRec, Pcs
  <2> HIDE DEF x, h
  <2>3. FlowOK(o, x, mirror, handle)
    BY <1>3, <2>2 DEF FlowOK
  <2>4. QED
    BY <1>1, <1>4, <2>1, <2>3, FlowMoves
<1>6. CASE BorrowerReleases(o)
  <2>1. flow' = [flow EXCEPT ![o] = Over]
    BY <1>6 DEF BorrowerReleases
  <2>2. QED
    BY <1>1, <1>4, <2>1, RestOK, FlowMoves
<1>7. QED
  BY <1>5, <1>6

\* What a caller of create, resume or forkRemote starts with.
LEMMA CallOK ==
  ASSUME NEW o, NEW q, NEW k, NEW s \in Sessions, NEW op \in {"create", "resume", "fork"},
         NEW pc \in {"creating", "preparing", "forking"}
  PROVE  /\ FlowOK(o, [Idle EXCEPT !.pc = pc, !.op = op, !.s = s], q, k)
         /\ FlowOK(o, [Idle EXCEPT !.pc = pc, !.op = op, !.s = s, !.h = None], q, k)
<1> DEFINE x == [Idle EXCEPT !.pc = pc, !.op = op, !.s = s]
           y == [Idle EXCEPT !.pc = pc, !.op = op, !.s = s, !.h = None]
<1>1. Idle \in FlowRec
  BY DEF Idle, FlowRec, Pcs, None
<1>2. x \in FlowRec /\ x.pc = pc /\ x.s = s
  BY <1>1 DEF FlowRec, Pcs
<1>3. y \in FlowRec /\ y.pc = pc /\ y.s = s
  BY <1>1 DEF FlowRec, Pcs, None
<1> HIDE DEF x, y
<1>4. FlowOK(o, x, q, k) /\ FlowOK(o, y, q, k)
  BY <1>2, <1>3 DEF FlowOK
<1>5. QED
  BY <1>4 DEF x, y

\* agents.resume is called.
LEMMA ResumeKeeps ==
  ASSUME RegistryInv, NEW o \in Owners, NEW s \in Sessions, ResumeCall(o, s)
  PROVE  RegistryInv'
<1> DEFINE h == mirror[mirrors[s]].h
           cold == [Idle EXCEPT !.pc = "preparing", !.op = "resume", !.s = s, !.h = None]
           warm(pc) == [Idle EXCEPT !.pc = pc, !.op = "resume", !.s = IF h = None THEN s ELSE None, !.h = h]
<1>1. /\ o \in Flows /\ flow[o].pc # "disposing"
      /\ UNCHANGED <<handles, handle, mirrors, inflight, mirror, doomed, disposed>>
  BY DEF Flows, ResumeCall, clientVars, proxyVars
<1>2. CASE mirrors[s] = None
  <2>1. flow' = [flow EXCEPT ![o] = Over] \/ flow' = [flow EXCEPT ![o] = cold]
    BY <1>2, Zenon DEF ResumeCall, None
  <2>2. FlowOK(o, cold, mirror, handle)
    BY CallOK, Zenon
  <2> HIDE DEF cold
  <2>3. QED
    BY <1>1, <2>1, <2>2, RestOK, FlowOnly
<1>3. CASE mirrors[s] # None
  <2>1. \/ flow' = [flow EXCEPT ![o] = Over] \/ flow' = [flow EXCEPT ![o] = warm("borrowed")]
        \/ flow' = [flow EXCEPT ![o] = warm("borrowing")]
    BY <1>3 DEF ResumeCall
  <2>2. h \in DOMAIN handle /\ h \in Nat
    <3>1. mirrors[s] \in DOMAIN mirror
      BY <1>3 DEF RegistryInv, Entries
    <3>2. QED
      BY <3>1 DEF RegistryInv, MirrorsOK, ValuesOK
  <2> HIDE DEF h
  <2>3. ASSUME NEW pc \in {"borrowed", "borrowing"} PROVE FlowOK(o, warm(pc), mirror, handle)
    <3>1. Idle \in FlowRec
      BY DEF Idle, FlowRec, Pcs, None
    <3>2. warm(pc) \in FlowRec /\ warm(pc).pc = pc /\ warm(pc).h = h
      BY <2>2, <3>1 DEF FlowRec, Pcs, None
    <3> HIDE DEF warm
    <3>3. QED
      BY <2>2, <3>2 DEF FlowOK
  <2> HIDE DEF warm
  <2>4. QED
    BY <1>1, <2>1, <2>3, RestOK, FlowOnly
<1>4. QED
  BY <1>2, <1>3

\* The calls of create and forkRemote, their answers and failures.
LEMMA CallsKeep ==
  ASSUME RegistryInv, NEW o \in Owners,
         \/ CallFails(o) \/ CreateServed(o) \/ ColdRead(o) \/ ForkServed(o)
         \/ \E s \in Sessions : CreateCall(o, s)
         \/ \E s, child \in Sessions : ForkCall(o, s, child)
  PROVE  RegistryInv'
<1>1. /\ o \in Flows /\ flow[o].pc # "disposing"
      /\ UNCHANGED <<handles, handle, mirrors, inflight, mirror, doomed, disposed>>
  BY DEF Flows, CallFails, CreateServed, ColdRead, ForkServed, CreateCall, ForkCall, clientVars, proxyVars
<1>2. FlowOK(o, flow[o], mirror, handle)
  BY <1>1, FlowKnown
<1>3. CASE CallFails(o)
  <2>1. flow' = [flow EXCEPT ![o] = Over]
    BY <1>3 DEF CallFails
  <2>2. QED
    BY <1>1, <2>1, RestOK, FlowOnly
<1>4. CASE CreateServed(o) \/ ColdRead(o) \/ ForkServed(o)
  <2>1. flow[o].s \in Sessions
    BY <1>2, <1>4 DEF FlowOK, CreateServed, ColdRead, ForkServed
  <2>2. PICK pc \in {"created", "listing", "forked"} : Goto(o, pc)
    BY <1>4 DEF CreateServed, ColdRead, ForkServed
  <2>3. QED
    BY <1>1, <2>1, <2>2, GotoKeeps
<1>5. ASSUME NEW s \in Sessions, NEW op \in {"create", "fork"}, NEW pc \in {"creating", "forking"},
             Call(o, op, s, pc)
      PROVE  RegistryInv'
  <2> DEFINE x == [Idle EXCEPT !.pc = pc, !.op = op, !.s = s]
  <2>1. flow' = [flow EXCEPT ![o] = x]
    BY <1>5 DEF Call
  <2>2. FlowOK(o, x, mirror, handle)
    BY CallOK, Zenon
  <2> HIDE DEF x
  <2>3. QED
    BY <1>1, <2>1, <2>2, FlowOnly, Zenon
<1>6. CASE \E s \in Sessions : CreateCall(o, s)
  BY <1>5, <1>6 DEF CreateCall
<1>7. CASE \E s, child \in Sessions : ForkCall(o, s, child)
  BY <1>5, <1>7 DEF ForkCall
<1>8. QED
  BY <1>3, <1>4, <1>6, <1>7

\* The steps of a caller of create, resume or forkRemote.
LEMMA OwnerKeeps ==
  ASSUME RegistryInv, NEW o \in Owners, OwnerStep(o)
  PROVE  RegistryInv'
<1>1. CASE CallFails(o) \/ CreateServed(o) \/ ColdRead(o) \/ ForkServed(o)
  BY <1>1, CallsKeep
<1>2. CASE Acquired(o)
  BY <1>2, AcquiredKeeps
<1>3. CASE Created(o) \/ Prepared(o)
  <2>1. /\ AttachWrite(o) /\ flow[o].pc \in {"created", "listing"}
        /\ UNCHANGED <<handles, handle, doomed, disposed>>
    BY <1>3 DEF Created, Prepared, clientVars
  <2>2. QED
    BY <2>1, AttachWriteKeeps
<1>4. CASE Borrowed(o)
  BY <1>4, BorrowKeeps
<1>5. CASE Forked(o)
  <2>1. /\ flow[o].pc = "forked" /\ UNCHANGED <<handles, handle, doomed, disposed>>
        /\ o \in Flows /\ o \in Reconciles \cup Owners /\ <<>> \in Seq(Sessions)
        /\ IF HasHandle(flow[o].s) THEN MirrorSession(o, flow[o].s, handles[flow[o].s], <<>>)
           ELSE Goto(o, "attaching") /\ UNCHANGED <<mirrors, inflight, mirror>>
    BY <1>5 DEF Forked, clientVars, Flows
  <2>2. FlowOK(o, flow[o], mirror, handle)
    BY <2>1, FlowKnown
  <2>3. flow[o].s \in Sessions /\ flow[o].pc # "disposing"
    BY <2>1, <2>2 DEF FlowOK
  <2>4. CASE HasHandle(flow[o].s)
    BY <2>1, <2>3, <2>4, MirrorSessionSame
  <2>5. CASE ~HasHandle(flow[o].s)
    BY <2>1, <2>3, <2>5, GotoKeeps
  <2>6. QED
    BY <2>4, <2>5
<1>6. CASE OwnerDisposed(o)
  <2>1. /\ flow[o].pc \in {"own", "disposing"} /\ mirror[flow[o].m].st # "live"
        /\ mirrors' = [mirrors EXCEPT ![mirror[flow[o].m].s] = None]
        /\ flow' = [flow EXCEPT ![o] = Over]
        /\ UNCHANGED <<handles, handle, inflight, mirror, doomed, disposed>>
    BY <1>6 DEF OwnerDisposed, clientVars
  <2>2. QED
    BY <2>1, OwnerForgets
<1>7. QED
  BY <1>1, <1>2, <1>3, <1>4, <1>5, <1>6 DEF OwnerStep

----------------------------------------------------------------------------
(* Who is attached at the daemon *)

\* A call of client.attach is between its look-up and the registration.
Attaching(x, s) == x.pc \in {"attaching", "attached"} /\ x.s = s

\* As long as no calls overlapped, a session has one handle that is not detached,
\* the registered one, or else one call that will make it; and the daemon serves
\* them unless a refusal ended that.
LinkOK(hs, k, fl, cr, on) ==
  \A s \in Sessions \ cr :
    /\ \A h \in DOMAIN k : k[h].s = s /\ ~k[h].detached =>
         hs[s] = h /\ s \in on /\ \A f \in Flows : ~Attaching(fl[f], s)
    /\ \A f, g \in Flows : Attaching(fl[f], s) /\ Attaching(fl[g], s) => f = g
    /\ \A f \in Flows : Attaching(fl[f], s) /\ fl[f].pc = "attached" => s \in on

LinkInv == LinkOK(handles, handle, flow, crossed, attached \cup refused)

\* The flows that attach are those that did, or fewer.
NoneStarts == \A f \in Flows : flow'[f].pc \in {"attaching", "attached"} => flow'[f] = flow[f]

\* Nothing is attached in the beginning.
LEMMA InitLink == Init => LinkInv
<1> SUFFICES ASSUME Init PROVE LinkInv
  OBVIOUS
<1>1. DOMAIN handle = {} /\ \A f \in Flows : flow[f].pc = "idle"
  BY DEF Init, Idle
<1>2. QED
  BY <1>1 DEF LinkInv, LinkOK, Attaching

\* A step after which no more flows attach, no handle was made or detached, and
\* only a refusal has ended an attachment.
LEMMA LinkStays ==
  ASSUME LinkInv, NoneStarts, DOMAIN handle' = DOMAIN handle, handles' = handles,
         \A h \in DOMAIN handle : handle'[h].s = handle[h].s /\ handle'[h].detached = handle[h].detached,
         \/ UNCHANGED linkVars
         \/ \E s \in Sessions : Serve(s) \/ Refuse(s)
  PROVE  LinkInv'
<1>1. crossed' = crossed /\ attached \cup refused \subseteq attached' \cup refused'
  BY DEF linkVars, Serve, Refuse
<1> DEFINE on == attached \cup refused
<1>2. on \subseteq on'
  BY <1>1
<1>3. LinkOK(handles, handle, flow, crossed, on)
  BY DEF LinkInv
<1> HIDE DEF on
<1>4. ASSUME NEW s \in Sessions \ crossed'
      PROVE  /\ \A h \in DOMAIN handle' : handle'[h].s = s /\ ~handle'[h].detached =>
                  handles'[s] = h /\ s \in on' /\ \A f \in Flows : ~Attaching(flow'[f], s)
             /\ \A f, g \in Flows : Attaching(flow'[f], s) /\ Attaching(flow'[g], s) => f = g
             /\ \A f \in Flows : Attaching(flow'[f], s) /\ flow'[f].pc = "attached" => s \in on'
  <2>1. s \in Sessions \ crossed
    BY <1>1
  <2>2. \A f \in Flows : Attaching(flow'[f], s) => Attaching(flow[f], s) /\ flow'[f] = flow[f]
    BY DEF Attaching, NoneStarts
  <2>3. QED
    BY <1>2, <1>3, <2>1, <2>2 DEF LinkOK
<1>5. LinkOK(handles', handle', flow', crossed', on')
  BY <1>4 DEF LinkOK
<1>6. QED
  BY <1>5 DEF LinkInv, on

\* One flow goes on to something else than an attach.
LEMMA GoesOnElse ==
  ASSUME NEW f \in Flows, flow \in [Flows -> FlowRec], NEW x,
         flow' = [flow EXCEPT ![f] = x], x.pc \notin {"attaching", "attached"}
  PROVE  NoneStarts
BY DEF NoneStarts

\* How a caller goes on after mirrorSession is not an attach.
LEMMA AfterElse ==
  ASSUME NEW f, NEW ok, NEW m, NEW list
  PROVE  After(f, ok, m, list).pc \notin {"attaching", "attached"}
<1>1. DOMAIN Idle = {"pc", "op", "s", "h", "m", "list", "seen"}
  BY DEF Idle
<1>2. [Idle EXCEPT !.pc = "sweep", !.list = list, !.seen = flow[f].seen].pc = "sweep"
  BY <1>1
<1>3. [Idle EXCEPT !.pc = "own", !.m = m].pc = "own"
  BY <1>1
<1>4. Over.pc = "over"
  BY <1>1 DEF Over
<1>5. \/ After(f, ok, m, list) = [Idle EXCEPT !.pc = "sweep", !.list = list, !.seen = flow[f].seen]
      \/ After(f, ok, m, list) = [Idle EXCEPT !.pc = "own", !.m = m]
      \/ After(f, ok, m, list) = Over
  BY DEF After
<1>6. QED
  BY <1>2, <1>3, <1>4, <1>5

\* Nor is the wait for a bootstrap.
LEMMA MirrorElse ==
  ASSUME NEW f \in Flows, flow \in [Flows -> FlowRec], NEW s, NEW h, NEW list,
         MirrorSession(f, s, h, list)
  PROVE  NoneStarts
<1> DEFINE w(m) == [flow EXCEPT ![f].pc = "mirroring", ![f].s = None, ![f].h = h,
                                ![f].m = m, ![f].list = list]
<1>1. \/ flow' = [flow EXCEPT ![f] = After(f, TRUE, mirrors[s], list)]
      \/ flow' = w(inflight[s])
      \/ flow' = w(Len(mirror'))
  BY DEF MirrorSession
<1>2. ASSUME NEW m, flow' = w(m) PROVE NoneStarts
  <2>1. \A g \in Flows : g # f => flow'[g] = flow[g]
    BY <1>2
  <2>2. flow[f] \in FlowRec
    OBVIOUS
  <2>3. flow'[f].pc = "mirroring"
    BY <1>2, <2>2 DEF FlowRec
  <2>4. QED
    BY <2>1, <2>3 DEF NoneStarts
<1> HIDE DEF w
<1>3. CASE flow' = [flow EXCEPT ![f] = After(f, TRUE, mirrors[s], list)]
  BY <1>3, AfterElse, GoesOnElse
<1>4. QED
  BY <1>1, <1>2, <1>3

\* Nor is a settled bootstrap.
LEMMA SettleElse ==
  ASSUME flow \in [Flows -> FlowRec], NEW m, NEW ok, Settle(m, ok)
  PROVE  NoneStarts
<1>1. \A f \in Flows : flow'[f] = flow[f] \/ flow'[f] = After(f, ok, m, flow[f].list)
  BY DEF Settle
<1>2. QED
  BY <1>1, AfterElse DEF NoneStarts

\* Handles that are detached take the attachment of their session along, but
\* then nobody else has one, unless calls of client.attach overlapped.
LEMMA DetachLink ==
  ASSUME LinkInv, RegistryInv, NEW hs \in SUBSET DOMAIN handle, DetachAll(hs), NoneStarts,
         UNCHANGED <<refused, crossed>>
  PROVE  LinkInv'
<1> DEFINE now == {h \in hs : ~handle[h].detached}
           on == attached \cup refused
<1>1. /\ handle' = [h \in DOMAIN handle |-> [handle[h] EXCEPT !.detached = @ \/ h \in now]]
      /\ handles' = [s \in Sessions |-> IF \E h \in now : handle[h].s = s THEN None ELSE handles[s]]
      /\ attached' = attached \ {handle[h].s : h \in now}
  BY DEF DetachAll
<1>2. now \subseteq DOMAIN handle /\ \A h \in now : ~handle[h].detached
  OBVIOUS
<1>3. \A s : s \in on /\ (\A h \in now : handle[h].s # s) => s \in on'
  BY <1>1
<1>4. LinkOK(handles, handle, flow, crossed, on)
  BY DEF LinkInv
<1>5. DOMAIN handle' = DOMAIN handle /\ \A h \in DOMAIN handle : handle[h] \in HandleRec
  BY <1>1 DEF RegistryInv, ValuesOK
<1>6. \A h \in DOMAIN handle :
        handle'[h].s = handle[h].s /\ (~handle'[h].detached => ~handle[h].detached /\ h \notin now)
  BY <1>1, <1>5 DEF HandleRec
<1> HIDE DEF now, on
<1>7. ASSUME NEW s \in Sessions \ crossed'
      PROVE  /\ \A h \in DOMAIN handle' : handle'[h].s = s /\ ~handle'[h].detached =>
                  handles'[s] = h /\ s \in on' /\ \A f \in Flows : ~Attaching(flow'[f], s)
             /\ \A f, g \in Flows : Attaching(flow'[f], s) /\ Attaching(flow'[g], s) => f = g
             /\ \A f \in Flows : Attaching(flow'[f], s) /\ flow'[f].pc = "attached" => s \in on'
  <2>1. s \in Sessions \ crossed
    OBVIOUS
  <2>2. \A f \in Flows : Attaching(flow'[f], s) => Attaching(flow[f], s) /\ flow'[f] = flow[f]
    BY DEF Attaching, NoneStarts
  <2>3. ASSUME NEW h \in DOMAIN handle', handle'[h].s = s, ~handle'[h].detached
        PROVE  handles'[s] = h /\ s \in on' /\ \A f \in Flows : ~Attaching(flow'[f], s)
    <3>1. handle[h].s = s /\ ~handle[h].detached /\ h \notin now /\ h \in DOMAIN handle
      BY <1>5, <1>6, <2>3
    <3>2. handles[s] = h /\ s \in on /\ \A f \in Flows : ~Attaching(flow[f], s)
      BY <1>4, <2>1, <3>1 DEF LinkOK
    <3>3. \A g \in now : handle[g].s # s
      BY <1>2, <1>4, <2>1, <3>1, <3>2 DEF LinkOK
    <3>4. handles'[s] = h
      BY <1>1, <3>2, <3>3
    <3>5. QED
      BY <1>3, <2>2, <3>2, <3>3, <3>4
  <2>4. ASSUME NEW f \in Flows, Attaching(flow'[f], s), flow'[f].pc = "attached" PROVE s \in on'
    <3>1. Attaching(flow[f], s) /\ flow[f].pc = "attached"
      BY <2>2, <2>4
    <3>2. s \in on /\ \A g \in now : handle[g].s # s
      BY <1>2, <1>4, <2>1, <3>1 DEF LinkOK
    <3>3. QED
      BY <1>3, <3>2
  <2>5. \A f, g \in Flows : Attaching(flow'[f], s) /\ Attaching(flow'[g], s) => f = g
    BY <1>4, <2>1, <2>2 DEF LinkOK
  <2>6. QED
    BY <2>3, <2>4, <2>5
<1>8. LinkOK(handles', handle', flow', crossed', on')
  BY <1>7 DEF LinkOK
<1>9. QED
  BY <1>8 DEF LinkInv, on

\* A call of client.attach is sent for a session without a live handle.
LEMMA SendLink ==
  ASSUME LinkInv, RegistryInv, NEW f \in Flows, NEW s \in Sessions, ~HasHandle(s), Sends(s),
         \A g \in Flows : g # f => flow'[g] = flow[g],
         flow'[f].pc = "attaching", flow'[f].s = s, UNCHANGED <<handles, handle>>
  PROVE  LinkInv'
<1> DEFINE on == attached \cup refused
<1>1. on' = on /\ crossed \subseteq crossed'
      /\ (s \notin crossed' => \A g \in Flows : ~Attaching(flow[g], s))
  BY DEF Sends, Attaching
<1>2. LinkOK(handles, handle, flow, crossed, on)
  BY DEF LinkInv
<1> HIDE DEF on
<1>3. s \notin crossed => \A h \in DOMAIN handle : ~(handle[h].s = s /\ ~handle[h].detached)
  <2> SUFFICES ASSUME s \notin crossed, NEW h \in DOMAIN handle, handle[h].s = s, ~handle[h].detached
               PROVE  FALSE
    OBVIOUS
  <2>1. handles[s] = h
    BY <1>2 DEF LinkOK
  <2>2. h # None
    BY DEF RegistryInv, ValuesOK, None
  <2>3. QED
    BY <2>1, <2>2 DEF HasHandle
<1>4. ASSUME NEW t \in Sessions \ crossed'
      PROVE  /\ \A h \in DOMAIN handle' : handle'[h].s = t /\ ~handle'[h].detached =>
                  handles'[t] = h /\ t \in on' /\ \A g \in Flows : ~Attaching(flow'[g], t)
             /\ \A g, e \in Flows : Attaching(flow'[g], t) /\ Attaching(flow'[e], t) => g = e
             /\ \A g \in Flows : Attaching(flow'[g], t) /\ flow'[g].pc = "attached" => t \in on'
  <2>1. t \in Sessions \ crossed
    BY <1>1
  <2>2. CASE t = s
    BY <1>1, <1>2, <1>3, <2>1, <2>2 DEF LinkOK, Attaching
  <2>3. CASE t # s
    <3>1. \A g \in Flows : Attaching(flow'[g], t) => Attaching(flow[g], t) /\ flow'[g] = flow[g]
      BY <2>3 DEF Attaching
    <3>2. QED
      BY <1>1, <1>2, <2>1, <3>1 DEF LinkOK
  <2>4. QED
    BY <2>2, <2>3
<1>5. LinkOK(handles', handle', flow', crossed', on')
  BY <1>4 DEF LinkOK
<1>6. QED
  BY <1>5 DEF LinkInv, on

\* The daemon serves the call.
LEMMA ServedLink ==
  ASSUME LinkInv, RegistryInv, NEW f \in Reconciles \cup Owners, AttachServed(f)
  PROVE  LinkInv'
<1> DEFINE on == attached \cup refused
           s == flow[f].s
<1>1. /\ f \in Flows /\ flow \in [Flows -> FlowRec] /\ flow[f] \in FlowRec
      /\ flow[f].pc = "attaching" /\ flow' = [flow EXCEPT ![f].pc = "attached"]
      /\ handles' = handles /\ handle' = handle /\ Serve(s)
  BY DEF AttachServed, Goto, clientVars, RegistryInv, ValuesOK, Flows
<1>2. on' = on \cup {s} /\ crossed' = crossed
  BY <1>1 DEF Serve
<1>3. /\ \A g \in Flows : g # f => flow'[g] = flow[g]
      /\ flow'[f].pc = "attached" /\ flow'[f].s = s
  BY <1>1 DEF FlowRec
<1>4. LinkOK(handles, handle, flow, crossed, on)
  BY DEF LinkInv
<1> HIDE DEF on, s
<1>5. ASSUME NEW t \in Sessions \ crossed'
      PROVE  /\ \A h \in DOMAIN handle' : handle'[h].s = t /\ ~handle'[h].detached =>
                  handles'[t] = h /\ t \in on' /\ \A g \in Flows : ~Attaching(flow'[g], t)
             /\ \A g, e \in Flows : Attaching(flow'[g], t) /\ Attaching(flow'[e], t) => g = e
             /\ \A g \in Flows : Attaching(flow'[g], t) /\ flow'[g].pc = "attached" => t \in on'
  <2>1. t \in Sessions \ crossed
    BY <1>2
  <2>2. \A g \in Flows : Attaching(flow'[g], t) => Attaching(flow[g], t)
    BY <1>1, <1>3 DEF Attaching, s
  <2>3. \A g \in Flows : g # f \/ t # s =>
          (Attaching(flow'[g], t) /\ flow'[g].pc = "attached" => flow[g].pc = "attached")
    BY <1>1, <1>3 DEF Attaching, s
  <2>4. QED
    BY <1>1, <1>2, <1>4, <2>1, <2>2, <2>3 DEF LinkOK
<1>6. LinkOK(handles', handle', flow', crossed', on')
  BY <1>5 DEF LinkOK
<1>7. QED
  BY <1>6 DEF LinkInv, on

\* The handle is made and registered; its session had none.
LEMMA AttachedLink ==
  ASSUME LinkInv, RegistryInv, NEW f \in Reconciles \cup Owners, Attached(f)
  PROVE  LinkInv'
<1> DEFINE on == attached \cup refused
           s == flow[f].s
           x == [s |-> s, mode |-> ModeOf(f), detached |-> FALSE]
<1>1. /\ f \in Flows /\ flow \in [Flows -> FlowRec] /\ flow[f].pc = "attached"
      /\ handle' = Append(handle, x) /\ handles' = [handles EXCEPT ![s] = Len(handle')]
      /\ MirrorSession(f, s, Len(handle'), flow[f].list)
      /\ on' = on /\ crossed' = crossed
      /\ handle \in Seq(HandleRec) /\ handles \in [Sessions -> Nat]
  BY DEF Attached, RegistryInv, ValuesOK, Flows, linkVars
<1>2. NoneStarts
  BY <1>1, MirrorElse
<1>3. flow'[f].pc \notin {"attaching", "attached"}
  <2> DEFINE w(m) == [flow EXCEPT ![f].pc = "mirroring", ![f].s = None, ![f].h = Len(handle'),
                                  ![f].m = m, ![f].list = flow[f].list]
  <2>1. \/ flow' = [flow EXCEPT ![f] = After(f, TRUE, mirrors[s], flow[f].list)]
        \/ flow' = w(inflight[s])
        \/ flow' = w(Len(mirror'))
    BY <1>1 DEF MirrorSession
  <2>2. ASSUME NEW m, flow' = w(m) PROVE flow'[f].pc = "mirroring"
    <3>1. flow[f] \in FlowRec
      BY <1>1
    <3>2. QED
      BY <1>1, <2>2, <3>1 DEF FlowRec
  <2> HIDE DEF w
  <2>3. CASE flow' = [flow EXCEPT ![f] = After(f, TRUE, mirrors[s], flow[f].list)]
    <3>1. flow'[f] = After(f, TRUE, mirrors[s], flow[f].list)
      BY <1>1, <2>3
    <3>2. QED
      BY <3>1, AfterElse
  <2>4. QED
    BY <2>1, <2>2, <2>3
<1>4. LinkOK(handles, handle, flow, crossed, on)
  BY DEF LinkInv
<1>5. /\ DOMAIN handle' = DOMAIN handle \cup {Len(handle')} /\ Len(handle') \notin DOMAIN handle
      /\ \A h \in DOMAIN handle : handle'[h] = handle[h]
      /\ handle'[Len(handle')] = x
  BY <1>1
<1>6. x.s = s /\ s \in Sessions
  <2>1. FlowOK(f, flow[f], mirror, handle)
    BY <1>1, FlowKnown
  <2>2. QED
    BY <1>1, <2>1 DEF FlowOK
<1>7. /\ \A t \in Sessions : t # s => handles'[t] = handles[t]
      /\ handles'[s] = Len(handle')
  BY <1>1, <1>6
<1>8. Attaching(flow[f], s) /\ flow[f].pc = "attached"
  BY <1>1 DEF Attaching
<1> HIDE DEF on, s, x
<1>9. ASSUME NEW t \in Sessions \ crossed'
      PROVE  /\ \A h \in DOMAIN handle' : handle'[h].s = t /\ ~handle'[h].detached =>
                  handles'[t] = h /\ t \in on' /\ \A g \in Flows : ~Attaching(flow'[g], t)
             /\ \A g, e \in Flows : Attaching(flow'[g], t) /\ Attaching(flow'[e], t) => g = e
             /\ \A g \in Flows : Attaching(flow'[g], t) /\ flow'[g].pc = "attached" => t \in on'
  <2>1. t \in Sessions \ crossed
    BY <1>1
  <2>2. \A g \in Flows : Attaching(flow'[g], t) =>
          Attaching(flow[g], t) /\ flow'[g] = flow[g] /\ g # f
    BY <1>2, <1>3 DEF Attaching, NoneStarts
  <2>3. CASE t # s
    BY <1>1, <1>4, <1>5, <1>6, <1>7, <2>1, <2>2, <2>3 DEF LinkOK
  <2>4. CASE t = s
    <3>1. \A g \in Flows : ~Attaching(flow'[g], t)
      BY <1>1, <1>4, <1>8, <2>1, <2>2, <2>4 DEF LinkOK
    <3>2. \A h \in DOMAIN handle : ~(handle[h].s = t /\ ~handle[h].detached)
      BY <1>1, <1>4, <1>8, <2>1, <2>4 DEF LinkOK
    <3>3. t \in on'
      BY <1>1, <1>4, <1>8, <2>1, <2>4 DEF LinkOK
    <3>4. QED
      BY <1>5, <1>7, <2>4, <3>1, <3>2, <3>3
  <2>5. QED
    BY <2>3, <2>4
<1>10. LinkOK(handles', handle', flow', crossed', on')
  BY <1>9 DEF LinkOK
<1>11. QED
  BY <1>10 DEF LinkInv, on

\* A flow is given another program counter.
LEMMA PcElse ==
  ASSUME NEW f \in Flows, flow \in [Flows -> FlowRec],
         NEW pc, pc \notin {"attaching", "attached"}, NEW m, NEW h, NEW q, NEW S,
         \/ flow' = [flow EXCEPT ![f].pc = pc]
         \/ flow' = [flow EXCEPT ![f].pc = pc, ![f].m = m]
         \/ flow' = [flow EXCEPT ![f].pc = pc, ![f].h = h]
         \/ flow' = [flow EXCEPT ![f].pc = pc, ![f].list = q, ![f].seen = S]
  PROVE  NoneStarts
<1>1. flow[f] \in FlowRec
  OBVIOUS
<1>2. \A g \in Flows : g # f => flow'[g] = flow[g]
  OBVIOUS
<1>3. flow'[f].pc = pc
  BY <1>1 DEF FlowRec
<1>4. QED
  BY <1>2, <1>3 DEF NoneStarts

\* A flow ends, or starts with a call that is no attach.
LEMMA FreshElse ==
  ASSUME NEW f \in Flows, flow \in [Flows -> FlowRec],
         NEW pc, pc \notin {"attaching", "attached"}, NEW op, NEW s, NEW h,
         \/ flow' = [flow EXCEPT ![f] = Idle]
         \/ flow' = [flow EXCEPT ![f] = Over]
         \/ flow' = [flow EXCEPT ![f] = [Idle EXCEPT !.pc = pc, !.op = op, !.s = s]]
         \/ flow' = [flow EXCEPT ![f] = [Idle EXCEPT !.pc = pc, !.op = op, !.s = s, !.h = h]]
  PROVE  NoneStarts
<1>1. \A g \in Flows : g # f => flow'[g] = flow[g]
  OBVIOUS
<1>2. DOMAIN Idle = {"pc", "op", "s", "h", "m", "list", "seen"} /\ Idle.pc = "idle"
  BY DEF Idle
<1>3. Over.pc = "over"
  BY <1>2 DEF Over
<1>4. flow'[f].pc \in {"idle", "over", pc}
  BY <1>2, <1>3
<1>5. QED
  BY <1>1, <1>4 DEF NoneStarts

\* The teardown loop and the plugin's own attach nothing.
LEMMA TearElse ==
  ASSUME NEW f \in Flows, flow \in [Flows -> FlowRec], NEW D, TearSome(f, D) \/ (f = Proxy /\ ProxyNext(D))
  PROVE  NoneStarts
<1>1. ASSUME NEW m, NEW pc \in {"tearing", "teardown", "disposing", "disposed"},
             \/ flow' = [flow EXCEPT ![f].pc = pc] \/ flow' = [flow EXCEPT ![f].pc = pc, ![f].m = m]
             \/ flow' = [flow EXCEPT ![f] = Idle] \/ flow' = [flow EXCEPT ![f] = Over]
      PROVE  NoneStarts
  <2>1. pc \notin {"attaching", "attached"}
    OBVIOUS
  <2>2. CASE flow' = [flow EXCEPT ![f].pc = pc] \/ flow' = [flow EXCEPT ![f].pc = pc, ![f].m = m]
    BY <2>1, <2>2, PcElse
  <2>3. CASE flow' = [flow EXCEPT ![f] = Idle] \/ flow' = [flow EXCEPT ![f] = Over]
    BY <2>1, <2>3, FreshElse
  <2>4. QED
    BY <1>1, <2>2, <2>3
<1>2. CASE D = {}
  BY <1>1, <1>2 DEF TearSome, ProxyNext
<1>3. ASSUME NEW d \in D, TearOne(f, D, d) PROVE NoneStarts
  BY <1>1, <1>3 DEF TearOne
<1>4. CASE D # {} /\ TearSome(f, D)
  BY <1>3, <1>4 DEF TearSome
<1>5. CASE D # {} /\ f = Proxy /\ ProxyNext(D)
  <2>1. PICK d \in D : \/ flow' = [flow EXCEPT ![f].pc = "disposing", ![f].m = d[2]]
                       \/ flow' = [flow EXCEPT ![f].pc = "disposed"]
    BY <1>5 DEF ProxyNext, Goto
  <2>2. QED
    BY <1>1, <2>1
<1>6. QED
  BY <1>2, <1>4, <1>5

\* A step that leaves the handles, but for their modes, and the daemon alone.
LEMMA LinkQuiet ==
  ASSUME RegistryInv, LinkInv, NoneStarts, HandlesSame(handle, handle'), UNCHANGED handles,
         \/ UNCHANGED linkVars
         \/ \E s \in Sessions : Serve(s) \/ Refuse(s)
  PROVE  LinkInv'
<1>1. DOMAIN handle' = DOMAIN handle
      /\ \A h \in DOMAIN handle : handle'[h].s = handle[h].s /\ handle'[h].detached = handle[h].detached
  BY DEF HandlesSame
<1>2. QED
  BY <1>1, LinkStays

\* The life of a mirror.
LEMMA MirrorLink ==
  ASSUME RegistryInv, LinkInv, NEW m \in DOMAIN mirror, MirrorStep(m)
  PROVE  LinkInv'
<1>1. /\ flow \in [Flows -> FlowRec] /\ handle \in Seq(HandleRec)
      /\ mirror[m].h \in DOMAIN handle
  BY DEF RegistryInv, ValuesOK, MirrorsOK
<1>2. HandlesSame(handle, handle)
  BY <1>1 DEF HandlesSame
<1>3. CASE Publish(m)
  <2>1. Settle(m, TRUE) /\ UNCHANGED <<handles, handle>> /\ UNCHANGED linkVars
    BY <1>3 DEF Publish, clientVars
  <2>2. NoneStarts
    BY <1>1, <2>1, SettleElse, Zenon
  <2>3. QED
    BY <1>2, <2>1, <2>2, LinkQuiet
<1>4. CASE BootFails(m)
  <2> DEFINE hs == {flow[f].h : f \in {f \in Waiting(m) : flow[f].op \in {"create", "resume"}}}
  <2>1. Settle(m, FALSE) /\ DetachAll(hs) /\ UNCHANGED <<refused, crossed>>
    BY <1>4 DEF BootFails
  <2>2. NoneStarts
    BY <1>1, <2>1, SettleElse, Zenon
  <2>3. hs \in SUBSET DOMAIN handle
    BY DEF Waiting, RegistryInv, FlowsOK, FlowOK
  <2> HIDE DEF hs
  <2>4. QED
    BY <2>1, <2>2, <2>3, DetachLink
<1>5. CASE Released(m)
  <2>1. /\ UNCHANGED handle \/ handle' = [handle EXCEPT ![mirror[m].h].mode = "read"]
        /\ UNCHANGED handles /\ UNCHANGED flow /\ UNCHANGED linkVars
    BY <1>5 DEF Released
  <2>2. NoneStarts
    BY <2>1 DEF NoneStarts
  <2>3. HandlesSame(handle, handle')
    BY <1>1, <1>2, <2>1, ModeFacts
  <2>4. QED
    BY <2>1, <2>2, <2>3, LinkQuiet
<1>6. CASE Unwound(m)
  <2>1. DetachAll({mirror[m].h}) /\ UNCHANGED flow /\ UNCHANGED <<refused, crossed>>
    BY <1>6 DEF Unwound
  <2>2. NoneStarts
    BY <2>1 DEF NoneStarts
  <2>3. {mirror[m].h} \in SUBSET DOMAIN handle
    BY <1>1
  <2>4. QED
    BY <2>1, <2>2, <2>3, DetachLink
<1>7. CASE Gone(m)
  <2>1. UNCHANGED <<handles, handle>> /\ UNCHANGED flow /\ UNCHANGED linkVars
    BY <1>7 DEF Gone, clientVars
  <2>2. NoneStarts
    BY <2>1 DEF NoneStarts
  <2>3. QED
    BY <1>2, <2>1, <2>2, LinkQuiet
<1>8. QED
  BY <1>3, <1>4, <1>5, <1>6, <1>7 DEF MirrorStep

\* The steps of a reconcile.
LEMMA ReconcileLink ==
  ASSUME RegistryInv, LinkInv, NEW r \in Reconciles, ReconcileStarts(r) \/ ReconcileStep(r)
  PROVE  LinkInv'
<1>1. r \in Flows /\ r \in Reconciles \cup Owners
  BY DEF Flows
<1>2. /\ flow \in [Flows -> FlowRec] /\ flow[r].list \in Seq(Sessions) /\ HandlesSame(handle, handle)
      /\ \A m : m \in {"list", "sweep"} => m \notin {"attaching", "attached"}
  BY <1>1, FlowKnown DEF HandlesSame
<1>3. UNCHANGED <<handles, handle>>
  BY DEF ReconcileStarts, ReconcileStep, ListServed, ListFails, Sweep, TeardownGoesOn, clientVars
<1>4. ASSUME NoneStarts, UNCHANGED linkVars PROVE LinkInv'
  BY <1>2, <1>3, <1>4, LinkQuiet
<1>5. CASE ReconcileStarts(r)
  <2>1. (flow' = flow \/ flow' = [flow EXCEPT ![r].pc = "list"]) /\ UNCHANGED linkVars
    BY <1>5 DEF ReconcileStarts
  <2>2. CASE flow' = flow
    BY <1>4, <2>1, <2>2 DEF NoneStarts
  <2>3. CASE flow' = [flow EXCEPT ![r].pc = "list"]
    BY <1>1, <1>2, <1>4, <2>1, <2>3, PcElse
  <2>4. QED
    BY <2>1, <2>2, <2>3
<1>6. CASE ListServed(r)
  <2>1. UNCHANGED linkVars /\ \E q \in SetToSeqs(Active) :
          flow' = [flow EXCEPT ![r].pc = "sweep", ![r].list = q, ![r].seen = Active]
    BY <1>6 DEF ListServed
  <2>2. PICK q : flow' = [flow EXCEPT ![r].pc = "sweep", ![r].list = q, ![r].seen = Active]
    BY <2>1
  <2>3. NoneStarts
    BY <1>1, <1>2, <2>2, PcElse
  <2>4. QED
    BY <1>4, <2>1, <2>3
<1>7. CASE ListFails(r)
  <2>1. flow' = [flow EXCEPT ![r] = Idle] /\ UNCHANGED linkVars
    BY <1>7 DEF ListFails
  <2>2. NoneStarts
    BY <1>1, <1>2, <2>1, FreshElse
  <2>3. QED
    BY <1>4, <2>1, <2>2
<1>8. CASE Sweep(r)
  <2> DEFINE list == flow[r].list
             i == SelectInSeq(list, LAMBDA s : mirrors[s] = None /\ inflight[s] = None)
             rest == SubSeq(list, i + 1, Len(list))
  <2>1. \/ i = 0 /\ TearSome(r, {d \in Registered : d[1] \notin flow[r].seen}) /\ UNCHANGED linkVars
        \/ i # 0 /\ MirrorSession(r, list[i], handles[list[i]], rest) /\ UNCHANGED linkVars
        \/ /\ i # 0 /\ ~HasHandle(list[i]) /\ Sends(list[i])
           /\ flow' = [flow EXCEPT ![r].pc = "attaching", ![r].s = list[i], ![r].list = rest]
    BY <1>8 DEF Sweep
  <2>2. i # 0 => list[i] \in Sessions
    <3> DEFINE I == {j \in 1..Len(list) : mirrors[list[j]] = None /\ inflight[list[j]] = None}
    <3>1. i = IF I # {} THEN Min(I) ELSE 0
      BY DEF SelectInSeq
    <3>2. I \in SUBSET Nat /\ I \subseteq 1..Len(list)
      OBVIOUS
    <3> HIDE DEF I
    <3>3. I # {} => Min(I) \in I
      BY <3>2, LeastTaken
    <3>4. i # 0 => i \in 1..Len(list)
      BY <3>1, <3>2, <3>3
    <3> HIDE DEF i
    <3>5. QED
      BY <1>2, <3>4
  <2> HIDE DEF i, rest, list
  <2>3. CASE TearSome(r, {d \in Registered : d[1] \notin flow[r].seen}) /\ UNCHANGED linkVars
    <3> DEFINE D == {d \in Registered : d[1] \notin flow[r].seen}
    <3>1. TearSome(r, D)
      BY <2>3
    <3> HIDE DEF D
    <3>2. NoneStarts
      BY <1>1, <1>2, <3>1, TearElse
    <3>3. QED
      BY <1>4, <2>3, <3>2
  <2>4. CASE MirrorSession(r, list[i], handles[list[i]], rest) /\ UNCHANGED linkVars
    BY <1>1, <1>2, <1>4, <2>4, MirrorElse
  <2>5. CASE /\ i # 0 /\ ~HasHandle(list[i]) /\ Sends(list[i])
             /\ flow' = [flow EXCEPT ![r].pc = "attaching", ![r].s = list[i], ![r].list = rest]
    <3>1. flow[r] \in FlowRec
      BY <1>1, <1>2
    <3>2. flow'[r].pc = "attaching" /\ flow'[r].s = list[i]
      BY <1>1, <1>2, <2>5, <3>1 DEF FlowRec
    <3>3. \A g \in Flows : g # r => flow'[g] = flow[g]
      BY <1>2, <2>5
    <3>4. QED
      BY <1>1, <1>3, <2>2, <2>5, <3>2, <3>3, SendLink
  <2>6. QED
    BY <2>1, <2>3, <2>4, <2>5
<1>9. CASE TeardownGoesOn(r)
  <2>1. TearSome(r, doomed[r]) /\ UNCHANGED linkVars
    BY <1>9 DEF TeardownGoesOn
  <2>2. NoneStarts
    BY <1>1, <1>2, <2>1, TearElse
  <2>3. QED
    BY <1>4, <2>1, <2>2
<1>10. QED
  BY <1>5, <1>6, <1>7, <1>8, <1>9 DEF ReconcileStep

\* A flow goes on to a call that is an attach, or to mirrorSession.
LEMMA OnwardLink ==
  ASSUME RegistryInv, LinkInv, NEW f \in Reconciles \cup Owners, NEW s \in Sessions, flow[f].s = s,
         UNCHANGED <<handles, handle>>,
         \/ Goto(f, "attaching") /\ ~HasHandle(s) /\ Sends(s)
         \/ \E h : flow' = [flow EXCEPT ![f].pc = "acquiring", ![f].h = h] /\ UNCHANGED linkVars
         \/ MirrorSession(f, s, handles[s], <<>>) /\ UNCHANGED linkVars
  PROVE  LinkInv'
<1>1. f \in Flows /\ flow \in [Flows -> FlowRec] /\ flow[f] \in FlowRec /\ HandlesSame(handle, handle')
  BY FlowKnown, SameHandles DEF Flows
<1>2. CASE Goto(f, "attaching") /\ ~HasHandle(s) /\ Sends(s)
  <2>1. flow'[f].pc = "attaching" /\ flow'[f].s = s
    BY <1>1, <1>2 DEF Goto, FlowRec
  <2>2. \A g \in Flows : g # f => flow'[g] = flow[g]
    BY <1>1, <1>2 DEF Goto
  <2>3. QED
    BY <1>1, <1>2, <2>1, <2>2, SendLink
<1>3. CASE \E h : flow' = [flow EXCEPT ![f].pc = "acquiring", ![f].h = h] /\ UNCHANGED linkVars
  <2>1. PICK h : flow' = [flow EXCEPT ![f].pc = "acquiring", ![f].h = h]
    BY <1>3
  <2>2. "acquiring" \notin {"attaching", "attached"}
    OBVIOUS
  <2>3. NoneStarts
    BY <1>1, <2>1, <2>2, PcElse
  <2>4. QED
    BY <1>1, <1>3, <2>3, LinkQuiet
<1>4. CASE MirrorSession(f, s, handles[s], <<>>) /\ UNCHANGED linkVars
  <2>1. NoneStarts
    BY <1>1, <1>4, MirrorElse
  <2>2. QED
    BY <1>1, <1>4, <2>1, LinkQuiet
<1>5. QED
  BY <1>2, <1>3, <1>4

\* The answers of client.attach.
LEMMA AttachLink ==
  ASSUME RegistryInv, LinkInv, NEW f \in Reconciles \cup Owners, AttachStep(f)
  PROVE  LinkInv'
<1>1. CASE AttachFails(f)
  <2>1. f \in Flows
    BY DEF Flows
  <2>2. flow \in [Flows -> FlowRec] /\ FlowOK(f, flow[f], mirror, handle)
    BY <2>1, FlowKnown
  <2>3. /\ flow[f].s \in Sessions /\ UNCHANGED <<handles, handle>>
        /\ flow' = [flow EXCEPT ![f] = After(f, FALSE, None, flow[f].list)]
        /\ UNCHANGED linkVars \/ Refuse(flow[f].s)
    BY <1>1, <2>2 DEF AttachFails, FlowOK, clientVars
  <2>4. NoneStarts
    BY <2>1, <2>2, <2>3, AfterElse, GoesOnElse, Zenon
  <2>5. QED
    BY <2>3, <2>4, SameHandles, LinkQuiet
<1>2. QED
  BY <1>1, ServedLink, AttachedLink DEF AttachStep

\* A handle is of a session.
LEMMA HandleSession ==
  ASSUME NEW k \in Seq(HandleRec), NEW h \in DOMAIN k
  PROVE  k[h].s \in Sessions
<1>1. k[h] \in HandleRec
  OBVIOUS
<1>2. QED
  BY <1>1 DEF HandleRec

\* acquireWrite settled; a session.attach of its own.
LEMMA EscalateLink ==
  ASSUME RegistryInv, LinkInv, NEW o \in Owners, Acquired(o) \/ Borrowed(o)
  PROVE  LinkInv'
<1> DEFINE h == flow[o].h
<1>1. o \in Flows
  BY DEF Flows
<1>2. /\ flow \in [Flows -> FlowRec] /\ FlowOK(o, flow[o], mirror, handle) /\ handle \in Seq(HandleRec)
  BY <1>1, FlowKnown
<1>3. /\ flow[o].pc \in {"acquiring", "borrowing"} /\ UNCHANGED handles
      /\ handle' = [handle EXCEPT ![h].mode = "write"] /\ Serve(handle[h].s)
      /\ MirrorSession(o, flow[o].s, h, <<>>) \/ flow' = [flow EXCEPT ![o].pc = "borrowed"]
  BY DEF Acquired, Borrowed, Goto
<1>4. h \in DOMAIN handle
  BY <1>2, <1>3 DEF FlowOK
<1> HIDE DEF h
<1>5. handle[h].s \in Sessions
  BY <1>2, <1>4, HandleSession
<1>6. HandlesSame(handle, handle')
  BY <1>2, <1>3, <1>4, ModeFacts
<1>7. CASE MirrorSession(o, flow[o].s, h, <<>>)
  BY <1>1, <1>2, <1>3, <1>5, <1>6, <1>7, MirrorElse, LinkQuiet
<1>8. CASE flow' = [flow EXCEPT ![o].pc = "borrowed"]
  <2>1. "borrowed" \notin {"attaching", "attached"}
    OBVIOUS
  <2>2. NoneStarts
    BY <1>1, <1>2, <1>8, <2>1, PcElse
  <2>3. QED
    BY <1>3, <1>5, <1>6, <2>2, LinkQuiet
<1>9. QED
  BY <1>3, <1>7, <1>8

\* The calls of create, resume and forkRemote, and what goes on without an attach.
LEMMA CallLink ==
  ASSUME RegistryInv, LinkInv, NEW o \in Owners,
         \/ CallFails(o) \/ CreateServed(o) \/ ColdRead(o) \/ ForkServed(o)
         \/ OwnerDisposed(o) \/ OwnerDisposes(o) \/ BorrowerReleases(o)
         \/ \E s \in Sessions : CreateCall(o, s) \/ ResumeCall(o, s)
         \/ \E s, child \in Sessions : ForkCall(o, s, child)
  PROVE  LinkInv'
<1>1. o \in Flows
  BY DEF Flows
<1>2. /\ flow \in [Flows -> FlowRec] /\ FlowOK(o, flow[o], mirror, handle) /\ handle \in Seq(HandleRec)
  BY <1>1, FlowKnown
<1>3. UNCHANGED handles
  BY DEF CallFails, CreateServed, ColdRead, ForkServed, OwnerDisposed, OwnerDisposes, BorrowerReleases,
         CreateCall, ResumeCall, ForkCall, clientVars
<1>4. ASSUME NoneStarts, UNCHANGED handle, UNCHANGED linkVars PROVE LinkInv'
  BY <1>3, <1>4, SameHandles, LinkQuiet
<1>5. CASE CallFails(o)
  <2>1. flow' = [flow EXCEPT ![o] = Over] /\ UNCHANGED handle
    BY <1>5 DEF CallFails, clientVars
  <2>2. NoneStarts
    BY <1>1, <1>2, <2>1, FreshElse
  <2>3. \/ UNCHANGED linkVars
        \/ /\ flow[o].pc \in {"acquiring", "borrowing"}
           /\ Serve(handle[flow[o].h].s) \/ Refuse(handle[flow[o].h].s)
    BY <1>5 DEF CallFails
  <2>4. flow[o].pc \in {"acquiring", "borrowing"} => handle[flow[o].h].s \in Sessions
    <3>1. flow[o].pc \in {"acquiring", "borrowing"} => flow[o].h \in DOMAIN handle
      BY <1>2 DEF FlowOK
    <3>2. QED
      BY <1>2, <3>1, HandleSession
  <2>5. QED
    BY <1>3, <2>1, <2>2, <2>3, <2>4, SameHandles, LinkQuiet
<1>6. CASE CreateServed(o) \/ ColdRead(o) \/ ForkServed(o)
  <2>1. UNCHANGED handle /\ UNCHANGED linkVars
    BY <1>6 DEF CreateServed, ColdRead, ForkServed, clientVars
  <2>2. PICK pc \in {"created", "listing", "forked"} : flow' = [flow EXCEPT ![o].pc = pc]
    BY <1>6 DEF CreateServed, ColdRead, ForkServed, Goto
  <2>3. pc \notin {"attaching", "attached"}
    OBVIOUS
  <2>4. NoneStarts
    BY <1>1, <1>2, <2>2, <2>3, PcElse
  <2>5. QED
    BY <1>4, <2>1, <2>4
<1>7. CASE OwnerDisposed(o) \/ OwnerDisposes(o)
  <2>1. /\ UNCHANGED handle /\ UNCHANGED linkVars
        /\ flow' = [flow EXCEPT ![o] = Over] \/ flow' = [flow EXCEPT ![o].pc = "disposing"]
    BY <1>7 DEF OwnerDisposed, OwnerDisposes, clientVars, Goto
  <2>2. "disposing" \notin {"attaching", "attached"}
    OBVIOUS
  <2>3. NoneStarts
    BY <1>1, <1>2, <2>1, <2>2, PcElse, FreshElse
  <2>4. QED
    BY <1>4, <2>1, <2>3
<1>8. CASE BorrowerReleases(o)
  <2>1. /\ flow' = [flow EXCEPT ![o] = Over] /\ UNCHANGED linkVars /\ flow[o].pc = "borrowed"
        /\ UNCHANGED handle \/ handle' = [handle EXCEPT ![flow[o].h].mode = "read"]
    BY <1>8 DEF BorrowerReleases
  <2>2. NoneStarts
    BY <1>1, <1>2, <2>1, FreshElse
  <2>3. flow[o].h \in DOMAIN handle
    BY <1>2, <2>1 DEF FlowOK
  <2>4. HandlesSame(handle, handle')
    BY <1>2, <2>1, <2>3, ModeFacts, SameHandles
  <2>5. QED
    BY <1>3, <2>1, <2>2, <2>4, LinkQuiet
<1>9. ASSUME NEW s \in Sessions, CreateCall(o, s) \/ ResumeCall(o, s) PROVE LinkInv'
  <2>1. UNCHANGED handle /\ UNCHANGED linkVars
    BY <1>9 DEF CreateCall, ResumeCall, clientVars
  <2>2. CASE CreateCall(o, s)
    <3>1. flow' = [flow EXCEPT ![o] = [Idle EXCEPT !.pc = "creating", !.op = "create", !.s = s]]
      BY <2>2 DEF CreateCall, Call
    <3>2. "creating" \notin {"attaching", "attached"}
      OBVIOUS
    <3>3. NoneStarts
      BY <1>1, <1>2, <3>1, <3>2, FreshElse
    <3>4. QED
      BY <1>4, <2>1, <3>3
  <2>3. CASE ResumeCall(o, s)
    <3> DEFINE h == mirror[mirrors[s]].h
               at(pc, x) == [Idle EXCEPT !.pc = pc, !.op = "resume", !.s = IF x = None THEN s ELSE None, !.h = x]
    <3>1. \/ flow' = [flow EXCEPT ![o] = Over]
          \/ \E pc \in {"preparing", "borrowed", "borrowing"} :
               \E x : flow' = [flow EXCEPT ![o] = at(pc, x)]
      BY <2>3 DEF ResumeCall
    <3>2. ASSUME NEW pc \in {"preparing", "borrowed", "borrowing"}, NEW x,
                 flow' = [flow EXCEPT ![o] = at(pc, x)]
          PROVE  NoneStarts
      <4>1. pc \notin {"attaching", "attached"}
        OBVIOUS
      <4>2. QED
        BY <1>1, <1>2, <3>2, <4>1, FreshElse
    <3> HIDE DEF at
    <3>3. NoneStarts
      <4>1. CASE flow' = [flow EXCEPT ![o] = Over]
        BY <1>1, <1>2, <4>1, FreshElse
      <4>2. QED
        BY <3>1, <3>2, <4>1
    <3>4. QED
      BY <1>4, <2>1, <3>3
  <2>4. QED
    BY <1>9, <2>2, <2>3
<1>10. ASSUME NEW s \in Sessions, NEW child \in Sessions, ForkCall(o, s, child) PROVE LinkInv'
  <2>1. /\ flow' = [flow EXCEPT ![o] = [Idle EXCEPT !.pc = "forking", !.op = "fork", !.s = child]]
        /\ UNCHANGED handle /\ UNCHANGED linkVars
    BY <1>10 DEF ForkCall, Call, clientVars
  <2>2. "forking" \notin {"attaching", "attached"}
    OBVIOUS
  <2>3. NoneStarts
    BY <1>1, <1>2, <2>1, <2>2, FreshElse
  <2>4. QED
    BY <1>4, <2>1, <2>3
<1>11. QED
  BY <1>5, <1>6, <1>7, <1>8, <1>9, <1>10

\* The steps of a caller of create, resume or forkRemote.
LEMMA OwnerLink ==
  ASSUME RegistryInv, LinkInv, NEW o \in Owners, OwnerStep(o)
  PROVE  LinkInv'
<1> DEFINE s == flow[o].s
<1>1. o \in Flows /\ o \in Reconciles \cup Owners
  BY DEF Flows
<1>2. FlowOK(o, flow[o], mirror, handle)
  BY <1>1, FlowKnown
<1>3. CASE Created(o) \/ Prepared(o)
  <2>1. AttachWrite(o) /\ flow[o].pc \in {"created", "listing"} /\ UNCHANGED <<handles, handle>>
    BY <1>3 DEF Created, Prepared, clientVars
  <2>2. s \in Sessions
    BY <1>2, <2>1 DEF FlowOK
  <2>3. \/ Goto(o, "attaching") /\ ~HasHandle(s) /\ Sends(s)
        \/ flow' = [flow EXCEPT ![o].pc = "acquiring", ![o].h = handles[s]] /\ UNCHANGED linkVars
        \/ MirrorSession(o, s, handles[s], <<>>) /\ UNCHANGED linkVars
    BY <2>1 DEF AttachWrite
  <2>4. PICK h : h = handles[s]
    OBVIOUS
  <2>5. \/ Goto(o, "attaching") /\ ~HasHandle(s) /\ Sends(s)
        \/ \E x : flow' = [flow EXCEPT ![o].pc = "acquiring", ![o].h = x] /\ UNCHANGED linkVars
        \/ MirrorSession(o, s, handles[s], <<>>) /\ UNCHANGED linkVars
    BY <2>3, <2>4
  <2>6. QED
    BY <1>1, <2>1, <2>2, <2>5, OnwardLink
<1>4. CASE Forked(o)
  <2>1. /\ flow[o].pc = "forked" /\ UNCHANGED <<handles, handle>>
        /\ \/ Goto(o, "attaching") /\ ~HasHandle(s) /\ Sends(s)
           \/ MirrorSession(o, s, handles[s], <<>>) /\ UNCHANGED linkVars
    BY <1>4 DEF Forked, clientVars
  <2>2. s \in Sessions
    BY <1>2, <2>1 DEF FlowOK
  <2>3. QED
    BY <1>1, <2>1, <2>2, OnwardLink
<1>5. QED
  BY <1>3, <1>4, EscalateLink, CallLink DEF OwnerStep

\* Every step keeps who is attached.
LEMMA StepLink == RegistryInv /\ LinkInv /\ [Next]_vars => LinkInv'
<1> SUFFICES ASSUME RegistryInv, LinkInv, [Next]_vars PROVE LinkInv'
  OBVIOUS
<1>1. ASSUME UNCHANGED <<handles, handle>>, UNCHANGED linkVars, NoneStarts PROVE LinkInv'
  BY <1>1, SameHandles, LinkQuiet
<1>2. ASSUME NEW m \in Mirrors, MirrorStep(m) PROVE LinkInv'
  BY <1>2, MirrorLink DEF MirrorStep
<1>3. ASSUME NEW r \in Reconciles, ReconcileStarts(r) \/ ReconcileStep(r) PROVE LinkInv'
  BY <1>3, ReconcileLink
<1>4. ASSUME NEW f \in Reconciles \cup Owners, AttachStep(f) PROVE LinkInv'
  BY <1>4, AttachLink
<1>5. ASSUME NEW o \in Owners,
             \/ OwnerStep(o) \/ OwnerDisposes(o) \/ BorrowerReleases(o)
             \/ \E s \in Sessions : CreateCall(o, s) \/ ResumeCall(o, s)
             \/ \E s, child \in Sessions : ForkCall(o, s, child)
      PROVE  LinkInv'
  BY <1>5, OwnerLink, CallLink
<1>6. CASE ProxyDisposes \/ ProxyGoesOn
  <2>1. UNCHANGED <<handles, handle>> /\ UNCHANGED linkVars
        /\ (ProxyNext(Registered) \/ ProxyNext(doomed[Proxy]))
    BY <1>6 DEF ProxyDisposes, ProxyGoesOn, clientVars
  <2>2. Proxy \in Flows /\ flow \in [Flows -> FlowRec]
    BY DEF Flows, RegistryInv, ValuesOK
  <2>3. NoneStarts
    BY <2>1, <2>2, TearElse
  <2>4. QED
    BY <1>1, <2>1, <2>3
<1>7. ASSUME NEW s \in Sessions, SessionEnds(s) \/ OtherStarts(s) PROVE LinkInv'
  <2>1. UNCHANGED <<handles, handle>> /\ UNCHANGED linkVars /\ flow' = flow
    BY <1>7 DEF SessionEnds, OtherStarts, clientVars
  <2>2. QED
    BY <1>1, <2>1 DEF NoneStarts
<1>8. CASE UNCHANGED vars
  <2>1. UNCHANGED <<handles, handle>> /\ UNCHANGED linkVars /\ flow' = flow
    BY <1>8 DEF vars
  <2>2. QED
    BY <1>1, <2>1 DEF NoneStarts
<1>9. QED
  BY <1>2, <1>3, <1>4, <1>5, <1>6, <1>7, <1>8 DEF Next

----------------------------------------------------------------------------
(* The specification *)

\* Every step keeps the registry's invariant.
LEMMA StepRegistry == RegistryInv /\ [Next]_vars => RegistryInv'
<1> SUFFICES ASSUME RegistryInv, [Next]_vars PROVE RegistryInv'
  OBVIOUS
<1>1. ASSUME NEW m \in Mirrors, MirrorStep(m) PROVE RegistryInv'
  <2>1. m \in DOMAIN mirror
    BY <1>1 DEF MirrorStep
  <2>2. QED
    BY <1>1, <2>1, PublishKeeps, BootFailsKeeps, MirrorLeaves DEF MirrorStep
<1>2. ASSUME NEW r \in Reconciles, ReconcileStarts(r) \/ ReconcileStep(r) PROVE RegistryInv'
  BY <1>2, ReconcileKeeps
<1>3. ASSUME NEW f \in Reconciles \cup Owners, AttachStep(f) PROVE RegistryInv'
  BY <1>3, AttachKeeps
<1>4. ASSUME NEW o \in Owners,
             \/ OwnerStep(o) \/ OwnerDisposes(o) \/ BorrowerReleases(o)
             \/ \E s \in Sessions : CreateCall(o, s) \/ ResumeCall(o, s)
             \/ \E s, child \in Sessions : ForkCall(o, s, child)
      PROVE  RegistryInv'
  <2>1. CASE OwnerStep(o)
    BY <2>1, OwnerKeeps
  <2>2. CASE OwnerDisposes(o)
    BY <2>2, OwnerDisposesKeeps
  <2>3. CASE BorrowerReleases(o)
    BY <2>3, BorrowKeeps
  <2>4. ASSUME NEW s \in Sessions, ResumeCall(o, s) PROVE RegistryInv'
    BY <2>4, ResumeKeeps
  <2>5. CASE \E s \in Sessions : CreateCall(o, s)
    BY <2>5, CallsKeep
  <2>6. CASE \E s, child \in Sessions : ForkCall(o, s, child)
    BY <2>6, CallsKeep
  <2>7. QED
    BY <1>4, <2>1, <2>2, <2>3, <2>4, <2>5, <2>6
<1>5. CASE ProxyDisposes \/ ProxyGoesOn
  BY <1>5, ProxyKeeps
<1>6. ASSUME NEW s \in Sessions, SessionEnds(s) \/ OtherStarts(s) PROVE RegistryInv'
  BY <1>6, NothingChanges DEF SessionEnds, OtherStarts, clientVars, proxyVars
<1>7. CASE UNCHANGED vars
  BY <1>7, NothingChanges DEF vars
<1>8. QED
  BY <1>1, <1>2, <1>3, <1>4, <1>5, <1>6, <1>7 DEF Next

\* proxy.ts, factory.ts, client.ts: whatever reconciles, calls and disposals
\* interleave, registry, handles, bootstraps and callers agree, and so do they
\* with the daemon about who is attached, as long as no calls of client.attach
\* overlapped and no escalation was refused.
THEOREM RegistryInvariant == Spec => [](RegistryInv /\ LinkInv)
BY InitRegistry, StepRegistry, InitLink, StepLink, PTL DEF Spec

\* proxy.ts: a registered mirror is a live one of its session, or one that its
\* own owner is disposing.
THEOREM RegistryTrueHolds == Spec => []RegistryTrue
<1>1. RegistryInv => RegistryTrue
  BY DEF RegistryInv, Entries, RegistryTrue
<1>2. QED
  BY <1>1, RegistryInvariant, PTL

\* proxy.ts, client.ts: the first mirror of a session stays registered, the handle
\* it shares is not detached, and the daemon goes on sending to this client, for
\* as long as mirror and plugin live; the excuses for the attachment at the daemon
\* are a refused escalation (broker.ts 277) and overlapping calls of client.attach
\* (client.ts 163-165), and only for the session they happened to.
THEOREM RegistryFirstKept == Spec => []FirstMirrorKept
<1>1. ASSUME RegistryInv, LinkInv PROVE FirstMirrorKept
  <2> SUFFICES ASSUME NEW m \in DOMAIN mirror, mirror[m].st = "live",
                      \A n \in DOMAIN mirror : n < m /\ Published(n) => mirror[n].s # mirror[m].s,
                      ~disposed
               PROVE  /\ mirrors[mirror[m].s] = m /\ ~handle[mirror[m].h].detached
                      /\ mirror[m].s \in attached \cup refused \cup crossed
    BY DEF FirstMirrorKept
  <2>1. mirrors[mirror[m].s] = m /\ ~handle[mirror[m].h].detached
    BY <1>1 DEF RegistryInv, FirstKept, FirstIn, Entered, Published
  <2>2. mirror[m].h \in DOMAIN handle /\ handle[mirror[m].h].s = mirror[m].s
    BY <1>1 DEF RegistryInv, MirrorsOK
  <2>3. mirror[m].s \in Sessions
    BY <1>1, <2>2, HandleSession DEF RegistryInv, ValuesOK
  <2>4. mirror[m].s \in attached \cup refused \cup crossed
    BY <1>1, <2>1, <2>2, <2>3 DEF LinkInv, LinkOK
  <2>5. QED
    BY <2>1, <2>4
<1>2. QED
  BY <1>1, RegistryInvariant, PTL

=============================================================================
