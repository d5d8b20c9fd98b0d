---------------------------- MODULE BrokerProofs ----------------------------
(***************************************************************************)
(* Proofs about SessionBroker and about InteractionBridge on top of it,    *)
(* for every set of clients, sessions, approvals and questions and every   *)
(* bound on the log.  Those about the bridges rest on those about the      *)
(* broker: every step of the bridges is a step of the broker, or leaves it *)
(* alone.                                                                  *)
(***************************************************************************)
EXTENDS InteractionBridge, TLAPS

----------------------------------------------------------------------------
(* The broker *)

\* The replay of an attach starting at `from` is a sequence of event numbers.
LEMMA ReplayType ==
  ASSUME NEW n \in 0..MaxSeq, NEW from \in Int, from >= -1, from < n
  PROVE  /\ [i \in 1..(n - 1 - from) |-> from + i] \in Seq(0..MaxSeq)
         /\ Len([i \in 1..(n - 1 - from) |-> from + i]) = n - 1 - from
<1> DEFINE f == [i \in 1..(n - 1 - from) |-> from + i]
<1>1. n - 1 - from \in Nat
  BY MaxSeqAssumption
<1>2. \A i \in 1..(n - 1 - from) : from + i \in 0..MaxSeq
  BY MaxSeqAssumption
<1>3. f \in [1..(n - 1 - from) -> 0..MaxSeq]
  BY <1>2
<1>4. QED
  BY <1>1, <1>3

\* Appending the next event to a replay gives the replay of the longer log.
LEMMA ReplayAppend ==
  ASSUME NEW n \in 0..MaxSeq, n < MaxSeq, NEW from \in Int, from >= -1, from < n
  PROVE  [i \in 1..(n - 1 - from) |-> from + i] \o [i \in 1..1 |-> n]
           = [i \in 1..(n + 1 - 1 - from) |-> from + i]
<1> DEFINE f == [i \in 1..(n - 1 - from) |-> from + i]
           g == [i \in 1..1 |-> n]
           h == [i \in 1..(n + 1 - 1 - from) |-> from + i]
<1>1. f \in Seq(0..MaxSeq) /\ Len(f) = n - 1 - from
  BY ReplayType
<1>2. g \in Seq(0..MaxSeq) /\ Len(g) = 1
  BY MaxSeqAssumption
<1>3. h \in Seq(0..MaxSeq) /\ Len(h) = n - from
  <2>1. n + 1 \in 0..MaxSeq /\ from < n + 1
    BY MaxSeqAssumption
  <2>2. QED
    BY <2>1, ReplayType
<1>4. (f \o g) \in Seq(0..MaxSeq) /\ Len(f \o g) = n - from
  BY <1>1, <1>2
<1>5. ASSUME NEW i \in 1..(n - from)
      PROVE  (f \o g)[i] = h[i]
  <2>1. CASE i <= Len(f)
    BY <1>1, <1>2, <2>1
  <2>2. CASE i = Len(f) + 1
    <3>1. (f \o g)[i] = g[i - Len(f)]
      BY <1>1, <1>2, <2>2
    <3>2. g[1] = n /\ h[i] = from + i
      OBVIOUS
    <3>3. QED
      BY <1>1, <2>2, <3>1, <3>2
  <2>3. QED
    BY <1>1, <2>1, <2>2
<1>6. QED
  BY <1>3, <1>4, <1>5

----------------------------------------------------------------------------
(* The attachment bookkeeping *)

AttachTypeOK ==
  /\ attachments \in [Clients -> SUBSET Sessions]
  /\ attached \in [Sessions -> SUBSET Clients]
  /\ subs \in [Clients -> [Sessions -> Nat]]
  /\ since \in [Clients -> [Sessions -> -1..MaxSeq]]
  /\ feed \in [Clients -> [Sessions -> Seq(0..MaxSeq)]]

\* The part of the invariant that #trackAttachment and #dropAttachment own.
AttachInv ==
  /\ AttachTypeOK
  /\ AttachmentsAgree
  /\ FeedExact
  /\ AbsentUnjoined
  /\ SinceBelowHead

\* #trackAttachment keeps the records of the attachments in agreement and
\* starts an exact feed.
LEMMA TrackKeeps ==
  ASSUME BrokerInv,
         NEW c \in Clients, NEW s \in Sessions, NEW from \in -1..MaxSeq,
         AttachReady(c, s, from), TrackAttachment(c, s, from),
         UNCHANGED <<conn, store, seq>>
  PROVE  AttachInv' /\ attached' = [attached EXCEPT ![s] = @ \union {c}]
<1>1. seq[s] \in 0..MaxSeq /\ from \in Int /\ from >= -1 /\ from < seq[s]
  BY MaxSeqAssumption DEF BrokerInv, BrokerTypeOK, TrackAttachment, AttachReady
<1>2. Replay(s, from) \in Seq(0..MaxSeq)
  BY <1>1, ReplayType DEF Replay
<1>3. AttachTypeOK'
  <2>1. subs' \in [Clients -> [Sessions -> Nat]]
    BY DEF BrokerInv, BrokerTypeOK, TrackAttachment, AttachReady
  <2>2. feed' \in [Clients -> [Sessions -> Seq(0..MaxSeq)]]
    BY <1>2 DEF BrokerInv, BrokerTypeOK, TrackAttachment, AttachReady
  <2>3. QED
    BY <2>1, <2>2 DEF BrokerInv, BrokerTypeOK, TrackAttachment, AttachReady, AttachTypeOK
<1>4. AttachmentsAgree'
  <2> SUFFICES ASSUME NEW x \in Clients, NEW t \in Sessions
               PROVE  /\ t \in attachments'[x] <=> x \in attached'[t]
                      /\ subs'[x][t] = IF t \in attachments'[x] THEN 1 ELSE 0
                      /\ t \in attachments'[x] => conn'[x] = "live"
    BY DEF AttachmentsAgree
  <2>1. CASE x = c /\ t = s
    BY <2>1 DEF BrokerInv, BrokerTypeOK, TrackAttachment, AttachReady, AttachmentsAgree
  <2>2. CASE ~(x = c /\ t = s)
    <3>1. /\ t \in attachments'[x] <=> t \in attachments[x]
          /\ x \in attached'[t] <=> x \in attached[t]
          /\ subs'[x][t] = subs[x][t]
      BY <2>2 DEF BrokerInv, BrokerTypeOK, TrackAttachment, AttachReady
    <3>2. QED
      BY <3>1 DEF BrokerInv, AttachmentsAgree
  <2>3. QED
    BY <2>1, <2>2
<1>5. FeedExact'
  <2>1. seq' = seq
    OBVIOUS
  <2>2. \A t \in Sessions : \A x \in attached'[t] :
          feed'[x][t] = Replay(t, since'[x][t])
    <3> TAKE t \in Sessions
    <3> TAKE x \in attached'[t]
    <3>1. CASE x = c /\ t = s
      BY <3>1, <1>1 DEF BrokerInv, BrokerTypeOK, TrackAttachment, AttachReady
    <3>2. CASE ~(x = c /\ t = s)
      <4>1. x \in attached[t] /\ feed'[x][t] = feed[x][t] /\ since'[x][t] = since[x][t]
        BY <3>2 DEF BrokerInv, BrokerTypeOK, TrackAttachment, AttachReady
      <4>2. QED
        BY <4>1 DEF BrokerInv, FeedExact
    <3>3. QED
      BY <3>1, <3>2
  <2>3. QED
    BY <2>1, <2>2, Zenon DEF FeedExact, Replay
<1>6. AbsentUnjoined'
  BY DEF BrokerInv, BrokerTypeOK, TrackAttachment, AttachReady, AbsentUnjoined
<1>7. SinceBelowHead'
  BY <1>1 DEF BrokerInv, BrokerTypeOK, TrackAttachment, AttachReady, SinceBelowHead
<1>8. QED
  BY <1>3, <1>4, <1>5, <1>6, <1>7 DEF AttachInv, TrackAttachment

\* #dropAttachment (also the loop over it in disconnect) keeps the records in
\* agreement; a client may leave the connections only if all of its
\* attachments are dropped.
LEMMA DropKeeps ==
  ASSUME BrokerInv,
         NEW c \in Clients, NEW which \in SUBSET Sessions,
         DropAttachments(c, which),
         \A x \in Clients : conn[x] = "live" =>
            conn'[x] = "live" \/ (x = c /\ which = Sessions),
         UNCHANGED <<store, seq>>
  PROVE  /\ AttachInv'
         /\ \A t \in Sessions : \A x \in Clients :
              x \in attached'[t] <=> x \in attached[t] /\ ~(x = c /\ t \in which)
<1> DEFINE gone == which \intersect attachments[c]
<1>1. \A t \in Sessions : \A x \in Clients :
        x \in attached'[t] <=> x \in attached[t] /\ ~(x = c /\ t \in which)
  BY DEF DropAttachments, BrokerInv, BrokerTypeOK, AttachmentsAgree
<1>2. \A t \in Sessions : subs[c][t] - (IF t \in gone THEN 1 ELSE 0) \in Nat
  BY DEF BrokerInv, BrokerTypeOK, AttachmentsAgree
<1>3. AttachTypeOK'
  <2>1. subs' \in [Clients -> [Sessions -> Nat]]
    BY <1>2 DEF DropAttachments, BrokerInv, BrokerTypeOK
  <2>2. feed' \in [Clients -> [Sessions -> Seq(0..MaxSeq)]]
    <3>1. \A t \in Sessions :
            (IF t \in gone THEN <<>> ELSE feed[c][t]) \in Seq(0..MaxSeq)
      <4>1. <<>> \in Seq(0..MaxSeq)
        OBVIOUS
      <4>2. \A t \in Sessions : feed[c][t] \in Seq(0..MaxSeq)
        BY DEF BrokerInv, BrokerTypeOK
      <4>3. QED
        BY <4>1, <4>2, Zenon
    <3>2. QED
      BY <3>1 DEF DropAttachments, BrokerInv, BrokerTypeOK
  <2>3. since' \in [Clients -> [Sessions -> -1..MaxSeq]]
    BY MaxSeqAssumption DEF DropAttachments, BrokerInv, BrokerTypeOK
  <2>4. QED
    BY <2>1, <2>2, <2>3 DEF DropAttachments, BrokerInv, BrokerTypeOK, AttachTypeOK
<1>4. AttachmentsAgree'
  BY DEF DropAttachments, BrokerInv, BrokerTypeOK, AttachmentsAgree
<1>5. \A t \in Sessions : \A x \in attached'[t] :
        /\ x \in attached[t]
        /\ feed'[x][t] = feed[x][t]
        /\ since'[x][t] = since[x][t]
  BY DEF DropAttachments, BrokerInv, BrokerTypeOK, AttachmentsAgree
<1>6. FeedExact'
  <2>1. seq' = seq
    OBVIOUS
  <2>2. \A t \in Sessions : \A x \in attached'[t] :
          feed'[x][t] = Replay(t, since'[x][t])
    BY <1>5 DEF BrokerInv, FeedExact
  <2>3. QED
    BY <2>1, <2>2, Zenon DEF FeedExact, Replay
<1>7. AbsentUnjoined'
  BY <1>5 DEF BrokerInv, BrokerTypeOK, AbsentUnjoined, DropAttachments
<1>8. SinceBelowHead'
  BY <1>5 DEF BrokerInv, SinceBelowHead
<1>9. QED
  BY <1>1, <1>3, <1>4, <1>6, <1>7, <1>8 DEF AttachInv

----------------------------------------------------------------------------
(* Every action keeps the invariant *)

\* What is left to show once the attachment records are known to be kept.
RestInv ==
  /\ conn \in [Clients -> {"new", "live", "gone"}]
  /\ leases \in [Sessions -> Holder]
  /\ waiting \in SUBSET Sessions
  /\ saving \in SUBSET (Clients \X Sessions)
  /\ compacting \in SUBSET Sessions
  /\ store \in [Sessions -> {"absent", "live", "disposed"}]
  /\ agent \in [Sessions -> {"none", "idle", "running"}]
  /\ seq \in [Sessions -> 0..MaxSeq]
  /\ view \in [Clients -> [Sessions -> Holder]]
  /\ HolderAttached
  /\ ViewIsLease

\* The invariant splits into the two parts.
LEMMA InvSplit == BrokerInv <=> AttachInv /\ RestInv
BY DEF BrokerInv, BrokerTypeOK, AttachInv, AttachTypeOK, RestInv

\* The empty broker satisfies the invariant.
LEMMA InitInv == BrokerInit => BrokerInv
<1> SUFFICES ASSUME BrokerInit PROVE BrokerInv
  OBVIOUS
<1>1. BrokerTypeOK
  <2>1. <<>> \in Seq(0..MaxSeq) /\ -1 \in -1..MaxSeq /\ 0 \in 0..MaxSeq
    BY MaxSeqAssumption
  <2>2. feed \in [Clients -> [Sessions -> Seq(0..MaxSeq)]]
    BY <2>1, Zenon DEF BrokerInit
  <2>3. QED
    BY <2>1, <2>2 DEF BrokerInit, BrokerTypeOK, Holder
<1>2. QED
  BY <1>1 DEF BrokerInit, BrokerInv, AttachmentsAgree, HolderAttached, ViewIsLease,
              FeedExact, AbsentUnjoined, SinceBelowHead

\* A step that leaves the attachments and the logs alone keeps AttachInv.
LEMMA UntouchedKeeps ==
  ASSUME BrokerInv, UNCHANGED attachVars, seq' = seq,
         \A x \in Clients : conn[x] = "live" => conn'[x] = "live",
         \A s \in Sessions : store'[s] = "absent" => store[s] = "absent"
  PROVE  AttachInv'
<1>1. UNCHANGED <<attachments, attached, subs, since, feed>>
  BY DEF attachVars
<1>2. AttachTypeOK'
  BY <1>1 DEF BrokerInv, BrokerTypeOK, AttachTypeOK
<1>3. AttachmentsAgree' /\ AbsentUnjoined' /\ SinceBelowHead'
  BY <1>1 DEF BrokerInv, BrokerTypeOK, AttachmentsAgree, AbsentUnjoined, SinceBelowHead
<1>4. FeedExact'
  <2>1. \A t \in Sessions : \A x \in attached'[t] :
          feed'[x][t] = Replay(t, since'[x][t])
    BY <1>1 DEF BrokerInv, FeedExact
  <2>2. QED
    BY <2>1, Zenon DEF FeedExact, Replay
<1>5. QED
  BY <1>2, <1>3, <1>4 DEF AttachInv

\* A new connection (broker.connect) has no attachment and no lease.
LEMMA ConnectInv ==
  ASSUME BrokerInv, NEW c \in Clients, Connect(c)
  PROVE  BrokerInv'
<1>1. UNCHANGED attachVars /\ seq' = seq /\ store' = store
  BY DEF Connect, hostVars
<1>2. \A x \in Clients : conn[x] = "live" => conn'[x] = "live"
  BY DEF Connect, BrokerInv, BrokerTypeOK
<1>3. AttachInv'
  BY <1>1, <1>2, UntouchedKeeps
<1>4. RestInv'
  BY <1>2 DEF Connect, attachVars, workVars, hostVars, BrokerInv, BrokerTypeOK,
              RestInv, HolderAttached, ViewIsLease, Holder
<1>5. QED
  BY <1>3, <1>4, InvSplit, PTL

\* broker.disconnect frees every lease of the client with its attachments.
LEMMA DisconnectInv ==
  ASSUME BrokerInv, NEW c \in Clients, Disconnect(c)
  PROVE  BrokerInv'
<1> DEFINE freed == {s \in Sessions : leases[s] = c}
<1>1. /\ AttachInv'
      /\ \A t \in Sessions : \A x \in Clients :
           x \in attached'[t] <=> x \in attached[t] /\ x # c
  <2>1. \A x \in Clients : conn[x] = "live" => conn'[x] = "live" \/ (x = c /\ Sessions = Sessions)
    BY DEF Disconnect, BrokerInv, BrokerTypeOK
  <2>2. DropAttachments(c, Sessions) /\ UNCHANGED <<store, seq>>
    BY DEF Disconnect, hostVars
  <2>3. QED
    BY <2>1, <2>2, DropKeeps
<1>2. RestInv'
  <2>1. HolderAttached'
    BY <1>1 DEF Disconnect, BrokerInv, BrokerTypeOK, HolderAttached, Holder
  <2>2. ViewIsLease'
    <3> SUFFICES ASSUME NEW t \in Sessions, NEW x \in attached'[t]
                 PROVE  view'[x][t] = leases'[t]
      BY DEF ViewIsLease
    <3>1. x \in Clients /\ x \in attached[t] /\ x # c
      BY <1>1 DEF AttachInv, AttachTypeOK
    <3>2. x \in AttachedTo(t) /\ view[x][t] = leases[t]
      BY <3>1 DEF BrokerInv, AttachmentsAgree, ViewIsLease, AttachedTo
    <3>3. QED
      BY <3>1, <3>2 DEF Disconnect
  <2>3. view' \in [Clients -> [Sessions -> Holder]]
    BY DEF Disconnect, BrokerInv, BrokerTypeOK, Holder
  <2>4. QED
    BY <2>1, <2>2, <2>3
    DEF Disconnect, workVars, hostVars, BrokerInv, BrokerTypeOK, RestInv, Holder
<1>3. QED
  BY <1>1, <1>2, InvSplit, PTL

\* A read attach keeps the invariant and learns the current holder.
LEMMA AttachReadInv ==
  ASSUME BrokerInv, NEW c \in Clients, NEW s \in Sessions, NEW from \in -1..MaxSeq,
         AttachRead(c, s, from)
  PROVE  BrokerInv'
<1>1. AttachInv' /\ attached' = [attached EXCEPT ![s] = @ \union {c}]
  BY TrackKeeps DEF AttachRead, hostVars
<1>2. RestInv'
  BY <1>1 DEF AttachRead, workVars, hostVars, BrokerInv, BrokerTypeOK, RestInv,
              HolderAttached, ViewIsLease, Holder
<1>3. QED
  BY <1>1, <1>2, InvSplit, PTL

\* A write attach makes an attached client the holder and tells everyone.
LEMMA AttachWriteInv ==
  ASSUME BrokerInv, NEW c \in Clients, NEW s \in Sessions, NEW from \in -1..MaxSeq,
         NEW force \in BOOLEAN, AttachWrite(c, s, from, force)
  PROVE  BrokerInv'
<1>1. AttachInv' /\ attached' = [attached EXCEPT ![s] = @ \union {c}]
  BY TrackKeeps DEF AttachWrite, hostVars
<1>2. HolderAttached'
  BY <1>1, NoneAssumption
  DEF AttachWrite, AttachReady, BrokerInv, BrokerTypeOK, HolderAttached, Holder
<1>3. view' \in [Clients -> [Sessions -> Holder]]
  BY DEF AttachWrite, BroadcastControl, BrokerInv, BrokerTypeOK, Holder
<1>4. ViewIsLease'
  <2> SUFFICES ASSUME NEW t \in Sessions, NEW x \in attached'[t]
               PROVE  view'[x][t] = leases'[t]
    BY DEF ViewIsLease
  <2>1. x \in Clients
    BY <1>1 DEF AttachInv, AttachTypeOK
  <2>2. CASE t = s
    <3>1. x \in AttachedTo(s) \union {c}
      BY <1>1, <2>2 DEF AttachedTo, BrokerInv, BrokerTypeOK, AttachmentsAgree
    <3>2. QED
      BY <2>1, <2>2, <3>1 DEF AttachWrite, BroadcastControl, BrokerInv, BrokerTypeOK
  <2>3. CASE t # s
    BY <1>1, <2>1, <2>3
    DEF AttachWrite, BroadcastControl, BrokerInv, BrokerTypeOK, ViewIsLease
  <2>4. QED
    BY <2>2, <2>3
<1>5. RestInv'
  BY <1>2, <1>3, <1>4
  DEF AttachWrite, workVars, hostVars, BrokerInv, BrokerTypeOK, RestInv, Holder
<1>6. QED
  BY <1>1, <1>5, InvSplit, PTL

\* A repeated write attach of the holder keeps the invariant.
LEMMA AttachWriteAgainInv ==
  ASSUME BrokerInv, NEW c \in Clients, NEW s \in Sessions, NEW from \in -1..MaxSeq,
         AttachWriteAgain(c, s, from)
  PROVE  BrokerInv'
<1>1. AttachInv' /\ attached' = [attached EXCEPT ![s] = @ \union {c}]
  BY TrackKeeps DEF AttachWriteAgain, hostVars
<1>2. RestInv'
  BY <1>1 DEF AttachWriteAgain, workVars, hostVars, BrokerInv, BrokerTypeOK, RestInv,
              HolderAttached, ViewIsLease, Holder
<1>3. QED
  BY <1>1, <1>2, InvSplit, PTL

\* A refused write attach drops an attachment that holds no lease.
LEMMA AttachLockedInv ==
  ASSUME BrokerInv, NEW c \in Clients, NEW s \in Sessions, AttachLocked(c, s)
  PROVE  BrokerInv'
<1>1. /\ AttachInv'
      /\ \A t \in Sessions : \A x \in Clients :
           x \in attached'[t] <=> x \in attached[t] /\ ~(x = c /\ t \in {s})
  BY DropKeeps DEF AttachLocked, hostVars
<1>2. HolderAttached'
  BY <1>1 DEF AttachLocked, BrokerInv, BrokerTypeOK, HolderAttached, Holder
<1>3. ViewIsLease'
  BY <1>1 DEF AttachLocked, BrokerInv, BrokerTypeOK, ViewIsLease, AttachInv, AttachTypeOK
<1>4. RestInv'
  BY <1>2, <1>3
  DEF AttachLocked, workVars, hostVars, BrokerInv, BrokerTypeOK, RestInv, Holder
<1>5. QED
  BY <1>1, <1>4, InvSplit, PTL

\* broker.detach releases the lease with the attachment.
LEMMA DetachInv ==
  ASSUME BrokerInv, NEW c \in Clients, NEW s \in Sessions, Detach(c, s)
  PROVE  BrokerInv'
<1>1. /\ AttachInv'
      /\ \A t \in Sessions : \A x \in Clients :
           x \in attached'[t] <=> x \in attached[t] /\ ~(x = c /\ t \in {s})
  BY DropKeeps DEF Detach, hostVars
<1>2. HolderAttached'
  BY <1>1 DEF Detach, BrokerInv, BrokerTypeOK, HolderAttached, Holder
<1>3. view' \in [Clients -> [Sessions -> Holder]]
  <2>1. BroadcastControl(view, s, AttachedTo(s), None) \in [Clients -> [Sessions -> Holder]]
    BY DEF BroadcastControl, BrokerInv, BrokerTypeOK, Holder
  <2>2. view \in [Clients -> [Sessions -> Holder]] /\ None \in Holder
    BY DEF BrokerInv, BrokerTypeOK, Holder
  <2>3. CASE leases[s] = c
    BY <2>1, <2>2, <2>3 DEF Detach
  <2>4. CASE leases[s] # c
    BY <2>2, <2>4 DEF Detach
  <2>5. QED
    BY <2>3, <2>4
<1>4. ViewIsLease'
  <2> SUFFICES ASSUME NEW t \in Sessions, NEW x \in attached'[t]
               PROVE  view'[x][t] = leases'[t]
    BY DEF ViewIsLease
  <2>1. x \in Clients /\ x \in attached[t] /\ ~(x = c /\ t = s)
    BY <1>1 DEF AttachInv, AttachTypeOK
  <2>2. x \in AttachedTo(t) /\ view[x][t] = leases[t]
    BY <2>1 DEF BrokerInv, AttachmentsAgree, ViewIsLease, AttachedTo
  <2>3. QED
    BY <2>1, <2>2 DEF Detach, BroadcastControl, BrokerInv, BrokerTypeOK
<1>5. RestInv'
  BY <1>2, <1>3, <1>4
  DEF Detach, workVars, hostVars, BrokerInv, BrokerTypeOK, RestInv, Holder
<1>6. QED
  BY <1>1, <1>5, InvSplit, PTL

\* controlRelease frees the lease and tells every attached client.
LEMMA ControlReleaseInv ==
  ASSUME BrokerInv, NEW c \in Clients, NEW s \in Sessions, ControlRelease(c, s)
  PROVE  BrokerInv'
<1>1. UNCHANGED <<attachments, attached, subs, since, feed, conn, store, seq>>
  BY DEF ControlRelease, attachVars, hostVars
<1>2. AttachInv'
  BY <1>1, UntouchedKeeps DEF attachVars
<1>3. HolderAttached'
  BY <1>1 DEF ControlRelease, BrokerInv, BrokerTypeOK, HolderAttached, Holder
<1>4. view' \in [Clients -> [Sessions -> Holder]]
  BY DEF ControlRelease, BroadcastControl, BrokerInv, BrokerTypeOK, Holder
<1>5. ViewIsLease'
  <2> SUFFICES ASSUME NEW t \in Sessions, NEW x \in attached[t]
               PROVE  view'[x][t] = leases'[t]
    BY <1>1 DEF ViewIsLease
  <2>1. x \in Clients /\ x \in AttachedTo(t) /\ view[x][t] = leases[t]
    BY DEF BrokerInv, BrokerTypeOK, AttachmentsAgree, ViewIsLease, AttachedTo
  <2>2. QED
    BY <2>1 DEF ControlRelease, BroadcastControl, BrokerInv, BrokerTypeOK
<1>6. RestInv'
  BY <1>3, <1>4, <1>5
  DEF ControlRelease, workVars, hostVars, BrokerInv, BrokerTypeOK, RestInv, Holder
<1>7. QED
  BY <1>2, <1>6, InvSplit, PTL

\* The actions that touch neither attachments, leases, connections nor logs.
LEMMA QuietInv ==
  ASSUME BrokerInv, UNCHANGED <<conn, attachVars, leases, view, seq>>,
         waiting' \in SUBSET Sessions,
         saving' \in SUBSET (Clients \X Sessions),
         compacting' \in SUBSET Sessions,
         store' \in [Sessions -> {"absent", "live", "disposed"}],
         agent' \in [Sessions -> {"none", "idle", "running"}],
         \A s \in Sessions : store'[s] = "absent" => store[s] = "absent"
  PROVE  BrokerInv'
<1>1. AttachInv'
  BY UntouchedKeeps
<1>2. RestInv'
  BY DEF attachVars, BrokerInv, BrokerTypeOK, RestInv, HolderAttached, ViewIsLease
<1>3. QED
  BY <1>1, <1>2, InvSplit, PTL

\* Forking fills the log of a session nobody is attached to.
LEMMA ForkInv ==
  ASSUME BrokerInv, NEW c \in Clients, NEW s \in Sessions, NEW child \in Sessions,
         NEW keep \in 0..MaxSeq, Fork(c, s, child, keep)
  PROVE  BrokerInv'
<1>1. UNCHANGED <<conn, attachments, attached, subs, since, feed, leases, view,
                  waiting, saving, compacting, agent>>
  BY DEF Fork, attachVars, workVars
<1>2. attached[child] = {}
  BY DEF Fork, BrokerInv, AbsentUnjoined
<1>3. \A t \in Sessions : attached[t] # {} => seq'[t] = seq[t]
  BY <1>2 DEF Fork, BrokerInv, BrokerTypeOK
<1>4. AttachInv'
  <2>1. AttachTypeOK'
    BY <1>1 DEF BrokerInv, BrokerTypeOK, AttachTypeOK
  <2>2. AttachmentsAgree'
    BY <1>1 DEF BrokerInv, AttachmentsAgree
  <2>3. AbsentUnjoined'
    BY <1>1 DEF Fork, BrokerInv, BrokerTypeOK, AbsentUnjoined
  <2>4. SinceBelowHead'
    BY <1>1, <1>3 DEF BrokerInv, SinceBelowHead
  <2>5. FeedExact'
    <3>1. \A t \in Sessions : \A x \in attached'[t] :
            feed'[x][t] = Replay(t, since'[x][t]) /\ seq'[t] = seq[t]
      BY <1>1, <1>3 DEF BrokerInv, FeedExact
    <3>2. QED
      BY <3>1, Zenon DEF FeedExact, Replay
  <2>6. QED
    BY <2>1, <2>2, <2>3, <2>4, <2>5 DEF AttachInv
<1>5. RestInv'
  BY <1>1 DEF Fork, BrokerInv, BrokerTypeOK, RestInv, HolderAttached, ViewIsLease
<1>6. QED
  BY <1>4, <1>5, InvSplit, PTL

\* A session event reaches the clients attached to the session, each once.
LEMMA EventReachesAttached ==
  ASSUME BrokerInv, NEW s \in Sessions, SessionEvent(s), NEW x \in Clients
  PROVE  /\ x \notin attached[s] => feed'[x][s] = feed[x][s]
         /\ x \in attached[s] => feed'[x][s] = feed[x][s] \o [i \in 1..1 |-> seq[s]]
         /\ feed'[x][s] \in Seq(0..MaxSeq)
         /\ \A t \in Sessions \ {s} : feed'[x][t] = feed[x][t]
<1>1. feed[x][s] \in Seq(0..MaxSeq)
  BY DEF BrokerInv, BrokerTypeOK
<1>2. /\ feed'[x][s] = feed[x][s] \o [i \in 1..subs[x][s] |-> seq[s]]
      /\ \A t \in Sessions \ {s} : feed'[x][t] = feed[x][t]
  BY DEF SessionEvent, BrokerInv, BrokerTypeOK
<1>3. CASE x \notin attached[s]
  <2>1. subs[x][s] = 0
    BY <1>3 DEF BrokerInv, AttachmentsAgree
  <2>2. [i \in 1..0 |-> seq[s]] = <<>>
    OBVIOUS
  <2>3. feed[x][s] \o <<>> = feed[x][s]
    BY <1>1
  <2>4. feed'[x][s] = feed[x][s]
    BY <1>2, <2>1, <2>2, <2>3
  <2>5. QED
    BY <1>1, <1>2, <1>3, <2>4
<1>4. CASE x \in attached[s]
  <2>1. subs[x][s] = 1
    BY <1>4 DEF BrokerInv, AttachmentsAgree
  <2>2. feed'[x][s] = feed[x][s] \o [i \in 1..1 |-> seq[s]]
    BY <1>2, <2>1
  <2>3. [i \in 1..1 |-> seq[s]] \in Seq(0..MaxSeq)
    BY DEF BrokerInv, BrokerTypeOK
  <2>4. feed'[x][s] \in Seq(0..MaxSeq)
    BY <1>1, <2>2, <2>3
  <2>5. QED
    BY <1>2, <1>4, <2>2, <2>4
<1>5. QED
  BY <1>3, <1>4

\* A session event extends every feed of the session by exactly that event.
LEMMA SessionEventInv ==
  ASSUME BrokerInv, NEW s \in Sessions, SessionEvent(s)
  PROVE  BrokerInv'
<1>1. UNCHANGED <<conn, attachments, attached, subs, since, leases, view,
                  waiting, saving, compacting, store, agent>>
  BY DEF SessionEvent, workVars
<1>2. /\ seq[s] \in 0..MaxSeq /\ seq[s] < MaxSeq
      /\ seq' = [seq EXCEPT ![s] = @ + 1]
      /\ seq' \in [Sessions -> 0..MaxSeq]
  BY MaxSeqAssumption DEF SessionEvent, BrokerInv, BrokerTypeOK
<1>3. \A x \in Clients :
        /\ x \notin attached[s] => feed'[x][s] = feed[x][s]
        /\ x \in attached[s] => feed'[x][s] = feed[x][s] \o [i \in 1..1 |-> seq[s]]
        /\ feed'[x][s] \in Seq(0..MaxSeq)
        /\ \A t \in Sessions \ {s} : feed'[x][t] = feed[x][t]
  BY EventReachesAttached
<1>4. feed' \in [Clients -> [Sessions -> Seq(0..MaxSeq)]]
  <2>1. feed' = [x \in Clients |-> [feed[x] EXCEPT ![s] = feed'[x][s]]]
    BY DEF SessionEvent, BrokerInv, BrokerTypeOK
  <2>2. \A x \in Clients : feed[x] \in [Sessions -> Seq(0..MaxSeq)]
    BY DEF BrokerInv, BrokerTypeOK
  <2>3. ASSUME NEW x \in Clients
        PROVE  [feed[x] EXCEPT ![s] = feed'[x][s]] \in [Sessions -> Seq(0..MaxSeq)]
    <3> DEFINE S == Seq(0..MaxSeq)
    <3>1. feed'[x][s] \in S /\ feed[x] \in [Sessions -> S]
      BY <1>3, <2>2
    <3> HIDE DEF S
    <3>2. [feed[x] EXCEPT ![s] = feed'[x][s]] \in [Sessions -> S]
      BY <3>1
    <3>3. QED
      BY <3>2 DEF S
  <2>4. QED
    BY <2>1, <2>3, Zenon
<1>5. FeedExact'
  <2>1. ASSUME NEW t \in Sessions, NEW x \in attached[t]
        PROVE  feed'[x][t] = [i \in 1..(seq'[t] - 1 - since[x][t]) |-> since[x][t] + i]
    <3>1. /\ x \in Clients /\ since[x][t] \in Int /\ since[x][t] >= -1
          /\ since[x][t] < seq[t]
      BY DEF BrokerInv, BrokerTypeOK, SinceBelowHead
    <3>2. feed[x][t] = [i \in 1..(seq[t] - 1 - since[x][t]) |-> since[x][t] + i]
      BY DEF BrokerInv, FeedExact, Replay
    <3>3. CASE t = s
      <4>1. seq'[t] = seq[s] + 1
        BY <1>2, <3>3 DEF BrokerInv, BrokerTypeOK
      <4>2. feed'[x][t] = [i \in 1..(seq[s] - 1 - since[x][t]) |-> since[x][t] + i]
                            \o [i \in 1..1 |-> seq[s]]
        BY <1>3, <3>1, <3>2, <3>3
      <4>3. feed'[x][t] = [i \in 1..(seq[s] + 1 - 1 - since[x][t]) |-> since[x][t] + i]
        <5>1. since[x][t] < seq[s]
          BY <3>1, <3>3
        <5>2. [i \in 1..(seq[s] - 1 - since[x][t]) |-> since[x][t] + i]
                \o [i \in 1..1 |-> seq[s]]
                = [i \in 1..(seq[s] + 1 - 1 - since[x][t]) |-> since[x][t] + i]
          BY <1>2, <3>1, <5>1, ReplayAppend
        <5>3. QED
          BY <4>2, <5>2
      <4>4. QED
        <5>1. seq'[t] - 1 - since[x][t] = seq[s] + 1 - 1 - since[x][t]
          BY <4>1, <1>2, <3>1
        <5>2. QED
          BY <4>3, <5>1
    <3>4. CASE t # s
      <4>1. seq'[t] = seq[t]
        BY <1>2, <3>4 DEF BrokerInv, BrokerTypeOK
      <4>2. QED
        BY <1>3, <3>1, <3>2, <3>4, <4>1
    <3>5. QED
      BY <3>3, <3>4
  <2>2. QED
    BY <1>1, <2>1, ZenonT(60) DEF FeedExact, Replay
<1>6. AttachInv'
  <2>1. SinceBelowHead'
    BY <1>1, <1>2 DEF BrokerInv, BrokerTypeOK, SinceBelowHead
  <2>2. QED
    BY <1>1, <1>4, <1>5, <2>1
    DEF AttachInv, AttachTypeOK, BrokerInv, BrokerTypeOK, AttachmentsAgree, AbsentUnjoined
<1>7. RestInv'
  BY <1>1, <1>2 DEF BrokerInv, BrokerTypeOK, RestInv, HolderAttached, ViewIsLease
<1>8. QED
  BY <1>6, <1>7, InvSplit, PTL

\* The invariant is inductive: every step of the broker keeps it.
LEMMA NextInv == BrokerInv /\ [BrokerNext]_brokerVars => BrokerInv'
<1> SUFFICES ASSUME BrokerInv, [BrokerNext]_brokerVars PROVE BrokerInv'
  OBVIOUS
<1>1. ASSUME NEW c \in Clients, Connect(c) PROVE BrokerInv'
  BY <1>1, ConnectInv
<1>2. ASSUME NEW c \in Clients, Disconnect(c) PROVE BrokerInv'
  BY <1>2, DisconnectInv
<1>3. ASSUME NEW c \in Clients, NEW s \in Sessions, AttachStep(c, s) PROVE BrokerInv'
  BY <1>3, AttachReadInv, AttachWriteInv, AttachWriteAgainInv DEF AttachStep
<1>4. ASSUME NEW c \in Clients, NEW s \in Sessions, RequestStep(c, s) PROVE BrokerInv'
  <2>1. CASE AttachLocked(c, s)
    BY <2>1, AttachLockedInv
  <2>2. CASE Detach(c, s)
    BY <2>2, DetachInv
  <2>3. CASE ControlRelease(c, s)
    BY <2>3, ControlReleaseInv
  <2>4. CASE PromptText(c, s)
    BY <2>4, QuietInv DEF PromptText, Followup, workVars, BrokerInv, BrokerTypeOK
  <2>5. CASE PromptImages(c, s)
    <3>1. saving' \in SUBSET (Clients \X Sessions)
      BY <2>5 DEF PromptImages, BrokerInv, BrokerTypeOK
    <3>2. QED
      BY <2>5, <3>1, QuietInv DEF PromptImages, hostVars, BrokerInv, BrokerTypeOK
  <2>6. CASE Cancel(c, s)
    BY <2>6, QuietInv DEF Cancel, workVars, BrokerInv, BrokerTypeOK
  <2>7. CASE \E child \in Sessions, keep \in 0..MaxSeq : Fork(c, s, child, keep)
    BY <2>7, ForkInv
  <2>8. CASE Create(c, s)
    BY <2>8, QuietInv DEF Create, workVars, BrokerInv, BrokerTypeOK
  <2>9. CASE Compact(c, s)
    BY <2>9, QuietInv DEF Compact, hostVars, BrokerInv, BrokerTypeOK
  <2>10. QED
    BY <1>4, <2>1, <2>2, <2>3, <2>4, <2>5, <2>6, <2>7, <2>8, <2>9 DEF RequestStep
<1>5. ASSUME NEW s \in Sessions, HostStep(s) PROVE BrokerInv'
  <2>1. ASSUME NEW c \in Clients, PromptSaved(c, s) PROVE BrokerInv'
    BY <2>1, QuietInv DEF PromptSaved, Followup, BrokerInv, BrokerTypeOK
  <2>2. ASSUME NEW c \in Clients, PromptSaveFailed(c, s) PROVE BrokerInv'
    BY <2>2, QuietInv DEF PromptSaveFailed, hostVars, BrokerInv, BrokerTypeOK
  <2>3. CASE CompactDone(s)
    BY <2>3, QuietInv DEF CompactDone, hostVars, BrokerInv, BrokerTypeOK
  <2>4. CASE SessionEvent(s)
    BY <2>4, SessionEventInv
  <2>5. CASE AgentIdle(s)
    BY <2>5, QuietInv DEF AgentIdle, workVars, BrokerInv, BrokerTypeOK
  <2>6. CASE SessionDisposed(s)
    BY <2>6, QuietInv DEF SessionDisposed, workVars, BrokerInv, BrokerTypeOK
  <2>7. QED
    BY <1>5, <2>1, <2>2, <2>3, <2>4, <2>5, <2>6 DEF HostStep
<1>6. ASSUME NEW s \in Sessions, NEW on \in BOOLEAN, SetWaiting(s, on) PROVE BrokerInv'
  BY <1>6, QuietInv DEF SetWaiting, SetWaitingApproval, hostVars, BrokerInv, BrokerTypeOK
<1>7. CASE UNCHANGED brokerVars
  BY <1>7, QuietInv DEF brokerVars, attachVars, workVars, hostVars, BrokerInv, BrokerTypeOK
<1>8. QED
  BY <1>1, <1>2, <1>3, <1>4, <1>5, <1>6, <1>7 DEF BrokerNext

----------------------------------------------------------------------------
(* Theorems *)

\* The inductive invariant holds in every reachable state.
THEOREM BrokerInvariant == BrokerSpec => []BrokerInv
BY InitInv, NextInv, PTL DEF BrokerSpec

\* Every variable of the broker keeps its type.
THEOREM BrokerTypeCorrect == BrokerSpec => []BrokerTypeOK
<1>1. BrokerInv => BrokerTypeOK
  BY DEF BrokerInv
<1>2. QED
  BY BrokerInvariant, <1>1, PTL

\* The per-client map, the per-session set and the installed listeners always
\* describe the same attachments (broker.ts #trackAttachment, #dropAttachment).
THEOREM BrokerAttachmentsAgree == BrokerSpec => []AttachmentsAgree
<1>1. BrokerInv => AttachmentsAgree
  BY DEF BrokerInv
<1>2. QED
  BY BrokerInvariant, <1>1, PTL

\* Write control is never stranded: a lease is always held by a client that is
\* connected and attached (broker.ts attach, detach, disconnect).
THEOREM BrokerHolderAttached == BrokerSpec => []HolderAttached
<1>1. BrokerInv => HolderAttached
  BY DEF BrokerInv
<1>2. QED
  BY BrokerInvariant, <1>1, PTL

\* Every attached client knows the holder (broker.ts #broadcastControl).
THEOREM BrokerViewIsLease == BrokerSpec => []ViewIsLease
<1>1. BrokerInv => ViewIsLease
  BY DEF BrokerInv
<1>2. QED
  BY BrokerInvariant, <1>1, PTL

\* Every attachment has received exactly the events after its sinceSeq, in
\* order, across any number of re-attaches (broker.ts attach).
THEOREM BrokerFeedExact == BrokerSpec => []FeedExact
<1>1. BrokerInv => FeedExact
  BY DEF BrokerInv
<1>2. QED
  BY BrokerInvariant, <1>1, PTL

\* Only a forced write attach moves a lease from one client to another, and it
\* takes nobody out of the session.
LEMMA PreemptStep ==
  ASSUME BrokerInv, BrokerNext, NEW s \in Sessions, leases[s] # None,
         leases'[s] \notin {None, leases[s]}
  PROVE  leases[s] \in attached'[s]
<1>1. leases \in [Sessions -> Holder] /\ leases[s] \in attached[s]
  BY DEF BrokerInv, BrokerTypeOK, HolderAttached
<1>2. ASSUME NEW c \in Clients, NEW t \in Sessions, NEW from \in -1..MaxSeq,
             NEW force \in BOOLEAN, AttachWrite(c, t, from, force)
      PROVE  leases[s] \in attached'[s]
  BY <1>1, <1>2 DEF AttachWrite, TrackAttachment, BrokerInv, BrokerTypeOK
<1>3. ASSUME NEW c \in Clients,
             \/ Disconnect(c)
             \/ \E t \in Sessions : Detach(c, t) \/ ControlRelease(c, t)
      PROVE  FALSE
  BY <1>1, <1>3 DEF Disconnect, Detach, ControlRelease
<1>4. ASSUME UNCHANGED leases PROVE FALSE
  BY <1>4
<1>5. CASE \E c \in Clients : Connect(c) \/ Disconnect(c)
  BY <1>3, <1>4, <1>5 DEF Connect
<1>6. CASE \E c \in Clients, t \in Sessions : AttachStep(c, t)
  BY <1>2, <1>4, <1>6 DEF AttachStep, AttachRead, AttachWriteAgain
<1>7. CASE \E c \in Clients, t \in Sessions : RequestStep(c, t)
  BY <1>3, <1>4, <1>7
  DEF RequestStep, AttachLocked, PromptText, PromptImages, Cancel, Fork, Create, Compact
<1>8. CASE \E t \in Sessions : HostStep(t) \/ \E on \in BOOLEAN : SetWaiting(t, on)
  BY <1>4, <1>8
  DEF HostStep, PromptSaved, PromptSaveFailed, CompactDone, SessionEvent, AgentIdle,
      SessionDisposed, SetWaiting
<1>9. QED
  BY <1>5, <1>6, <1>7, <1>8 DEF BrokerNext

\* A client that is preempted stays attached (broker.ts #acquireLease).
THEOREM BrokerPreemptedStays == BrokerSpec => PreemptedStaysAttached
<1>1. BrokerInv /\ [BrokerNext]_brokerVars =>
        [\A s \in Sessions :
           leases[s] # None /\ leases'[s] \notin {None, leases[s]} =>
             leases[s] \in attached'[s]]_brokerVars
  BY PreemptStep
<1>2. QED
  BY <1>1, BrokerInvariant, PTL DEF BrokerSpec, PreemptedStaysAttached

----------------------------------------------------------------------------
(* Refinement: the broker implements the shared session *)

\* Dropping a client from every session it is attached to is Leave.
LEMMA DropIsLeave ==
  ASSUME BrokerInv, NEW c \in Clients, NEW which \in SUBSET Sessions,
         DropAttachments(c, which), seq' = seq,
         leases' = [s \in Sessions |->
                      IF s \in which \intersect attachments[c] /\ leases[s] = c
                      THEN None ELSE leases[s]]
  PROVE  Shared!SharedNext
<1> DEFINE gone == which \intersect attachments[c]
<1>1. Shared!Leave(c, gone)
  BY DEF Shared!Leave, DropAttachments
<1>2. gone \in SUBSET Sessions
  OBVIOUS
<1>3. QED
  BY <1>1, <1>2 DEF Shared!SharedNext

\* Every step of the broker is a step of the shared session, or none.
LEMMA StepRefines ==
  BrokerInv /\ [BrokerNext]_brokerVars => [Shared!SharedNext]_(Shared!sharedVars)
<1> SUFFICES ASSUME BrokerInv, [BrokerNext]_brokerVars
             PROVE  [Shared!SharedNext]_(Shared!sharedVars)
  OBVIOUS
<1> USE DEF attachVars, workVars, hostVars
<1>1. ASSUME NEW c \in Clients, Connect(c) PROVE UNCHANGED Shared!sharedVars
  BY <1>1 DEF Connect, Shared!sharedVars
<1>2. ASSUME NEW c \in Clients, Disconnect(c) PROVE Shared!SharedNext
  <2>1. leases' = [s \in Sessions |->
                     IF s \in Sessions \intersect attachments[c] /\ leases[s] = c
                     THEN None ELSE leases[s]]
    BY <1>2, NoneAssumption
    DEF Disconnect, BrokerInv, BrokerTypeOK, HolderAttached, AttachmentsAgree
  <2>2. DropAttachments(c, Sessions) /\ seq' = seq
    BY <1>2 DEF Disconnect
  <2>3. QED
    BY <2>1, <2>2, DropIsLeave
<1>3. ASSUME NEW c \in Clients, NEW s \in Sessions, AttachStep(c, s)
      PROVE  Shared!SharedNext
  <2>1. ASSUME NEW from \in -1..MaxSeq, AttachRead(c, s, from) PROVE Shared!SharedNext
    <3>1. Shared!Join(c, s, from) /\ from \in -1..(seq[s] - 1)
      BY <2>1 DEF AttachRead, AttachReady, TrackAttachment, Replay, Shared!Join, Shared!Suffix
    <3>2. QED
      BY <3>1 DEF Shared!SharedNext
  <2>2. ASSUME NEW from \in -1..MaxSeq, NEW force \in BOOLEAN, AttachWrite(c, s, from, force)
        PROVE  Shared!SharedNext
    <3>1. Shared!Take(c, s, from) /\ from \in -1..(seq[s] - 1)
      BY <2>2 DEF AttachWrite, AttachReady, TrackAttachment, Replay, Shared!Take, Shared!Suffix
    <3>2. QED
      BY <3>1 DEF Shared!SharedNext
  <2>3. ASSUME NEW from \in -1..MaxSeq, AttachWriteAgain(c, s, from) PROVE Shared!SharedNext
    <3>1. Shared!Join(c, s, from) /\ from \in -1..(seq[s] - 1)
      BY <2>3 DEF AttachWriteAgain, AttachReady, TrackAttachment, Replay, Shared!Join, Shared!Suffix
    <3>2. QED
      BY <3>1 DEF Shared!SharedNext
  <2>4. QED
    BY <1>3, <2>1, <2>2, <2>3 DEF AttachStep
<1>4. ASSUME NEW c \in Clients, NEW s \in Sessions, RequestStep(c, s)
      PROVE  [Shared!SharedNext]_(Shared!sharedVars)
  <2>1. CASE AttachLocked(c, s)
    <3>1. leases' = [t \in Sessions |->
                       IF t \in {s} \intersect attachments[c] /\ leases[t] = c
                       THEN None ELSE leases[t]]
      BY <2>1 DEF AttachLocked, BrokerInv, BrokerTypeOK
    <3>2. DropAttachments(c, {s}) /\ seq' = seq
      BY <2>1 DEF AttachLocked
    <3>3. QED
      BY <3>1, <3>2, DropIsLeave
  <2>2. CASE Detach(c, s)
    <3>1. leases' = [t \in Sessions |->
                       IF t \in {s} \intersect attachments[c] /\ leases[t] = c
                       THEN None ELSE leases[t]]
      BY <2>2, NoneAssumption
      DEF Detach, BrokerInv, BrokerTypeOK, HolderAttached, AttachmentsAgree
    <3>2. DropAttachments(c, {s}) /\ seq' = seq
      BY <2>2 DEF Detach
    <3>3. QED
      BY <3>1, <3>2, DropIsLeave
  <2>3. CASE ControlRelease(c, s)
    <3>1. Shared!Yield(s)
      BY <2>3 DEF ControlRelease, Shared!Yield
    <3>2. QED
      BY <3>1 DEF Shared!SharedNext
  <2>4. CASE \E child \in Sessions, keep \in 0..MaxSeq : Fork(c, s, child, keep)
    <3>1. PICK child \in Sessions, keep \in 0..MaxSeq : Fork(c, s, child, keep)
      BY <2>4
    <3>2. Shared!Open(child, keep) /\ keep \in 0..seq[s]
      BY <3>1 DEF Fork, Shared!Open, BrokerInv, AbsentUnjoined
    <3>3. QED
      BY <3>2 DEF Shared!SharedNext
  <2>5. CASE PromptText(c, s) \/ PromptImages(c, s) \/ Cancel(c, s) \/ Create(c, s) \/ Compact(c, s)
    BY <2>5 DEF PromptText, PromptImages, Cancel, Create, Compact, Shared!sharedVars
  <2>6. QED
    BY <1>4, <2>1, <2>2, <2>3, <2>4, <2>5 DEF RequestStep
<1>5. ASSUME NEW s \in Sessions, HostStep(s)
      PROVE  [Shared!SharedNext]_(Shared!sharedVars)
  <2>1. CASE SessionEvent(s)
    <3>1. ASSUME NEW x \in Clients
          PROVE  feed'[x] = [feed[x] EXCEPT ![s] =
                               IF x \in attached[s] THEN Append(@, seq[s]) ELSE @]
      <4>1. /\ x \notin attached[s] => feed'[x][s] = feed[x][s]
            /\ x \in attached[s] => feed'[x][s] = feed[x][s] \o [i \in 1..1 |-> seq[s]]
            /\ \A t \in Sessions \ {s} : feed'[x][t] = feed[x][t]
        BY <2>1, EventReachesAttached
      <4>2. feed[x][s] \o [i \in 1..1 |-> seq[s]] = Append(feed[x][s], seq[s])
        BY DEF BrokerInv, BrokerTypeOK
      <4>3. feed[x] \in [Sessions -> Seq(0..MaxSeq)]
        BY DEF BrokerInv, BrokerTypeOK
      <4>4. feed'[x] = [feed[x] EXCEPT ![s] = feed'[x][s]]
        BY <2>1, <4>3 DEF SessionEvent
      <4>5. QED
        BY <4>1, <4>2, <4>3, <4>4
    <3>2. feed' = [x \in Clients |-> feed'[x]]
      BY <2>1 DEF SessionEvent
    <3>3. Shared!Publish(s)
      BY <2>1, <3>1, <3>2 DEF SessionEvent, Shared!Publish
    <3>4. QED
      BY <3>3 DEF Shared!SharedNext
  <2>2. CASE ~SessionEvent(s)
    BY <1>5, <2>2 DEF HostStep, PromptSaved, PromptSaveFailed, CompactDone, AgentIdle,
                      SessionDisposed, Shared!sharedVars
  <2>3. QED
    BY <2>1, <2>2
<1>6. ASSUME NEW s \in Sessions, NEW on \in BOOLEAN, SetWaiting(s, on)
      PROVE  UNCHANGED Shared!sharedVars
  BY <1>6 DEF SetWaiting, Shared!sharedVars
<1>7. CASE UNCHANGED brokerVars
  BY <1>7 DEF brokerVars, Shared!sharedVars
<1>8. QED
  BY <1>1, <1>2, <1>3, <1>4, <1>5, <1>6, <1>7 DEF BrokerNext

\* The broker implements the shared session of SharedSession.tla, for every set
\* of clients and sessions.
THEOREM BrokerRefinesSharedSession == BrokerSpec => ImplementsSharedSession
<1>1. BrokerInit => Shared!SharedInit
  BY DEF BrokerInit, Shared!SharedInit
<1>2. QED
  BY <1>1, StepRefines, BrokerInvariant, PTL
  DEF BrokerSpec, ImplementsSharedSession, Shared!SharedSpec

----------------------------------------------------------------------------
(* The bridges: the inductive invariant *)

\* The properties of the bridges, those of the broker they route by, and that
\* only sessions are flagged.
BridgeIInv ==
  /\ BridgeInv
  /\ BrokerInv
  /\ None \notin waiting

----------------------------------------------------------------------------
(* The bridges as seen by the broker *)

\* What the bridges do to the broker, the broker allows.
LEMMA BridgeIsBroker == TypeOK /\ [Next]_vars => [BrokerNext]_brokerVars
<1> SUFFICES ASSUME TypeOK, [Next]_vars PROVE [BrokerNext]_brokerVars
  OBVIOUS
<1>1. CASE BrokerOnly
  BY <1>1 DEF BrokerOnly, BrokerNext
<1>2. CASE \/ \E c \in Clients : BridgeDisconnect(c)
           \/ \E c \in Clients, s \in Sessions : BridgeAttach(c, s)
  BY <1>2 DEF BridgeDisconnect, BridgeAttach, BrokerNext
<1>3. ASSUME NEW r \in Requests, NEW s \in Sessions \union {None}, RequestRouted(r, s)
      PROVE  [BrokerNext]_brokerVars
  <2>1. CASE s # None /\ SetWaitingApproval(s, TRUE)
    <3>1. SetWaiting(s, TRUE) /\ s \in Sessions
      BY <1>3, <2>1 DEF RequestRouted, SetWaiting
    <3>2. QED
      BY <3>1 DEF BrokerNext
  <2>2. CASE UNCHANGED waiting
    BY <1>3, <2>2 DEF RequestRouted, brokerVars, attachVars, workVars, hostVars
  <2>3. QED
    BY <1>3, <2>1, <2>2 DEF RequestRouted
<1>4. ASSUME NEW r \in Requests, ApprovalFinally(r) PROVE [BrokerNext]_brokerVars
  <2>1. CASE about[r] # None /\ SetWaitingApproval(about[r], FALSE)
    <3>1. SetWaiting(about[r], FALSE) /\ about[r] \in Sessions
      BY <1>4, <2>1 DEF ApprovalFinally, SetWaiting, TypeOK
    <3>2. QED
      BY <3>1 DEF BrokerNext
  <2>2. CASE UNCHANGED waiting
    BY <1>4, <2>2 DEF ApprovalFinally, brokerVars, attachVars, workVars, hostVars
  <2>3. QED
    BY <1>4, <2>1, <2>2 DEF ApprovalFinally
<1>5. CASE \/ \E r \in Requests, s \in Sessions \union {None} : RequestRefused(r, s)
           \/ \E r \in Questions : QuestionAborted(r)
           \/ \E c \in Clients, r \in Requests, d \in {"approve", "deny", "answered"} :
                Answer(c, r, d)
           \/ Dispose
           \/ UNCHANGED vars
  BY <1>5 DEF RequestRefused, QuestionAborted, Answer, Dispose, vars
<1>6. QED
  BY <1>1, <1>2, <1>3, <1>4, <1>5 DEF Next

\* The broker's own steps connect clients and touch no flag.
LEMMA BrokerOnlyQuiet ==
  ASSUME BrokerTypeOK, BrokerOnly
  PROVE  UNCHANGED <<waiting, bridgeVars>> /\ \A c \in Clients : conn[c] = "live" => conn'[c] = "live"
<1>1. UNCHANGED bridgeVars
  BY DEF BrokerOnly
<1>2. CASE \E c \in Clients : Connect(c)
  BY <1>1, <1>2 DEF Connect, BrokerTypeOK, workVars
<1>4. CASE \E c \in Clients, s \in Sessions : RequestStep(c, s)
  BY <1>1, <1>4 DEF RequestStep, AttachLocked, Detach, ControlRelease, PromptText, PromptImages,
                    Cancel, Fork, Create, Compact, workVars, brokerVars
<1>5. CASE \E s \in Sessions : HostStep(s)
  BY <1>1, <1>5 DEF HostStep, PromptSaved, PromptSaveFailed, CompactDone, SessionEvent, AgentIdle,
                    SessionDisposed, workVars
<1>6. QED
  BY <1>2, <1>4, <1>5 DEF BrokerOnly

\* A request is routed to connected clients.
LEMMA RouteLive ==
  ASSUME BrokerInv, NEW s \in Sessions \union {None}
  PROVE  Route(s) \subseteq {c \in Clients : conn[c] = "live"}
BY DEF BrokerInv, BrokerTypeOK, Route, WriterOf, AttachedTo

----------------------------------------------------------------------------
(* The bridges: every action keeps the invariant *)

\* What is left to show once the broker's invariant is known to be kept.
BridgeRest ==
  /\ phase \in [Requests -> {"new", "pending", "settled", "done"}]
  /\ about \in [Requests -> Sessions \union {None}]
  /\ targets \in [Requests -> SUBSET Clients]
  /\ outcome \in [Requests -> Outcomes]
  /\ winner \in [Requests -> Holder]
  /\ prompts \in [Clients -> SUBSET Requests]
  /\ serving \in BOOLEAN
  /\ replayed \in [Clients -> SUBSET Requests]
  /\ unflagged \in SUBSET Approvals
  /\ PendingHasTarget
  /\ PromptsReachTargets
  /\ FlagTrue
  /\ None \notin waiting

\* The invariant is the broker's and the bridges' own.
LEMMA BridgeSplit == BridgeIInv <=> BrokerInv /\ BridgeRest
BY DEF BridgeIInv, BridgeInv, BridgeRest, TypeOK, BrokerInv

\* No request is made and nobody is connected.
LEMMA InitBridge == Init => BridgeIInv
<1> SUFFICES ASSUME Init PROVE BridgeIInv
  OBVIOUS
<1>1. BrokerInv
  BY InitInv DEF Init
<1>2. PendingHasTarget /\ PromptsReachTargets /\ FlagTrue
  <2>1. PendingHasTarget /\ PromptsReachTargets
    BY DEF Init, PendingHasTarget, PromptsReachTargets
  <2>2. FlagTrue
    BY DEF Init, BrokerInit, FlagTrue, Requests
  <2>3. QED
    BY <2>1, <2>2
<1>4. BridgeRest
  BY <1>2 DEF Init, BrokerInit, BridgeRest, Outcomes, Holder
<1>3. QED
  BY <1>1, <1>4, BridgeSplit

\* A prompt goes to exactly the clients that may answer, and the flag of the
\* session comes with its approval.
LEMMA RoutedKeeps ==
  ASSUME BrokerInv, BridgeRest, NEW r \in Requests, NEW s \in Sessions \union {None},
         RequestRouted(r, s)
  PROVE  BridgeRest'
<1> USE DEF BridgeRest
<1>1. Route(s) \subseteq {c \in Clients : conn[c] = "live"} /\ Route(s) # {} /\ phase[r] = "new"
  BY RouteLive DEF RequestRouted
<1>2. /\ UNCHANGED <<conn, outcome, winner, serving, replayed>>
      /\ phase' = [phase EXCEPT ![r] = "pending"]
      /\ about' = [about EXCEPT ![r] = s]
      /\ targets' = [targets EXCEPT ![r] = Route(s)]
      /\ prompts' = [c \in Clients |-> IF c \in Route(s) THEN prompts[c] \union {r} ELSE prompts[c]]
  BY DEF RequestRouted
<1>3. \/ waiting' = waiting /\ unflagged' = unflagged /\ ~(r \in Approvals /\ s # None)
      \/ /\ waiting' = waiting \union {s} /\ r \in Approvals /\ s # None
         /\ unflagged' = {a \in unflagged : about[a] # s}
  BY DEF RequestRouted, SetWaitingApproval
<1>4. /\ phase' \in [Requests -> {"new", "pending", "settled", "done"}]
      /\ about' \in [Requests -> Sessions \union {None}]
      /\ targets' \in [Requests -> SUBSET Clients]
  BY <1>1, <1>2
<1>5. prompts' \in [Clients -> SUBSET Requests]
  BY <1>2
<1>6. PendingHasTarget'
  BY <1>1, <1>2 DEF PendingHasTarget
<1>7. PromptsReachTargets'
  <2>1. \A q \in Requests : q # r => phase'[q] = phase[q] /\ targets'[q] = targets[q] /\ about'[q] = about[q]
    BY <1>2
  <2>2. phase'[r] = "pending" /\ targets'[r] = Route(s) /\ about'[r] = s
    BY <1>2
  <2>3. \A c \in Clients : /\ prompts[c] \subseteq prompts'[c]
                           /\ prompts'[c] \subseteq prompts[c] \union {r}
                           /\ r \in prompts'[c] /\ r \notin prompts[c] => c \in Route(s)
                           /\ c \in Route(s) => r \in prompts'[c]
    BY <1>2
  <2>4. \A c \in Clients : r \notin replayed[c] /\ r \notin prompts[c]
    BY <1>1 DEF PromptsReachTargets, PendingHasTarget
  <2>5. QED
    BY <1>1, <1>2, <2>1, <2>2, <2>3, <2>4 DEF PromptsReachTargets
<1>8. FlagTrue' /\ unflagged' \subseteq Approvals
  <2>1. ASSUME NEW t \in waiting'
        PROVE  \E q \in Approvals : about'[q] = t /\ phase'[q] \in {"pending", "settled"}
    <3>1. CASE t \in waiting
      <4>1. PICK q \in Approvals : about[q] = t /\ phase[q] \in {"pending", "settled"}
        BY <3>1 DEF FlagTrue
      <4>2. q # r /\ q \in Requests
        BY <1>1, <4>1 DEF Requests
      <4>3. QED
        BY <1>2, <4>1, <4>2
    <3>2. CASE t = s /\ r \in Approvals
      BY <1>2, <3>2
    <3>3. QED
      BY <1>3, <2>1, <3>1, <3>2
  <2>2. ASSUME NEW q \in Approvals, phase'[q] \in {"pending", "settled"}, about'[q] # None
        PROVE  about'[q] \in waiting' \/ q \in unflagged'
    <3>1. CASE q = r
      BY <1>2, <1>3, <2>2, <3>1
    <3>2. CASE q # r
      <4>1. q \in Requests /\ phase'[q] = phase[q] /\ about'[q] = about[q]
        BY <1>2, <3>2 DEF Requests
      <4>2. about[q] \in waiting \/ q \in unflagged
        BY <2>2, <4>1 DEF FlagTrue
      <4>3. QED
        BY <1>3, <4>1, <4>2
    <3>3. QED
      BY <3>1, <3>2
  <2>3. QED
    BY <1>3, <2>1, <2>2 DEF FlagTrue
<1>9. QED
  BY <1>2, <1>3, <1>4, <1>5, <1>6, <1>7, <1>8

\* A refused request was never pending.
LEMMA RefusedKeeps ==
  ASSUME BrokerInv, BridgeRest, NEW r \in Requests, NEW s \in Sessions \union {None},
         RequestRefused(r, s)
  PROVE  BridgeRest'
<1> USE DEF BridgeRest, RequestRefused
<1>1. UNCHANGED <<conn, waiting, replayed, unflagged>>
  BY DEF brokerVars, workVars, history
<1>2. /\ phase' \in [Requests -> {"new", "pending", "settled", "done"}]
      /\ about' \in [Requests -> Sessions \union {None}]
      /\ outcome' \in [Requests -> Outcomes]
  BY DEF Outcomes
<1>3. \A q \in Requests : q # r => phase'[q] = phase[q] /\ about'[q] = about[q]
  OBVIOUS
<1>4. PendingHasTarget' /\ PromptsReachTargets'
  <2>1. phase[r] = "new" /\ phase'[r] = "done"
    OBVIOUS
  <2>2. QED
    BY <1>1, <1>3, <2>1 DEF PendingHasTarget, PromptsReachTargets
<1>5. FlagTrue'
  <2>1. phase[r] = "new" /\ phase'[r] = "done"
    OBVIOUS
  <2>2. QED
    BY <1>1, <1>3, <2>1 DEF FlagTrue, Requests
<1>6. QED
  BY <1>1, <1>2, <1>4, <1>5

\* Pending requests that settle are dismissed from every screen: all targets of
\* a pending request are connected.
LEMMA SettledKeeps ==
  ASSUME BrokerInv, BridgeRest,
         NEW which \in SUBSET {r \in Requests : phase[r] = "pending"},
         UNCHANGED <<brokerVars, about, targets, history>>,
         phase' = [r \in Requests |-> IF r \in which THEN Resting(r) ELSE phase[r]],
         outcome' \in [Requests -> Outcomes],
         winner' \in [Requests -> Holder],
         prompts' = Dismiss(prompts, which),
         serving' \in BOOLEAN
  PROVE  BridgeRest'
<1> USE DEF BridgeRest
<1>1. UNCHANGED <<conn, waiting>>
  BY DEF brokerVars, workVars
<1>2. phase' \in [Requests -> {"new", "pending", "settled", "done"}]
  BY DEF Resting
<1>3. prompts' \in [Clients -> SUBSET Requests]
  BY DEF Dismiss
<1>4. PendingHasTarget'
  BY <1>1 DEF PendingHasTarget, Resting
<1>5. PromptsReachTargets'
  <2>1. \A q \in Requests : /\ phase'[q] = "pending" <=> phase[q] = "pending" /\ q \notin which
                            /\ phase[q] # "new" => phase'[q] # "new"
    BY DEF Resting
  <2>2. \A q \in Requests, c \in Clients :
           q \in prompts'[c] <=> q \in prompts[c] /\ ~(q \in which /\ conn[c] = "live" /\ c \in targets[q])
    BY DEF Dismiss
  <2>3. \A q \in Requests : phase[q] = "pending" => \A c \in targets[q] : c \in Clients /\ conn[c] = "live"
    BY DEF PendingHasTarget
  <2>4. UNCHANGED <<targets, about, replayed>>
    BY DEF history
  <2>5. ASSUME NEW q \in Requests, phase'[q] = "pending", NEW c \in targets[q] PROVE q \in prompts'[c]
    BY <2>1, <2>2, <2>3, <2>5 DEF PromptsReachTargets
  <2>6. ASSUME NEW c \in Clients, NEW q \in prompts'[c]
        PROVE  (phase'[q] = "pending" /\ c \in targets[q]) \/ q \in replayed[c]
    <3>1. q \in Requests /\ q \in prompts[c]
      BY <1>3, <2>2
    <3>2. (phase[q] = "pending" /\ c \in targets[q]) \/ q \in replayed[c]
      BY <3>1 DEF PromptsReachTargets
    <3>3. QED
      BY <2>1, <2>2, <2>3, <3>1, <3>2
  <2>7. ASSUME NEW c \in Clients, NEW q \in replayed[c]
        PROVE  c \notin targets[q] /\ about[q] # None /\ phase'[q] # "new"
    BY <2>1 DEF PromptsReachTargets
  <2>8. QED
    BY <2>4, <2>5, <2>6, <2>7 DEF PromptsReachTargets
<1>6. FlagTrue'
  <2>1. \A q \in Approvals : phase'[q] \in {"pending", "settled"} <=> phase[q] \in {"pending", "settled"}
    <3> SUFFICES ASSUME NEW q \in Approvals
                 PROVE  phase'[q] \in {"pending", "settled"} <=> phase[q] \in {"pending", "settled"}
      OBVIOUS
    <3>1. q \in Requests /\ phase'[q] = IF q \in which THEN "settled" ELSE phase[q]
      BY DEF Resting, Requests
    <3>2. q \in which => phase[q] = "pending"
      OBVIOUS
    <3>3. QED
      BY <3>1, <3>2
  <2>2. UNCHANGED <<waiting, about, unflagged>>
    BY <1>1 DEF history
  <2>3. FlagTrue
    OBVIOUS
  <2> HIDE DEF BridgeRest
  <2>4. QED
    BY ONLY <2>1, <2>2, <2>3 DEF FlagTrue
<1>7. QED
  BY <1>1, <1>2, <1>3, <1>4, <1>5, <1>6 DEF history

\* An answer, an aborted question and the unload of the plugin settle requests.
LEMMA VerdictKeeps ==
  ASSUME BrokerInv, BridgeRest,
         \/ \E r \in Questions : QuestionAborted(r)
         \/ \E c \in Clients, r \in Requests, d \in {"approve", "deny", "answered"} : Answer(c, r, d)
         \/ Dispose
  PROVE  BridgeRest'
<1> USE DEF BridgeRest
<1>1. ASSUME NEW r \in Questions, QuestionAborted(r) PROVE BridgeRest'
  <2>1. r \in Requests /\ Resting(r) = "done" /\ phase[r] = "pending"
    BY <1>1, DisjointAssumption DEF QuestionAborted, Requests, Resting
  <2>2. phase' = [q \in Requests |-> IF q \in {r} THEN Resting(q) ELSE phase[q]]
    BY <1>1, <2>1 DEF QuestionAborted
  <2>3. outcome' \in [Requests -> Outcomes]
    BY <1>1 DEF QuestionAborted, Outcomes
  <2>4. {r} \in SUBSET {q \in Requests : phase[q] = "pending"}
    BY <2>1
  <2>5. UNCHANGED <<brokerVars, about, targets, winner, serving, history>> /\ prompts' = Dismiss(prompts, {r})
    BY <1>1 DEF QuestionAborted
  <2>6. QED
    BY <2>2, <2>3, <2>4, <2>5, SettledKeeps
<1>2. ASSUME NEW c \in Clients, NEW r \in Requests, NEW d \in {"approve", "deny", "answered"},
             Answer(c, r, d)
      PROVE  BridgeRest'
  <2>1. phase' = [q \in Requests |-> IF q \in {r} THEN Resting(q) ELSE phase[q]]
    BY <1>2 DEF Answer
  <2>2. outcome' \in [Requests -> Outcomes] /\ winner' \in [Requests -> Holder]
    BY <1>2 DEF Answer, Outcomes, Holder
  <2>3. {r} \in SUBSET {q \in Requests : phase[q] = "pending"}
    BY <1>2 DEF Answer
  <2>4. UNCHANGED <<brokerVars, about, targets, serving, history>> /\ prompts' = Dismiss(prompts, {r})
    BY <1>2 DEF Answer
  <2>5. QED
    BY <2>1, <2>2, <2>3, <2>4, SettledKeeps
<1>3. CASE Dispose
  <2> DEFINE open == {r \in Questions : phase[r] = "pending"}
  <2>1. phase' = [q \in Requests |-> IF q \in open THEN Resting(q) ELSE phase[q]]
    BY <1>3, DisjointAssumption DEF Dispose, Resting
  <2>2. outcome' \in [Requests -> Outcomes]
    BY <1>3 DEF Dispose, Outcomes
  <2>3. open \in SUBSET {q \in Requests : phase[q] = "pending"}
    BY DEF Requests
  <2>4. UNCHANGED <<brokerVars, about, targets, winner, history>> /\ prompts' = Dismiss(prompts, open)
        /\ serving' \in BOOLEAN
    BY <1>3 DEF Dispose
  <2> HIDE DEF open
  <2>5. QED
    BY <2>1, <2>2, <2>3, <2>4, SettledKeeps
<1>4. QED
  BY <1>1, <1>2, <1>3

\* The `finally` of an approval clears the flag of its session, and of no other.
LEMMA FinallyKeeps ==
  ASSUME BrokerInv, BridgeRest, NEW r \in Requests, ApprovalFinally(r)
  PROVE  BridgeRest'
<1> USE DEF BridgeRest, ApprovalFinally
<1>1. /\ UNCHANGED <<conn, about, targets, outcome, winner, prompts, serving, replayed>>
      /\ phase[r] = "settled" /\ phase' = [phase EXCEPT ![r] = "done"]
      /\ waiting' = waiting \ {about[r]}
      /\ unflagged' = unflagged \union SharesFlag(r)
  BY DEF SetWaitingApproval
<1>2. PendingHasTarget' /\ PromptsReachTargets'
  BY <1>1 DEF PendingHasTarget, PromptsReachTargets
<1>3. FlagTrue'
  <2>1. \A s \in waiting' : \E q \in Approvals : about'[q] = s /\ phase'[q] \in {"pending", "settled"}
    BY <1>1 DEF FlagTrue, Requests
  <2>2. ASSUME NEW q \in Approvals, phase'[q] \in {"pending", "settled"}, about[q] # None
        PROVE  about[q] \in waiting' \/ q \in unflagged'
    <3>1. q # r /\ phase[q] \in {"pending", "settled"} /\ q \in Requests
      BY <1>1, <2>2 DEF Requests
    <3>2. about[q] \in waiting \/ q \in unflagged
      BY <2>2, <3>1 DEF FlagTrue
    <3>3. about[q] = about[r] => q \in SharesFlag(r)
      BY <2>2, <3>1 DEF SharesFlag
    <3>4. QED
      BY <1>1, <3>2, <3>3
  <2>3. QED
    BY <1>1, <2>1, <2>2 DEF FlagTrue
<1>4. unflagged' \subseteq Approvals
  BY <1>1 DEF SharesFlag
<1>5. QED
  BY <1>1, <1>2, <1>3, <1>4

\* An attach shows its client every pending request of the session: one it is
\* a target of it has on its screen already, any other one is a replay.
LEMMA AttachKeeps ==
  ASSUME BrokerInv, BridgeRest, NEW c \in Clients, NEW s \in Sessions, BridgeAttach(c, s)
  PROVE  BridgeRest'
<1> USE DEF BridgeRest
<1>1. UNCHANGED <<conn, waiting>>
  BY DEF BridgeAttach, AttachStep, AttachRead, AttachWrite, AttachWriteAgain, workVars
<1>2. UNCHANGED <<phase, about, targets, outcome, winner, serving, unflagged>>
  BY DEF BridgeAttach, requestVars
<1>3. /\ prompts' = [prompts EXCEPT ![c] = @ \union PendingForSession(s)]
      /\ replayed' = [replayed EXCEPT ![c] =
                        @ \union {r \in PendingForSession(s) : c \notin targets[r]}]
      /\ PendingForSession(s) \subseteq Requests
  BY DEF BridgeAttach, PendingForSession
<1>4. prompts' \in [Clients -> SUBSET Requests] /\ replayed' \in [Clients -> SUBSET Requests]
  BY <1>3
<1>5. PendingHasTarget' /\ FlagTrue'
  BY <1>1, <1>2 DEF PendingHasTarget, FlagTrue
<1>6. PromptsReachTargets'
  <2>1. \A x \in Clients :
          /\ prompts[x] \subseteq prompts'[x]
          /\ replayed[x] \subseteq replayed'[x]
          /\ \A r \in prompts'[x] : r \in prompts[x] \/ (x = c /\ r \in PendingForSession(s))
          /\ \A r \in replayed'[x] : r \in replayed[x]
                                     \/ (x = c /\ r \in PendingForSession(s) /\ c \notin targets[r])
          /\ \A r \in PendingForSession(s) : x = c /\ c \notin targets[r] => r \in replayed'[x]
    BY <1>3
  <2>2. \A r \in PendingForSession(s) : phase[r] = "pending" /\ about[r] # None
    BY NoSessionAssumption DEF PendingForSession
  <2>3. QED
    BY <1>2, <2>1, <2>2 DEF PromptsReachTargets
<1>7. QED
  BY <1>1, <1>2, <1>4, <1>5, <1>6

\* The end of a connection takes it off the targets of every pending request
\* and settles those that have nobody left.
LEMMA BridgeDisconnectKeeps ==
  ASSUME BrokerInv, BridgeRest, NEW c \in Clients, BridgeDisconnect(c)
  PROVE  BridgeRest'
<1> USE DEF BridgeRest
<1> DEFINE hit  == {r \in Requests : phase[r] = "pending" /\ c \in targets[r]}
           last == {r \in hit : targets[r] = {c}}
<1>1. /\ conn' = [conn EXCEPT ![c] = "gone"] /\ waiting' = waiting
      /\ conn \in [Clients -> {"new", "live", "gone"}]
  BY DEF BridgeDisconnect, Disconnect, workVars, BrokerInv, BrokerTypeOK
<1>2. /\ targets' = [r \in Requests |-> IF r \in hit THEN targets[r] \ {c} ELSE targets[r]]
      /\ phase' = [r \in Requests |-> IF r \in last THEN Resting(r) ELSE phase[r]]
      /\ outcome' = [r \in Requests |->
                       IF r \notin last THEN outcome[r]
                       ELSE IF r \in Approvals THEN "deny" ELSE "unavailable"]
      /\ prompts' = [prompts EXCEPT ![c] = {}]
      /\ UNCHANGED <<about, winner, serving, replayed, unflagged>>
  BY DEF BridgeDisconnect, history
<1>3. \A r \in Requests : /\ phase'[r] = "pending" <=> phase[r] = "pending" /\ r \notin last
                          /\ phase'[r] = "pending" => targets'[r] = targets[r] \ {c}
  BY <1>2 DEF Resting
<1>4. /\ phase' \in [Requests -> {"new", "pending", "settled", "done"}]
      /\ targets' \in [Requests -> SUBSET Clients]
  BY <1>2 DEF Resting
<1>5. outcome' \in [Requests -> Outcomes]
  BY <1>2 DEF Outcomes
<1>6. PendingHasTarget'
  <2> SUFFICES ASSUME NEW r \in Requests, phase'[r] = "pending"
               PROVE  targets'[r] # {} /\ \A x \in targets'[r] : conn'[x] = "live"
    BY DEF PendingHasTarget
  <2>1. /\ phase[r] = "pending" /\ r \notin last /\ targets'[r] = targets[r] \ {c}
        /\ targets[r] # {} /\ \A x \in targets[r] : x \in Clients /\ conn[x] = "live"
    BY <1>3 DEF PendingHasTarget
  <2>2. targets[r] # {c}
    BY <2>1
  <2>3. QED
    BY <1>1, <2>1, <2>2
<1>7. PromptsReachTargets'
  <2>1. \A r \in Requests : targets'[r] \subseteq targets[r] /\ (phase[r] # "new" => phase'[r] # "new")
    BY <1>2 DEF Resting
  <2>2. \A x \in Clients : prompts'[x] = IF x = c THEN {} ELSE prompts[x]
    BY <1>2
  <2>3. ASSUME NEW q \in Requests, phase'[q] = "pending", NEW x \in targets'[q] PROVE q \in prompts'[x]
    <3>1. phase[q] = "pending" /\ x \in targets[q] /\ x # c /\ x \in Clients
      BY <1>3, <2>3
    <3>2. QED
      BY <2>2, <3>1 DEF PromptsReachTargets
  <2>4. ASSUME NEW x \in Clients, NEW q \in prompts'[x]
        PROVE  (phase'[q] = "pending" /\ x \in targets'[q]) \/ q \in replayed[x]
    <3>1. x # c /\ q \in prompts[x] /\ q \in Requests
      BY <2>2
    <3>2. CASE q \in replayed[x]
      BY <3>2
    <3>3. CASE phase[q] = "pending" /\ x \in targets[q]
      <4>1. q \notin last
        BY <3>1, <3>3
      <4>2. QED
        BY <1>3, <3>1, <3>3, <4>1
    <3>4. QED
      BY <3>1, <3>2, <3>3 DEF PromptsReachTargets
  <2>5. ASSUME NEW x \in Clients, NEW q \in replayed[x]
        PROVE  x \notin targets'[q] /\ about[q] # None /\ phase'[q] # "new"
    BY <2>1 DEF PromptsReachTargets
  <2>6. QED
    BY <1>2, <2>3, <2>4, <2>5 DEF PromptsReachTargets
<1>8. waiting' = waiting /\ about' = about /\ unflagged' = unflagged
  BY <1>1, <1>2
<1>9. FlagTrue'
  <2>1. \A q \in Approvals : phase'[q] \in {"pending", "settled"} <=> phase[q] \in {"pending", "settled"}
    BY <1>2 DEF Resting, Requests
  <2>2. QED
    BY <1>8, <2>1 DEF FlagTrue
<1>10. QED
  BY <1>1, <1>2, <1>4, <1>5, <1>6, <1>7, <1>9

\* A step that touches neither the requests nor the flags, and disconnects
\* nobody.
LEMMA BridgeQuiet ==
  ASSUME BrokerInv, BridgeRest, UNCHANGED <<waiting, bridgeVars>>,
         \A c \in Clients : conn[c] = "live" => conn'[c] = "live"
  PROVE  BridgeRest'
<1> USE DEF BridgeRest, bridgeVars, requestVars, history
<1>1. PendingHasTarget'
  BY DEF PendingHasTarget
<1>2. PromptsReachTargets' /\ FlagTrue'
  BY DEF PromptsReachTargets, FlagTrue
<1>3. QED
  BY <1>1, <1>2

\* Every step keeps the invariant.
LEMMA StepBridge == BridgeIInv /\ [Next]_vars => BridgeIInv'
<1> SUFFICES ASSUME BridgeIInv, [Next]_vars PROVE BridgeIInv'
  OBVIOUS
<1>1. BrokerInv /\ BridgeRest /\ TypeOK
  BY BridgeSplit DEF BridgeIInv, BridgeInv
<1>2. BrokerInv'
  BY <1>1, BridgeIsBroker, NextInv
<1>3. BridgeRest'
  <2>1. CASE BrokerOnly
    BY <1>1, <2>1, BrokerOnlyQuiet, BridgeQuiet DEF BrokerInv
  <2>2. CASE \E c \in Clients : BridgeDisconnect(c)
    BY <1>1, <2>2, BridgeDisconnectKeeps
  <2>8. CASE \E c \in Clients, s \in Sessions : BridgeAttach(c, s)
    BY <1>1, <2>8, AttachKeeps
  <2>3. CASE \E r \in Requests, s \in Sessions \union {None} :
               RequestRefused(r, s) \/ RequestRouted(r, s)
    BY <1>1, <2>3, RefusedKeeps, RoutedKeeps
  <2>4. CASE \E r \in Requests : ApprovalFinally(r)
    BY <1>1, <2>4, FinallyKeeps
  <2>5. CASE \/ \E r \in Questions : QuestionAborted(r)
             \/ \E c \in Clients, r \in Requests, d \in {"approve", "deny", "answered"} :
                  Answer(c, r, d)
             \/ Dispose
    BY <1>1, <2>5, VerdictKeeps
  <2>6. CASE UNCHANGED vars
    BY <1>1, <2>6, BridgeQuiet DEF vars, brokerVars, workVars
  <2>7. QED
    BY <2>1, <2>2, <2>3, <2>4, <2>5, <2>6, <2>8 DEF Next
<1>4. BridgeIInv' <=> BrokerInv' /\ BridgeRest'
  BY BridgeSplit, PTL
<1>5. QED
  BY <1>2, <1>3, <1>4

----------------------------------------------------------------------------
(* The bridges: the theorems *)

\* The invariant holds in every reachable state of the backend.
THEOREM BridgeInvariant == Spec => []BridgeIInv
<1>1. QED
  BY InitBridge, StepBridge, PTL DEF Spec

\* No request waits on nobody; every client that may answer has the prompt and is
\* told of its end, a settled one stays only on the screen of a late attacher; the
\* flag follows the approvals unless another one cleared it (approval.ts,
\* question.ts, serve.ts 277-282).
THEOREM BridgeSafe == Spec => []BridgeInv
<1>1. BridgeIInv => BridgeInv
  BY DEF BridgeIInv
<1>2. QED
  BY <1>1, BridgeInvariant, PTL

\* With the bridges on top, the broker still does only what it does alone: all
\* that is proved of it holds of the whole backend (serve.ts wires them).
THEOREM BridgeImplementsBroker == Spec => BrokerSpec
<1>1. BridgeIInv => TypeOK
  BY DEF BridgeIInv, BridgeInv
<1>2. Init => BrokerInit
  BY DEF Init
<1>3. QED
  BY <1>1, <1>2, BridgeInvariant, BridgeIsBroker, PTL DEF Spec, BrokerSpec

\* What a step may do to verdicts.
VerdictStep ==
  \A r \in Requests :
    /\ phase[r] \in {"settled", "done"} =>
         outcome'[r] = outcome[r] /\ winner'[r] = winner[r]
    /\ outcome'[r] = "approve" /\ outcome[r] # "approve" =>
         /\ winner'[r] \in targets[r]
         /\ conn[winner'[r]] = "live"
         /\ r \in prompts[winner'[r]]

\* An answer is taken from a connected client that has the prompt, of a pending
\* request only; nothing else approves.
LEMMA VerdictOnce == ASSUME BridgeIInv, Next PROVE VerdictStep
<1>1. BridgeRest
  BY BridgeSplit
<1>2. CASE UNCHANGED <<outcome, winner>>
  BY <1>2 DEF VerdictStep
<1>3. CASE BrokerOnly \/ \E r \in Requests : ApprovalFinally(r)
  BY <1>2, <1>3 DEF BrokerOnly, ApprovalFinally, bridgeVars, requestVars
<1>4. CASE \E c \in Clients : BridgeDisconnect(c)
  BY <1>1, <1>4 DEF BridgeRest, BridgeDisconnect, VerdictStep
<1>10. CASE \E c \in Clients, s \in Sessions : BridgeAttach(c, s)
  BY <1>2, <1>10 DEF BridgeAttach, requestVars
<1>5. CASE \E r \in Requests, s \in Sessions \union {None} :
             RequestRefused(r, s) \/ RequestRouted(r, s)
  BY <1>1, <1>5, ZenonT(60) DEF BridgeRest, RequestRefused, RequestRouted, VerdictStep
<1>6. CASE \E r \in Questions : QuestionAborted(r)
  BY <1>1, <1>6 DEF BridgeRest, QuestionAborted, VerdictStep
<1>7. CASE Dispose
  BY <1>1, <1>7 DEF BridgeRest, Dispose, VerdictStep
<1>8. ASSUME NEW c \in Clients, NEW r \in Requests, NEW d \in {"approve", "deny", "answered"},
             Answer(c, r, d)
      PROVE  VerdictStep
  <2>1. r \in prompts[c]
    BY <1>1, <1>8 DEF BridgeRest, Answer, PromptsReachTargets
  <2>2. QED
    BY <1>1, <1>8, <2>1 DEF BridgeRest, Answer, VerdictStep
<1>9. QED
  BY <1>3, <1>4, <1>5, <1>6, <1>7, <1>8, <1>10 DEF Next

\* The host gets one verdict per request, and an approval only from a connected
\* client that was among its targets and has the prompt on its screen.
THEOREM BridgeOneVerdict == Spec => OneVerdict
<1>1. BridgeIInv /\ [Next]_vars => [VerdictStep]_vars
  BY VerdictOnce
<1>2. QED
  BY <1>1, BridgeInvariant, PTL DEF Spec, OneVerdict, VerdictStep

=============================================================================
