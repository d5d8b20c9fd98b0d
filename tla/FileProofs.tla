---------------------------- MODULE FileProofs ----------------------------
(***************************************************************************)
(* Proofs about the two ways a remote file is written: the file system     *)
(* over SSH (SshFs) and bulk transfer over the mux (FileTransfer), for     *)
(* every number of calls, transfers, chunks, channels and texts.  The two  *)
(* parts share no state; they are one module as the theorems are about     *)
(* the same thing, a file that is replaced as a whole or not at all.       *)
(***************************************************************************)
EXTENDS SshFs, FileTransfer, FiniteSetTheorems, TLAPS

----------------------------------------------------------------------------
(* The inductive invariant *)

\* Where a call is says what it has left on the host and what it reported.
Phases ==
  \A o \in Ops :
    /\ pc[o] \in {"idle", "queued", "read", "stage"} =>
         script[o] = "none" /\ ~tmp[o] /\ mine[o] = None
    /\ pc[o] \in {"idle", "queued", "read", "stage", "publish", "after"} => verdict[o] = "none"
    /\ pc[o] = "unlink" => verdict[o] \in {"none", "guard"}
    /\ pc[o] = "unlink" /\ verdict[o] = "guard" => script[o] = "refused"
    /\ pc[o] \in {"publish", "after"} => mine[o] # None
    /\ pc[o] = "after" => script[o] = "done"
    /\ script[o] = "done" => ~tmp[o]

\* A staged text is not the file's, and is staged by one call only: a text that
\* has left the file never comes back.
StagedFresh ==
  \A o \in Ops : tmp[o] /\ mine[o] # None =>
    /\ mine[o] # file
    /\ \A p \in Ops : tmp[p] /\ mine[p] = mine[o] => p = o

\* What the script found when it checked is what it was told to expect.
CheckedExpected ==
  \A o \in Ops : script[o] = "move" =>
    /\ kind[o] = "create" => checked[o] = None
    /\ Versioned(o) => VersionOf(checked[o]) = attrs[o]

\* A guarded write went on only under the version of its guard.
GuardHeld ==
  \A o \in Ops : kind[o] = "replace" =>
    /\ base[o] # None
    /\ pc[o] \notin {"idle", "queued"} => attrs[o] = guard[o] /\ attrs[o] # None

\* The text whose version the stat of an edit found was in the file then: it is
\* the one the edit has read, or it has left the file for good.
BasisSeen ==
  \A o \in Ops : kind[o] = "edit" /\ pc[o] \notin {"idle", "queued"} =>
    \E a \in Texts :
      /\ stampOf[a] = attrs[o]
      /\ \A p \in Ops : tmp[p] => mine[p] # a
      /\ pc[o] # "read" => a = basis[o] \/ a # file

FsInv ==
  /\ TypeOK
  /\ Phases
  /\ OverMeansOver
  /\ VerdictHonest
  /\ StagedFresh
  /\ CheckedExpected
  /\ GuardHeld
  /\ BasisSeen

----------------------------------------------------------------------------
(* Texts and their stamps *)

\* There are no more stamps than texts.
LEMMA FewStamps ==
  ASSUME stampOf \in Seq(Text), Len(stampOf) < MaxText
  PROVE  Cardinality(Stamps) + 1 \in Text
<1>1. Len(stampOf) \in Nat /\ IsFiniteSet(Texts) /\ Cardinality(Texts) = Len(stampOf)
  BY FS_Interval DEF Texts
<1>2. stampOf \in Surjection(Texts, Stamps)
  BY DEF Surjection, Texts, Stamps
<1>3. IsFiniteSet(Stamps) /\ Cardinality(Stamps) <= Len(stampOf)
  BY <1>1, <1>2, FS_Surjection
<1>4. Cardinality(Stamps) \in Nat
  BY <1>3, FS_CardinalityType
<1>5. QED
  BY <1>1, <1>3, <1>4, FsAssumption DEF Text

\* Stamps and texts are numbers, and no marker.
LEMMA StampTypes ==
  ASSUME TypeOK
  PROVE  /\ None \notin Texts /\ None \notin Stamps
         /\ \A t \in Texts : stampOf[t] \in Stamps
         /\ \A t \in Texts \union {None} : VersionOf(t) \in Stamps \union {None}
         /\ \A t \in Texts : VersionOf(t) = stampOf[t]
<1>1. \A t \in Texts : stampOf[t] \in Text
  BY DEF TypeOK, Texts
<1>2. QED
  BY <1>1, FsAssumption DEF Texts, Stamps, Text, VersionOf

\* What a step that leaves the texts alone, or adds one, does to them.
Grows ==
  /\ stampOf' \in Seq(Text) /\ Len(stampOf') <= MaxText
  /\ Texts \subseteq Texts' /\ Stamps \subseteq Stamps'
  /\ \A t \in Texts : stampOf'[t] = stampOf[t]

\* A new text is the latest, and changes no stamp.
LEMMA NewTextGrows ==
  ASSUME TypeOK, NewText
  PROVE  Grows /\ Len(stampOf') \in Texts' /\ Len(stampOf') \notin Texts /\ Len(stampOf') # None
<1>1. stampOf \in Seq(Text) /\ Len(stampOf) \in Nat /\ Len(stampOf) < MaxText
  BY DEF TypeOK, NewText
<1>2. PICK s \in {VersionOf(file), Cardinality(Stamps) + 1} \ {None} : stampOf' = Append(stampOf, s)
  BY DEF NewText
<1>3. s \in Text
  <2>1. Stamps \subseteq Text
    BY DEF TypeOK, Stamps, Texts
  <2>2. VersionOf(file) \in Text \union {None}
    BY <2>1, StampTypes DEF TypeOK
  <2>3. QED
    BY <1>1, <1>2, <2>2, FewStamps
<1>4. /\ stampOf' \in Seq(Text) /\ Len(stampOf') = Len(stampOf) + 1
      /\ \A t \in 1..Len(stampOf) : stampOf'[t] = stampOf[t]
  BY <1>1, <1>2, <1>3
<1>5. Texts \subseteq Texts' /\ Len(stampOf') \in Texts' /\ Len(stampOf') \notin Texts
  BY <1>1, <1>4 DEF Texts
<1>6. Stamps \subseteq Stamps'
  BY <1>4, <1>5 DEF Texts, Stamps
<1>7. QED
  BY <1>1, <1>4, <1>5, <1>6, FsAssumption DEF Grows, Texts

\* A step that leaves the texts alone.
LEMMA SameTexts ==
  ASSUME TypeOK, UNCHANGED stampOf
  PROVE  Grows /\ Texts' = Texts /\ Stamps' = Stamps
BY DEF Grows, TypeOK, Texts, Stamps

\* While the texts only grow, versions of known texts stay.
LEMMA VersionsStay ==
  ASSUME TypeOK, Grows, NEW t \in Texts \union {None}
  PROVE  VersionOf(t)' = VersionOf(t)
BY StampTypes DEF Grows, VersionOf

----------------------------------------------------------------------------
(* Every action keeps the invariant *)

\* The types of the parts that a step of the host or of the caller may change,
\* when the calls stay as they are.
LEMMA TypesStay ==
  ASSUME TypeOK, Grows,
         file' \in Texts' \union {None}, peek' \in Stamps' \union {None},
         known' \in [ver : Stamps', text : Texts'] \union {None},
         UNCHANGED <<callVars, workVars, scriptVars, verdict>>,
         pc' \in [Ops -> {"idle", "queued", "read", "stage", "publish", "unlink", "after", "over"}],
         tmp' \in [Ops -> BOOLEAN], live' \in [Ops -> BOOLEAN]
  PROVE  TypeOK'
BY DEF TypeOK, Grows, callVars, workVars, scriptVars

\* What the caller knows stays well formed while the texts grow.
LEMMA KnownStays ==
  ASSUME TypeOK, Grows
  PROVE  /\ peek \in Stamps' \union {None}
         /\ known \in [ver : Stamps', text : Texts'] \union {None}
BY DEF TypeOK, Grows

\* The foreign text is new: it is neither staged nor one that was seen before.
LEMMA ForeignWriteKeeps == ASSUME FsInv, ForeignWrite PROVE FsInv'
<1> USE DEF FsInv, ForeignWrite
<1>1. Grows /\ file' \in Texts' /\ file' \notin Texts
  BY NewTextGrows
<1>2. TypeOK'
  BY <1>1, KnownStays, TypesStay DEF TypeOK, userVars
<1>3. Phases' /\ OverMeansOver' /\ VerdictHonest'
  BY DEF Phases, OverMeansOver, VerdictHonest, workVars, scriptVars
<1>4. StagedFresh'
  BY <1>1 DEF StagedFresh, TypeOK, workVars
<1>5. CheckedExpected'
  BY <1>1, VersionsStay DEF CheckedExpected, TypeOK, Versioned, callVars, workVars, scriptVars
<1>6. GuardHeld'
  BY DEF GuardHeld, callVars, workVars
<1>7. BasisSeen'
  BY <1>1 DEF BasisSeen, Grows, callVars, workVars
<1>8. QED
  BY <1>2, <1>3, <1>4, <1>5, <1>6, <1>7

\* Steps of the host and of the caller that leave the texts, the calls and the
\* scripts alone.
LEMMA QuietKeeps ==
  ASSUME FsInv, ForeignRemove \/ Drop \/ ReadStat \/ ReadContent
  PROVE  FsInv'
<1> USE DEF FsInv
<1>1. /\ UNCHANGED <<stampOf, pc, callVars, workVars, tmp, scriptVars, verdict>>
      /\ file' \in {file, None}
      /\ live' \in [Ops -> BOOLEAN] /\ \A o \in Ops : live'[o] => live[o]
  BY DEF ForeignRemove, Drop, ReadStat, ReadContent, hostVars, TypeOK
<1>2. Grows /\ Texts' = Texts /\ Stamps' = Stamps
  BY <1>1, SameTexts
<1>3. peek' \in Stamps \union {None}
  BY StampTypes DEF ForeignRemove, Drop, ReadStat, ReadContent, userVars, TypeOK
<1>4. known' \in [ver : Stamps, text : Texts] \union {None}
  <2>1. CASE ReadContent
    <3>1. peek # None /\ peek \in Stamps
      BY <2>1 DEF ReadContent, TypeOK
    <3>2. file # None => file \in Texts
      BY DEF TypeOK
    <3>3. QED
      BY <2>1, <3>1, <3>2 DEF ReadContent, TypeOK
  <2>2. QED
    BY <2>1 DEF ForeignRemove, Drop, ReadStat, userVars, TypeOK
<1>5. TypeOK'
  BY <1>1, <1>2, <1>3, <1>4, TypesStay DEF TypeOK
<1>6. Phases' /\ OverMeansOver' /\ VerdictHonest'
  BY <1>1 DEF Phases, OverMeansOver, VerdictHonest, workVars, scriptVars
<1>7. StagedFresh' /\ GuardHeld'
  BY <1>1 DEF StagedFresh, GuardHeld, callVars, workVars
<1>8. CheckedExpected'
  BY <1>1 DEF CheckedExpected, VersionOf, Versioned, callVars, workVars, scriptVars
<1>9. BasisSeen'
  BY <1>1, <1>2, StampTypes DEF BasisSeen, callVars, workVars
<1>10. QED
  BY <1>5, <1>6, <1>7, <1>8, <1>9

\* A call that joins the queue has left nothing on the host yet.
LEMMA CallKeeps ==
  ASSUME FsInv, NEW o \in Ops, NEW k \in Kinds, NEW guarded \in BOOLEAN, Call(o, k, guarded)
  PROVE  FsInv'
<1> USE DEF FsInv
<1>1. Grows /\ Texts' = Texts /\ Stamps' = Stamps
  BY SameTexts DEF Call, hostVars
<1>2. guarded => known.ver \in Stamps /\ known.text \in Texts
  BY DEF Call, TypeOK
<1>3. TypeOK'
  <2>1. peek' \in Stamps \union {None} /\ known' \in [ver : Stamps, text : Texts] \union {None}
    BY DEF Call, TypeOK, userVars
  <2>2. /\ guard' \in [Ops -> Stamps \union {None}] /\ base' \in [Ops -> Texts \union {None}]
        /\ kind' \in [Ops -> Kinds]
    BY <1>2 DEF Call, TypeOK
  <2>3. pc' \in [Ops -> {"idle", "queued", "read", "stage", "publish", "unlink", "after", "over"}]
    BY DEF Call, TypeOK
  <2>4. QED
    BY <1>1, <2>1, <2>2, <2>3 DEF Call, TypeOK, hostVars, workVars, scriptVars
<1>4. Phases' /\ OverMeansOver' /\ VerdictHonest'
  BY DEF Call, TypeOK, Phases, OverMeansOver, VerdictHonest, workVars, scriptVars
<1>5. StagedFresh'
  BY DEF Call, StagedFresh, hostVars, workVars
<1>6. CheckedExpected'
  <2>1. script[o] = "none"
    BY DEF Call, Phases
  <2>2. QED
    BY <2>1 DEF Call, TypeOK, CheckedExpected, VersionOf, Versioned, hostVars, workVars, scriptVars
<1>7. GuardHeld'
  BY <1>2, StampTypes DEF Call, TypeOK, GuardHeld, workVars
<1>8. BasisSeen'
  BY <1>1 DEF Call, TypeOK, BasisSeen, hostVars, workVars
<1>9. QED
  BY <1>3, <1>4, <1>5, <1>6, <1>7, <1>8

\* A call that settles, with the temporary file gone or out of reach, and with
\* a verdict that its script bears out.
LEMMA SettleKeeps ==
  ASSUME FsInv, NEW o \in Ops, NEW how \in {"ok", "guard", "failed"}, Settle(o, how),
         pc[o] \in {"queued", "read", "unlink", "after"},
         how = "ok" => script[o] = "done",
         how = "guard" => script[o] \in {"none", "refused"},
         tmp' = tmp \/ tmp' = [tmp EXCEPT ![o] = FALSE],
         live[o] => ~tmp'[o],
         known' \in [ver : Stamps, text : Texts] \union {None}, peek' = peek,
         UNCHANGED <<hostVars, live, scriptVars>>
  PROVE  FsInv'
<1> USE DEF FsInv
<1>1. Grows /\ Texts' = Texts /\ Stamps' = Stamps
  BY SameTexts DEF hostVars
<1>2. /\ tmp' \in [Ops -> BOOLEAN]
      /\ \A p \in Ops : tmp'[p] => tmp[p]
  BY DEF TypeOK
<1>3. \A p \in Ops : mine'[p] \in {mine[p], None} /\ (p # o => mine'[p] = mine[p])
  BY DEF Settle, Forget, TypeOK
<1>4. \/ UNCHANGED <<callVars, workVars>>
      \/ /\ kind' = [kind EXCEPT ![o] = "force"]
         /\ \A p \in Ops : p # o => /\ guard'[p] = guard[p] /\ base'[p] = base[p]
                                     /\ attrs'[p] = attrs[p] /\ basis'[p] = basis[p]
  BY DEF Settle, Forget, TypeOK, callVars, workVars
<1>5. /\ pc' = [pc EXCEPT ![o] = "over"]
      /\ verdict' = [verdict EXCEPT ![o] = how]
  BY DEF Settle
<1>6. TypeOK'
  <2>1. kind' \in [Ops -> Kinds]
    BY DEF Settle, TypeOK, Kinds
  <2>2. /\ guard' \in [Ops -> Stamps \union {None}] /\ base' \in [Ops -> Texts \union {None}]
        /\ attrs' \in [Ops -> Stamps \union {None}] /\ basis' \in [Ops -> Texts \union {None}]
        /\ mine' \in [Ops -> Texts \union {None}]
    BY DEF Settle, Forget, TypeOK
  <2>3. QED
    BY <1>1, <1>2, <1>5, <2>1, <2>2 DEF TypeOK, hostVars, scriptVars
<1>7. Phases' /\ OverMeansOver' /\ VerdictHonest'
  <2>1. Phases'
    BY <1>2, <1>3, <1>5 DEF Phases, TypeOK, scriptVars
  <2>2. OverMeansOver'
    BY <1>2, <1>5 DEF OverMeansOver, TypeOK
  <2>3. VerdictHonest'
    BY <1>5 DEF VerdictHonest, TypeOK, scriptVars
  <2>4. QED
    BY <2>1, <2>2, <2>3
<1>8. StagedFresh'
  BY <1>2, <1>3 DEF StagedFresh, hostVars
<1>9. CheckedExpected'
  <2>1. CASE UNCHANGED <<callVars, workVars>>
    BY <2>1 DEF CheckedExpected, VersionOf, Versioned, hostVars, callVars, workVars, scriptVars
  <2>2. CASE /\ kind' = [kind EXCEPT ![o] = "force"]
             /\ \A p \in Ops : p # o => attrs'[p] = attrs[p]
    <3> SUFFICES ASSUME NEW p \in Ops, script[p] = "move"
                 PROVE  /\ kind'[p] = "create" => checked[p] = None
                        /\ kind'[p] \in {"replace", "edit"} => VersionOf(checked[p]) = attrs'[p]
      BY DEF CheckedExpected, VersionOf, Versioned, hostVars, scriptVars
    <3>1. QED
      BY <2>2 DEF CheckedExpected, Versioned, TypeOK
  <2>3. QED
    BY <1>4, <2>1, <2>2
<1>10. GuardHeld'
  <2> SUFFICES ASSUME NEW q \in Ops, kind'[q] = "replace"
               PROVE  /\ base'[q] # None
                      /\ pc'[q] \notin {"idle", "queued"} => attrs'[q] = guard'[q] /\ attrs'[q] # None
    BY DEF GuardHeld
  <2>1. kind[q] = "replace" /\ attrs'[q] = attrs[q] /\ guard'[q] = guard[q] /\ base'[q] = base[q]
    BY <1>4 DEF TypeOK, callVars, workVars
  <2>2. q = o => pc[o] # "queued"
    <3>1. ASSUME q = o, pc[o] = "queued" PROVE FALSE
      <4>1. ~Armed(o)
        BY <3>1 DEF Phases, Armed
      <4>2. QED
        BY <3>1, <4>1 DEF Settle, TypeOK
    <3>2. QED
      BY <3>1
  <2>3. QED
    BY <1>5, <2>1, <2>2 DEF GuardHeld, TypeOK
<1>11. BasisSeen'
  <2> SUFFICES ASSUME NEW q \in Ops, kind'[q] = "edit", pc'[q] \notin {"idle", "queued"}
               PROVE  \E a \in Texts : /\ stampOf[a] = attrs'[q]
                                       /\ \A p \in Ops : tmp'[p] => mine'[p] # a
                                       /\ pc'[q] # "read" => a = basis'[q] \/ a # file
    BY <1>1 DEF BasisSeen, hostVars
  <2>1. kind[q] = "edit" /\ attrs'[q] = attrs[q] /\ basis'[q] = basis[q]
    BY <1>4 DEF TypeOK, callVars, workVars
  <2>2. q = o => pc[o] \in {"unlink", "after"}
    <3>1. ASSUME q = o, pc[o] \in {"queued", "read"} PROVE FALSE
      <4>1. ~Armed(o)
        BY <3>1 DEF Phases, Armed
      <4>2. kind'[o] = "force"
        BY <4>1 DEF Settle, TypeOK
      <4>3. QED
        BY <3>1, <4>2
    <3>2. QED
      BY <3>1
  <2>3. pc[q] \notin {"idle", "queued"} /\ (pc'[q] # "read" => pc[q] # "read")
    BY <1>5, <2>2 DEF TypeOK
  <2>4. PICK a \in Texts : /\ stampOf[a] = attrs[q]
                           /\ \A p \in Ops : tmp[p] => mine[p] # a
                           /\ pc[q] # "read" => a = basis[q] \/ a # file
    BY <2>1, <2>3 DEF BasisSeen
  <2>5. \A p \in Ops : tmp'[p] => mine'[p] # a
    BY <1>2, <1>3, <2>4, StampTypes
  <2>6. QED
    BY <2>1, <2>3, <2>4, <2>5
<1>12. QED
  BY <1>6, <1>7, <1>8, <1>9, <1>10, <1>11

\* The stat of a call that goes on: its version is that of the file, which is
\* not staged.
LEMMA StatKeeps == ASSUME FsInv, NEW o \in Ops, Stat(o) PROVE FsInv'
<1> USE DEF FsInv
<1>1. CASE Settle(o, "failed") \/ Settle(o, "guard")
  <2>1. pc[o] = "queued" /\ script[o] = "none" /\ ~tmp[o]
    BY DEF Stat, Runs, Phases
  <2>2. QED
    BY <1>1, <2>1, SettleKeeps DEF Stat, TypeOK, userVars
<1>2. CASE /\ ~RefusedByStat(o)
           /\ attrs' = [attrs EXCEPT ![o] = VersionOf(file)]
           /\ pc' = [pc EXCEPT ![o] = "read"]
           /\ UNCHANGED <<verdict, callVars, basis, mine>>
  <2>1. Grows /\ Texts' = Texts /\ Stamps' = Stamps
    BY SameTexts DEF Stat, hostVars
  <2>2. TypeOK'
    <3>1. attrs' \in [Ops -> Stamps \union {None}]
      BY <1>2, StampTypes DEF TypeOK
    <3>2. QED
      BY <1>2, <2>1, <3>1 DEF Stat, TypeOK, hostVars, userVars, callVars, scriptVars
  <2>3. pc[o] = "queued" /\ script[o] = "none"
    BY DEF Stat, Runs, Phases
  <2>4. Phases' /\ OverMeansOver' /\ VerdictHonest'
    BY <1>2, <2>3 DEF Stat, TypeOK, Phases, OverMeansOver, VerdictHonest, scriptVars
  <2>5. StagedFresh'
    BY <1>2 DEF Stat, StagedFresh, hostVars
  <2>6. CheckedExpected'
    BY <1>2, <2>3 DEF Stat, TypeOK, CheckedExpected, VersionOf, Versioned, hostVars, callVars, scriptVars
  <2>7. GuardHeld'
    <3>1. kind[o] = "replace" => VersionOf(file) = guard[o] /\ VersionOf(file) # None
      BY <1>2, StampTypes DEF RefusedByStat, TypeOK
    <3>2. QED
      BY <1>2, <3>1 DEF TypeOK, GuardHeld, callVars
  <2>8. BasisSeen'
    <3> SUFFICES ASSUME NEW q \in Ops, kind[q] = "edit", pc'[q] \notin {"idle", "queued"}
                 PROVE  \E a \in Texts : /\ stampOf[a] = attrs'[q]
                                         /\ \A p \in Ops : tmp[p] => mine[p] # a
                                         /\ pc'[q] # "read" => a = basis[q] \/ a # file
      BY <1>2, <2>1 DEF Stat, BasisSeen, hostVars, callVars
    <3>1. CASE q # o
      BY <1>2, <3>1 DEF BasisSeen, TypeOK
    <3>2. CASE q = o
      <4>1. file \in Texts /\ attrs'[o] = stampOf[file] /\ pc'[o] = "read"
        BY <1>2, <3>2, StampTypes DEF RefusedByStat, TypeOK
      <4>2. \A p \in Ops : tmp[p] => mine[p] # file
        BY <4>1, StampTypes DEF StagedFresh
      <4>3. QED
        BY <3>2, <4>1, <4>2
    <3>3. QED
      BY <3>1, <3>2
  <2>9. QED
    BY <2>2, <2>4, <2>5, <2>6, <2>7, <2>8
<1>3. QED
  BY <1>1, <1>2 DEF Stat

\* The read of a call: the text it finds is the one the stat found, or that one
\* has left the file for good.
LEMMA ReadKeeps ==
  ASSUME FsInv, NEW o \in Ops, ReadBasis(o) \/ ReadMatch(o)
  PROVE  FsInv'
<1> USE DEF FsInv
<1>1. CASE Settle(o, "failed")
  <2>1. pc[o] = "read" /\ ~tmp[o]
    BY DEF ReadBasis, ReadMatch, Runs, Phases
  <2>2. UNCHANGED <<hostVars, userVars, tmp, live, scriptVars>>
    BY DEF ReadBasis, ReadMatch
  <2>3. QED
    BY <1>1, <2>1, <2>2, SettleKeeps DEF TypeOK, userVars
<1>2. CASE /\ \E t \in Texts \union {None} :
                /\ basis' = [basis EXCEPT ![o] = t]
                /\ kind[o] = "edit" => t = file
           /\ pc' = [pc EXCEPT ![o] = "stage"]
           /\ pc[o] = "read"
           /\ UNCHANGED <<verdict, callVars, attrs, mine>>
  <2>1. UNCHANGED <<hostVars, userVars, tmp, live, scriptVars>>
    BY DEF ReadBasis, ReadMatch
  <2>2. Grows /\ Texts' = Texts /\ Stamps' = Stamps
    BY <2>1, SameTexts DEF hostVars
  <2>3. TypeOK'
    <3>1. basis' \in [Ops -> Texts \union {None}]
      BY <1>2 DEF TypeOK
    <3>2. QED
      BY <1>2, <2>1, <2>2, <3>1 DEF TypeOK, hostVars, userVars, callVars, scriptVars
  <2>4. Phases' /\ OverMeansOver' /\ VerdictHonest'
    BY <1>2, <2>1 DEF TypeOK, Phases, OverMeansOver, VerdictHonest, scriptVars
  <2>5. StagedFresh' /\ CheckedExpected'
    BY <1>2, <2>1 DEF StagedFresh, CheckedExpected, VersionOf, Versioned, hostVars, callVars, scriptVars
  <2>6. GuardHeld'
    BY <1>2 DEF TypeOK, GuardHeld, callVars
  <2>7. BasisSeen'
    <3> SUFFICES ASSUME NEW q \in Ops, kind[q] = "edit", pc'[q] \notin {"idle", "queued"}
                 PROVE  \E a \in Texts : /\ stampOf[a] = attrs[q]
                                         /\ \A p \in Ops : tmp[p] => mine[p] # a
                                         /\ pc'[q] # "read" => a = basis'[q] \/ a # file
      BY <1>2, <2>1, <2>2 DEF BasisSeen, hostVars, callVars
    <3>1. CASE q # o
      BY <1>2, <3>1 DEF BasisSeen, TypeOK
    <3>2. CASE q = o
      <4>1. pc[q] \notin {"idle", "queued"}
        BY <1>2, <3>2
      <4>2. PICK a \in Texts : stampOf[a] = attrs[q] /\ \A p \in Ops : tmp[p] => mine[p] # a
        BY <4>1 DEF BasisSeen
      <4>3. basis'[q] = file
        BY <1>2, <3>2 DEF TypeOK
      <4>4. QED
        BY <4>2, <4>3
    <3>3. QED
      BY <3>1, <3>2
  <2>8. QED
    BY <2>3, <2>4, <2>5, <2>6, <2>7
<1>3. QED
  <2>1. tryReadBasis(o) \in Texts \union {None} /\ file \in Texts \union {None}
    BY DEF tryReadBasis, TypeOK
  <2>2. QED
    BY <1>1, <1>2, <2>1 DEF ReadBasis, ReadMatch, Runs

\* The staged text is new: it is neither the file's, nor staged by another
\* call, nor one that was seen before.
LEMMA StageKeeps == ASSUME FsInv, NEW o \in Ops, Stage(o) PROVE FsInv'
<1> USE DEF FsInv
<1>1. Grows /\ mine'[o] \in Texts' /\ mine'[o] \notin Texts /\ mine'[o] # None
  BY NewTextGrows DEF Stage, TypeOK
<1>2. /\ \A p \in Ops : p # o => mine'[p] = mine[p] /\ tmp'[p] = tmp[p] /\ pc'[p] = pc[p]
                                 /\ script'[p] = script[p]
      /\ pc[o] = "stage" /\ pc'[o] = "publish" /\ script'[o] = "check" /\ tmp'[o]
      /\ UNCHANGED <<file, userVars, callVars, attrs, basis, live, checked, verdict>>
  BY DEF Stage, Runs, TypeOK
<1>3. TypeOK'
  <2>1. /\ mine' \in [Ops -> Texts' \union {None}] /\ tmp' \in [Ops -> BOOLEAN]
        /\ script' \in [Ops -> {"none", "check", "move", "done", "refused", "dead"}]
        /\ pc' \in [Ops -> {"idle", "queued", "read", "stage", "publish", "unlink", "after", "over"}]
    BY <1>1 DEF Stage, TypeOK, Grows
  <2>2. peek' \in Stamps' \union {None} /\ known' \in [ver : Stamps', text : Texts'] \union {None}
    BY <1>1, <1>2, KnownStays DEF userVars
  <2>3. QED
    BY <1>1, <1>2, <2>1, <2>2 DEF TypeOK, Grows, callVars
<1>4. Phases' /\ OverMeansOver' /\ VerdictHonest'
  BY <1>1, <1>2 DEF Phases, OverMeansOver, VerdictHonest
<1>5. StagedFresh'
  BY <1>1, <1>2, FsAssumption, StampTypes DEF StagedFresh, TypeOK
<1>6. CheckedExpected'
  BY <1>1, <1>2, VersionsStay DEF CheckedExpected, TypeOK, Versioned, callVars
<1>7. GuardHeld'
  BY <1>2 DEF GuardHeld, callVars
<1>8. BasisSeen'
  BY <1>1, <1>2 DEF BasisSeen, Grows, callVars
<1>9. QED
  BY <1>3, <1>4, <1>5, <1>6, <1>7, <1>8

\* A failed upload leaves a part of a file that no script publishes.
LEMMA StageFailsKeeps == ASSUME FsInv, NEW o \in Ops, StageFails(o) PROVE FsInv'
<1> USE DEF FsInv
<1>1. Grows /\ Texts' = Texts /\ Stamps' = Stamps
  BY SameTexts DEF StageFails, hostVars
<1>2. /\ UNCHANGED <<hostVars, userVars, callVars, workVars, live, scriptVars, verdict>>
      /\ tmp' \in [Ops -> BOOLEAN] /\ \A p \in Ops : p # o => tmp'[p] = tmp[p]
      /\ pc[o] = "stage" /\ mine[o] = None /\ script[o] = "none" /\ verdict[o] = "none"
      /\ pc' = [pc EXCEPT ![o] = "unlink"]
  BY DEF StageFails, Runs, TypeOK, Phases
<1>3. TypeOK'
  BY <1>1, <1>2, TypesStay DEF TypeOK, hostVars, userVars
<1>4. Phases' /\ OverMeansOver' /\ VerdictHonest'
  BY <1>2 DEF TypeOK, Phases, OverMeansOver, VerdictHonest, workVars, scriptVars
<1>5. StagedFresh' /\ GuardHeld'
  BY <1>2 DEF TypeOK, StagedFresh, GuardHeld, hostVars, callVars, workVars
<1>6. CheckedExpected'
  BY <1>2 DEF CheckedExpected, VersionOf, Versioned, hostVars, callVars, workVars, scriptVars
<1>7. BasisSeen'
  BY <1>1, <1>2, StampTypes DEF TypeOK, BasisSeen, hostVars, callVars, workVars
<1>8. QED
  BY <1>3, <1>4, <1>5, <1>6, <1>7

\* The script checks, or is killed: it moves nothing.
LEMMA ScriptKeeps ==
  ASSUME FsInv, NEW o \in Ops, ScriptCheck(o) \/ ScriptDies(o)
  PROVE  FsInv'
<1> USE DEF FsInv
<1>1. Grows /\ Texts' = Texts /\ Stamps' = Stamps
  BY SameTexts DEF ScriptCheck, ScriptDies, hostVars
<1>2. /\ UNCHANGED <<hostVars, userVars, pc, callVars, workVars, tmp, live, verdict>>
      /\ script[o] \in {"check", "move"}
      /\ \E to \in {"move", "refused", "dead"} : script' = [script EXCEPT ![o] = to]
      /\ \A p \in Ops : p # o => checked'[p] = checked[p]
  BY DEF ScriptCheck, ScriptDies, Armed, TypeOK
<1>3. script'[o] = "move" => checked'[o] = file /\ ~RefusedByScript(o)
  BY DEF ScriptCheck, ScriptDies, TypeOK
<1>4. TypeOK'
  <2>1. checked' \in [Ops -> Texts \union {None}]
    BY DEF ScriptCheck, ScriptDies, TypeOK
  <2>2. script' \in [Ops -> {"none", "check", "move", "done", "refused", "dead"}]
    BY <1>2 DEF TypeOK
  <2>3. QED
    BY <1>1, <1>2, <2>1, <2>2 DEF TypeOK, hostVars, userVars, callVars, workVars
<1>5. Phases' /\ OverMeansOver' /\ VerdictHonest'
  BY <1>2 DEF TypeOK, Phases, OverMeansOver, VerdictHonest, workVars
<1>6. StagedFresh' /\ GuardHeld'
  BY <1>2 DEF StagedFresh, GuardHeld, hostVars, callVars, workVars
<1>7. CheckedExpected'
  <2> SUFFICES ASSUME NEW p \in Ops, script'[p] = "move"
               PROVE  /\ kind[p] = "create" => checked'[p] = None
                      /\ kind[p] \in {"replace", "edit"} => VersionOf(checked'[p]) = attrs[p]
    BY <1>2 DEF CheckedExpected, VersionOf, Versioned, hostVars, callVars, workVars
  <2>1. CASE p = o
    BY <2>1, <1>3 DEF RefusedByScript, Versioned
  <2>2. CASE p # o
    BY <2>2, <1>2 DEF CheckedExpected, Versioned, TypeOK
  <2>3. QED
    BY <2>1, <2>2
<1>8. BasisSeen'
  BY <1>1, <1>2 DEF BasisSeen, hostVars, callVars, workVars
<1>9. QED
  BY <1>4, <1>5, <1>6, <1>7, <1>8

\* The script moves: its text was staged, so nobody had seen it in the file.
LEMMA MoveKeeps == ASSUME FsInv, NEW o \in Ops, ScriptMove(o) PROVE FsInv'
<1> USE DEF FsInv
<1>1. Grows /\ Texts' = Texts /\ Stamps' = Stamps
  BY SameTexts DEF ScriptMove
<1>2. /\ UNCHANGED <<stampOf, userVars, pc, callVars, workVars, live, checked, verdict>>
      /\ script[o] = "move"
      /\ \/ /\ tmp[o] /\ file' = mine[o] /\ tmp' = [tmp EXCEPT ![o] = FALSE]
            /\ script' = [script EXCEPT ![o] = "done"]
         \/ /\ ~tmp[o] /\ file' = file /\ tmp' = tmp
            /\ script' = [script EXCEPT ![o] = "dead"]
  BY DEF ScriptMove
<1>3. tmp' \in [Ops -> BOOLEAN] /\ \A p \in Ops : tmp'[p] => tmp[p] /\ (p = o => file' = file)
  BY <1>2 DEF TypeOK
<1>4. TypeOK'
  <2>1. script' \in [Ops -> {"none", "check", "move", "done", "refused", "dead"}]
    BY <1>2 DEF TypeOK
  <2>2. file' \in Texts \union {None}
    BY <1>2 DEF TypeOK
  <2>3. QED
    BY <1>1, <1>2, <1>3, <2>1, <2>2 DEF TypeOK, userVars, callVars, workVars
<1>5. Phases' /\ OverMeansOver' /\ VerdictHonest'
  BY <1>2, <1>3 DEF TypeOK, Phases, OverMeansOver, VerdictHonest, workVars
<1>6. StagedFresh'
  BY <1>2, <1>3 DEF TypeOK, StagedFresh, workVars
<1>7. GuardHeld'
  BY <1>2 DEF GuardHeld, callVars, workVars
<1>8. CheckedExpected'
  BY <1>2 DEF TypeOK, CheckedExpected, VersionOf, Versioned, callVars, workVars
<1>9. BasisSeen'
  BY <1>1, <1>2, <1>3 DEF BasisSeen, callVars, workVars
<1>10. QED
  BY <1>4, <1>5, <1>6, <1>7, <1>8, <1>9

\* A call that hears of its script, or of nothing, changes only where it is.
LEMMA PublishedKeeps == ASSUME FsInv, NEW o \in Ops, Published(o) PROVE FsInv'
<1> USE DEF FsInv
<1>1. Grows /\ Texts' = Texts /\ Stamps' = Stamps
  BY SameTexts DEF Published, hostVars
<1>2. /\ UNCHANGED <<hostVars, userVars, callVars, workVars, tmp, live, scriptVars>>
      /\ pc[o] = "publish" /\ verdict[o] = "none"
      /\ \/ pc' = [pc EXCEPT ![o] = "after"] /\ script[o] = "done" /\ verdict' = verdict
         \/ /\ pc' = [pc EXCEPT ![o] = "unlink"]
            /\ \/ verdict' = verdict
               \/ script[o] = "refused" /\ verdict' = [verdict EXCEPT ![o] = "guard"]
  BY DEF Published, Runs, Phases
<1>3. TypeOK'
  BY <1>1, <1>2 DEF TypeOK, hostVars, userVars, callVars, workVars, scriptVars
<1>4. Phases' /\ OverMeansOver' /\ VerdictHonest'
  BY <1>2 DEF TypeOK, Phases, OverMeansOver, VerdictHonest, workVars, scriptVars
<1>5. StagedFresh' /\ CheckedExpected'
  BY <1>2 DEF StagedFresh, CheckedExpected, VersionOf, Versioned, hostVars, callVars, workVars, scriptVars
<1>6. GuardHeld'
  BY <1>2 DEF TypeOK, GuardHeld, callVars, workVars
<1>7. BasisSeen'
  BY <1>1, <1>2 DEF TypeOK, BasisSeen, hostVars, callVars, workVars
<1>8. QED
  BY <1>3, <1>4, <1>5, <1>6, <1>7

\* The clean-up of a failed call, and the last stat of a published one.
LEMMA EndKeeps == ASSUME FsInv, NEW o \in Ops, Unlink(o) \/ StatAfter(o) PROVE FsInv'
<1> USE DEF FsInv
<1>1. CASE Unlink(o)
  <2>1. /\ pc[o] = "unlink" /\ verdict[o] = "guard" => script[o] = "refused"
        /\ tmp' = [tmp EXCEPT ![o] = @ /\ ~live[o]]
        /\ UNCHANGED <<hostVars, userVars, live, scriptVars>>
    BY <1>1 DEF Unlink, Runs, Phases
  <2>2. pc[o] = "unlink"
    BY <1>1 DEF Unlink, Runs
  <2>3. tmp' = tmp \/ tmp' = [tmp EXCEPT ![o] = FALSE]
    <3>1. CASE live[o]
      BY <2>1, <3>1 DEF TypeOK
    <3>2. CASE ~live[o]
      BY <2>1, <3>2 DEF TypeOK
    <3>3. QED
      BY <3>1, <3>2
  <2>4. live[o] => ~tmp'[o]
    BY <2>1 DEF TypeOK
  <2>5. PICK how \in {"guard", "failed"} : Settle(o, how) /\ (how = "guard" => verdict[o] = "guard")
    BY <1>1 DEF Unlink
  <2>6. how = "guard" => script[o] = "refused"
    BY <2>1, <2>2, <2>5
  <2>7. known' \in [ver : Stamps, text : Texts] \union {None} /\ peek' = peek
    BY <2>1 DEF TypeOK, userVars
  <2>8. QED
    BY <2>1, <2>2, <2>3, <2>4, <2>5, <2>6, <2>7, SettleKeeps
<1>2. CASE StatAfter(o)
  <2>1. /\ pc[o] = "after" /\ script[o] = "done" /\ ~tmp[o]
        /\ UNCHANGED <<hostVars, peek, tmp, live, scriptVars>>
    BY <1>2 DEF StatAfter, Runs, Phases
  <2>2. Settle(o, "ok") \/ Settle(o, "failed")
    BY <1>2 DEF StatAfter
  <2>3. known' \in [ver : Stamps, text : Texts] \union {None}
    <3>1. CASE known' = known \/ known' = None
      BY <3>1 DEF TypeOK
    <3>2. CASE file # None /\ known' = [ver |-> VersionOf(file), text |-> mine[o]]
      <4>1. VersionOf(file) \in Stamps
        BY <3>2, StampTypes DEF TypeOK
      <4>2. mine[o] \in Texts
        BY <2>1 DEF Phases, TypeOK
      <4>3. QED
        BY <3>2, <4>1, <4>2
    <3>3. QED
      BY <1>2, <3>1, <3>2 DEF StatAfter
  <2>4. QED
    BY <2>1, <2>2, <2>3, SettleKeeps
<1>3. QED
  BY <1>1, <1>2

\* The initial state: nothing is known, nothing is staged.
LEMMA InitFs == Init => FsInv
<1> SUFFICES ASSUME Init PROVE FsInv
  OBVIOUS
<1>1. stampOf \in Seq(Text) /\ Len(stampOf) <= MaxText /\ file \in Texts \union {None}
  <2>1. CASE stampOf = <<>> /\ file = None
    BY <2>1, FsAssumption
  <2>2. CASE stampOf = <<1>> /\ file = 1
    <3>1. 1 \in Text
      BY FsAssumption DEF Text
    <3>2. QED
      BY <2>2, <3>1, FsAssumption DEF Texts
  <2>3. QED
    BY <2>1, <2>2 DEF Init
<1>2. TypeOK
  BY <1>1, FsAssumption DEF Init, TypeOK, Kinds
<1>3. QED
  BY <1>2 DEF Init, FsInv, Phases, OverMeansOver, VerdictHonest, StagedFresh, CheckedExpected,
              GuardHeld, BasisSeen

\* Every step keeps the invariant.
LEMMA StepFs == FsInv /\ [Next]_vars => FsInv'
<1> SUFFICES ASSUME FsInv, [Next]_vars PROVE FsInv'
  OBVIOUS
<1>1. CASE ForeignWrite
  BY <1>1, ForeignWriteKeeps
<1>2. CASE ForeignRemove \/ Drop \/ ReadStat \/ ReadContent
  BY <1>2, QuietKeeps
<1>3. CASE \E o \in Ops, k \in Kinds, guarded \in BOOLEAN : Call(o, k, guarded)
  BY <1>3, CallKeeps
<1>4. CASE \E o \in Ops : CallStep(o)
  BY <1>4, StatKeeps, ReadKeeps, StageKeeps, StageFailsKeeps, PublishedKeeps, EndKeeps DEF CallStep
<1>5. CASE \E o \in Ops : ScriptStep(o) \/ ScriptDies(o)
  BY <1>5, ScriptKeeps, MoveKeeps DEF ScriptStep
<1>6. CASE UNCHANGED vars
  <2>1. Texts' = Texts /\ Stamps' = Stamps
    BY <1>6 DEF vars, hostVars, Texts, Stamps
  <2>2. TypeOK'
    BY <1>6, <2>1 DEF FsInv, TypeOK, vars, hostVars, userVars, callVars, workVars, scriptVars
  <2>3. Phases' /\ OverMeansOver' /\ VerdictHonest' /\ StagedFresh' /\ GuardHeld'
    BY <1>6 DEF FsInv, Phases, OverMeansOver, VerdictHonest, StagedFresh, GuardHeld,
                vars, hostVars, callVars, workVars, scriptVars
  <2>4. CheckedExpected' /\ BasisSeen'
    BY <1>6, <2>1 DEF FsInv, CheckedExpected, VersionOf, Versioned, BasisSeen,
                vars, hostVars, callVars, workVars, scriptVars
  <2>5. QED
    BY <2>2, <2>3, <2>4 DEF FsInv
<1>7. QED
  BY <1>1, <1>2, <1>3, <1>4, <1>5, <1>6 DEF Next

----------------------------------------------------------------------------
(* The theorems *)

\* The invariant holds in every reachable state, for every number of calls.
THEOREM FsInvariant == Spec => []FsInv
<1>1. QED
  BY InitFs, StepFs, PTL DEF Spec

\* A settled call leaves nothing armed behind that its connection could have
\* cleaned up, and what it reported stays true (fs-ssh.ts performWrite,
\* performEdit, silentUnlink).
THEOREM FsFilesInv == Spec => []FilesInv
<1>1. FsInv => FilesInv
  BY DEF FsInv, FilesInv
<1>2. QED
  BY <1>1, FsInvariant, PTL

\* A script that publishes over an unchanged file replaces the text that its
\* call, or the caller under the guard, had seen.
LEMMA MoveReplacesSeen ==
  ASSUME FsInv, NEW o \in Ops, script[o] = "move", file = checked[o]
  PROVE  /\ kind[o] = "create" => file = None
         /\ kind[o] = "edit" /\ Distinct => file = basis[o]
         /\ kind[o] = "replace" /\ Distinct /\ stampOf[base[o]] = guard[o] => file = base[o]
<1> USE DEF FsInv
<1>1. kind[o] = "create" => file = None
  BY DEF CheckedExpected
<1>2. pc[o] \notin {"idle", "queued", "read"}
  BY DEF Phases
<1>3. ASSUME kind[o] = "edit", Distinct PROVE file = basis[o]
  <2>1. PICK a \in Texts : stampOf[a] = attrs[o] /\ (a = basis[o] \/ a # file)
    BY <1>2, <1>3 DEF BasisSeen
  <2>2. VersionOf(file) = attrs[o] /\ attrs[o] # None
    BY <1>3, <2>1, StampTypes DEF CheckedExpected, Versioned
  <2>3. file \in Texts /\ stampOf[file] = attrs[o]
    BY <2>2 DEF TypeOK, VersionOf
  <2>4. a = file
    BY <1>3, <2>1, <2>3 DEF Distinct
  <2>5. QED
    BY <2>1, <2>4
<1>4. ASSUME kind[o] = "replace", Distinct, stampOf[base[o]] = guard[o] PROVE file = base[o]
  <2>1. VersionOf(file) = guard[o] /\ guard[o] # None
    BY <1>2, <1>4 DEF CheckedExpected, Versioned, GuardHeld
  <2>2. file \in Texts /\ stampOf[file] = stampOf[base[o]]
    BY <1>4, <2>1 DEF TypeOK, VersionOf
  <2>3. base[o] \in Texts
    BY <1>4 DEF GuardHeld, TypeOK
  <2>4. QED
    BY <1>4, <2>2, <2>3 DEF Distinct
<1>5. QED
  BY <1>1, <1>3, <1>4

\* No update is lost, however calls, scripts and other writers interleave, as
\* long as stamps tell texts apart (fs-ssh.ts performWrite, performEdit,
\* execPublish).
THEOREM FsReplacesOnlySeen == Spec => ReplacesOnlySeen
<1>1. FsInv /\ [Next]_vars =>
        [\A o \in Ops : script'[o] = "done" /\ script[o] = "move" /\ file = checked[o] =>
           /\ kind[o] = "create" => file = None
           /\ kind[o] = "edit" /\ Distinct => file = basis[o]
           /\ kind[o] = "replace" /\ Distinct /\ stampOf[base[o]] = guard[o] => file = base[o]]_vars
  BY MoveReplacesSeen
<1>2. QED
  BY <1>1, FsInvariant, PTL DEF Spec, ReplacesOnlySeen

(***************************************************************************)
(* Bulk transfer: FileTransfer and ChannelMux.                             *)
(*                                                                         *)
(* The inductive invariant says, per transfer, what the two ends of its    *)
(* channel and the wires between them have of it (LinkInv): what was sent  *)
(* is what the reader has, followed by what is on the wire, and an end     *)
(* frame is behind all of it.  FileInv adds what the job of the daemon     *)
(* made of it on disk.                                                     *)
(***************************************************************************)

\* The side that reads the chunks of a transfer.
Reader(t) == IF t \in Uploads THEN "back" ELSE "front"

Payload == (Uploads \union {"old"}) \X Nat
Channels == [end : {"open", "done", "error"}, queue : Seq(Payload), waiting : BOOLEAN,
             got : Seq(Payload), told : {"no", "done", "error"}]
Muxes == [open : SUBSET Ids, ch : [Ids -> Channels], ended : BOOLEAN]
DataFrames == [type : {"data"}, id : Ids, v : Payload]
PlainLines == [type : {"open", "end", "error"}, id : Ids, v : {<<>>}]
                \union [type : {"rpc"}, id : Transfers, v : {<<>>} \union {<<i>> : i \in Ids}]
AllLines == DataFrames \union PlainLines
Units == [line : AllLines, at : {"newline"}] \union [line : DataFrames, at : {"start"}]
Files == [owner : Uploads \union {"absent", "old"}, data : Seq(Payload)]

TransferTypeOK ==
  /\ mux \in [Sides -> Muxes] /\ wire \in [Sides -> Seq(Units)]
  /\ call \in [Transfers -> {"idle", "calling", "stat", "mkdir", "answered", "ready", "open", "failed"}]
  /\ chan \in [Transfers -> Ids \union {0}]
  /\ opts \in [Transfers -> [sized : BOOLEAN, overwrite : BOOLEAN]]
  /\ pending \subseteq Transfers /\ next \in Nat \ {0}
  /\ job \in [Transfers -> {"none", "creating", "reading", "renaming", "removing", "done", "failed",
                            "opening", "sending"}]
  /\ part \in [Uploads -> Files] /\ target \in Files
  /\ sent \in [Transfers -> Seq(Payload)] /\ shut \subseteq Transfers
  /\ source \in [Downloads -> Seq(Payload)] /\ alive \in BOOLEAN

\* Units of a wire.
FrameOf(w, p, i) == w[p].line.type # "rpc" /\ w[p].line.id = i
IsOpen(w, p, i) == w[p].line.type = "open" /\ w[p].line.id = i
IsEnd(w, p, i)  == w[p].line.type = "end" /\ w[p].line.id = i
IsData(w, p, i) == w[p].line.type = "data" /\ w[p].line.id = i /\ w[p].at = "newline"
IsRpc(w, p, t)  == w[p].line.type = "rpc" /\ w[p].line.id = t
Number(w, p) == w[p].line.v[2]

\* What is on wire w of id i, or of the call of transfer t.
Silent(w, i) == \A p \in 1..Len(w) : ~FrameOf(w, p, i)
Opened(w, i) == \E p \in 1..Len(w) : IsOpen(w, p, i)
Ends(w, i) == \E p \in 1..Len(w) : IsEnd(w, p, i)
Asked(w, t) == \E p \in 1..Len(w) : IsRpc(w, p, t)
Granted(w, t) == \E p \in 1..Len(w) : IsRpc(w, p, t) /\ w[p].line.v # <<>>

\* The open frame of a channel is the first of its frames, the end frame
\* behind the data, and a call has one line.
OpensFirst(w, i) == \A p \in 1..Len(w) : IsOpen(w, p, i) => \A q \in 1..(p - 1) : ~FrameOf(w, q, i)
EndsLast(w, i) == \A p, q \in 1..Len(w) : IsEnd(w, p, i) /\ IsData(w, q, i) => q < p
RpcOnce(w, t) == \A p, q \in 1..Len(w) : IsRpc(w, p, t) /\ IsRpc(w, q, t) => p = q

Unused(ch) == ch.end = "open" /\ ch.queue = <<>> /\ ~ch.waiting /\ ch.got = <<>> /\ ch.told = "no"

Numbered(s, n) == \A k \in 1..Len(s) : s[k][2] = n + k

Held(ch) == Len(ch.got) + Len(ch.queue)

\* The data frames of id i on wire w are the payloads of s behind the first n.
Ahead(w, i, s, n) ==
  /\ \A p \in 1..Len(w) : IsData(w, p, i) =>
       Number(w, p) \in (n + 1)..Len(s) /\ w[p].line.v = s[Number(w, p)]
  /\ \A p, q \in 1..Len(w) : IsData(w, p, i) /\ IsData(w, q, i) /\ p < q => Number(w, p) < Number(w, q)
  /\ \A k \in (n + 1)..Len(s) : \E p \in 1..Len(w) : IsData(w, p, i) /\ Number(w, p) = k

\* What was sent is what the reader has, followed by what is on the wire: ch
\* is its end of channel i, s what was sent, ended that its stream is over,
\* over that the sender is done, own that the reader closed the channel itself.
Flow(ch, w, i, s, ended, over, own) ==
  /\ Held(ch) <= Len(s)
  /\ \A k \in 1..Len(ch.got) : ch.got[k] = s[k]
  /\ \A k \in 1..Len(ch.queue) : ch.queue[k] = s[Len(ch.got) + k]
  /\ ~ended /\ ch.end = "open" => Ahead(w, i, s, Held(ch))
  /\ Ends(w, i) => over
  /\ EndsLast(w, i)
  /\ ch.end = "done" /\ ~own => Held(ch) = Len(s) /\ over

Over(t) == IF t \in Uploads THEN t \in shut ELSE job[t] = "done" \/ ~alive
Own(t)  == t \in Downloads /\ t \in shut

\* A reader waits only at an empty, open queue, and was told only what is true.
Sound(ch) ==
  /\ ch.waiting => ch.queue = <<>> /\ ch.end = "open"
  /\ ch.told # "no" => ch.queue = <<>> /\ ch.end = ch.told

Readers == \A s \in Sides, i \in Ids : Sound(mux[s].ch[i])

Streams ==
  /\ \A s \in Sides : mux[s].ended => wire[s] = <<>> /\ mux[s].open = {}
  /\ ~alive => mux["back"].ended

\* A channel id belongs to one transfer; the ids to come were never used.
Untouched(i) ==
  \A s \in Sides : Unused(mux[s].ch[i]) /\ i \notin mux[s].open /\ Silent(wire[s], i)

OneOwner == \A t, u \in Transfers : chan[t] = chan[u] /\ chan[t] # 0 => t = u
Fresh == \A i \in Ids : i >= next => Untouched(i)

\* The daemon opens no channel.
FrontAsks == \A i \in Ids : ~Opened(wire["front"], i)

NumberOK(t) ==
  /\ chan[t] < next
  /\ call[t] \in {"idle", "calling", "stat", "mkdir"} => chan[t] = 0
  /\ call[t] \in {"ready", "open"} => chan[t] # 0
  /\ t \in pending => chan[t] # 0 /\ job[t] = "none"

\* Before its channel is opened, nothing of a transfer has happened.
UnopenedOK(t) ==
  call[t] # "open" =>
    /\ sent[t] = <<>> /\ t \notin shut /\ job[t] = "none"
    /\ chan[t] # 0 => Untouched(chan[t])
    /\ chan[t] # 0 /\ ~mux["back"].ended => t \in pending

RpcOK(t) ==
  /\ RpcOnce(wire["front"], t) /\ RpcOnce(wire["back"], t)
  /\ Asked(wire["back"], t) => call[t] = "calling"
  /\ Asked(wire["front"], t) => call[t] = "answered"
  /\ Granted(wire["front"], t) => chan[t] # 0

\* The open frame arrives before anything else of the channel, at a daemon
\* that awaits it; an open channel is in the map of its reader.
OpeningOK(t) ==
  chan[t] # 0 =>
    /\ OpensFirst(wire["back"], chan[t])
    /\ t \in pending => Unused(Ch("back", t)) /\ chan[t] \notin mux["back"].open
    /\ Opened(wire["back"], chan[t]) => t \in pending
    /\ t \in Uploads /\ call[t] = "open" /\ ~mux["back"].ended /\ Ch("back", t).end = "open" =>
         chan[t] \in mux["back"].open \/ Opened(wire["back"], chan[t])
    /\ t \in Downloads /\ call[t] = "open" /\ ~mux["front"].ended /\ Ch("front", t).end = "open" =>
         chan[t] \in mux["front"].open
    /\ t \in Uploads /\ t \in shut => chan[t] \notin mux["front"].open

FlowOK(t) ==
  chan[t] # 0 =>
    Flow(Ch(Reader(t), t), wire[Reader(t)], chan[t], sent[t], mux[Reader(t)].ended, Over(t), Own(t))

\* What the two ends and the wires between them say about one transfer.
LinkOK(t) == NumberOK(t) /\ UnopenedOK(t) /\ RpcOK(t) /\ OpeningOK(t) /\ FlowOK(t)

PayloadOK(t) ==
  /\ Numbered(sent[t], 0)
  /\ t \in Downloads /\ job[t] = "sending" => Numbered(source[t], Len(sent[t]))
  /\ t \in Downloads /\ (job[t] = "opening" \/ t \in pending) => sent[t] = <<>>

\* The temporary file of an upload is what its reader was handed, but for the
\* last chunk while that is written.
ReadingOK(ch, copy, t) ==
  /\ copy.owner = t
  /\ Len(copy.data) \in {Len(ch.got), Len(ch.got) - 1}
  /\ \A k \in 1..Len(copy.data) : copy.data[k] = ch.got[k]
  /\ Len(copy.data) = Len(ch.got) => ch.waiting \/ ch.told # "no"
  /\ Len(copy.data) # Len(ch.got) => ~ch.waiting /\ ch.told = "no"

JobOK(t) ==
  /\ job[t] # "none" => alive
  /\ t \in Downloads => job[t] \in {"none", "opening", "sending", "done"}
  /\ t \in Uploads =>
       /\ job[t] \notin {"opening", "sending"}
       /\ job[t] = "creating" => /\ ~Ch("back", t).waiting /\ Ch("back", t).got = <<>>
                                 /\ Ch("back", t).told = "no"
       /\ job[t] = "reading" => ReadingOK(Ch("back", t), part[t], t)
       /\ job[t] = "renaming" =>
            /\ part[t] = [owner |-> t, data |-> sent[t]] /\ t \in shut
            /\ opts[t].sized => Len(sent[t]) = Chunks

LinkInv == Readers /\ Streams /\ OneOwner /\ Fresh /\ FrontAsks /\ \A t \in Transfers : LinkOK(t)

FileInv == Numbered(target.data, 0) /\ UploadAtomic /\ \A t \in Transfers : PayloadOK(t) /\ JobOK(t)

TransferInv == TransferTypeOK /\ LinkInv /\ FileInv

----------------------------------------------------------------------------
(* A wire that grows by a line, and one that loses its first unit *)

Longer(w, w2, line) ==
  /\ Len(w) \in Nat /\ Len(w2) \in Nat /\ Len(w) < Len(w2)
  /\ \A p \in 1..Len(w) : w2[p] = w[p]
  /\ \A p \in (Len(w) + 1)..Len(w2) : w2[p].line = line
  /\ \A p \in (Len(w) + 1)..Len(w2) : w2[p].at = "newline" => p = Len(w2)
  /\ w2[Len(w2)].at = "newline"
  /\ line.type # "data" => Len(w2) = Len(w) + 1

Shorter(w, w2) ==
  /\ Len(w) \in Nat /\ Len(w2) \in Nat /\ Len(w) = Len(w2) + 1
  /\ \A p \in 1..Len(w2) : w2[p] = w[p + 1]

\* A line on a wire is two units when it is a data frame and one otherwise.
LEMMA EncodeLonger ==
  ASSUME NEW w \in Seq(Units), NEW line \in AllLines
  PROVE  w \o Encode(line) \in Seq(Units) /\ Longer(w, w \o Encode(line), line)
<1> DEFINE a == [line |-> line, at |-> "start"]
           b == [line |-> line, at |-> "newline"]
<1>1. /\ line.type = "data" => a \in Units
      /\ b \in Units /\ a.line = line /\ b.line = line /\ a.at = "start" /\ b.at = "newline"
  BY DEF Units, AllLines, PlainLines, DataFrames
<1> HIDE DEF a, b
<1>2. CASE line.type = "data"
  <2>1. Encode(line) = <<a, b>>
    BY <1>2 DEF Encode, a, b
  <2>2. /\ w \o <<a, b>> \in Seq(Units)
        /\ Len(w \o <<a, b>>) = Len(w) + 2 /\ Len(w) \in Nat
        /\ \A p \in 1..Len(w) : (w \o <<a, b>>)[p] = w[p]
        /\ (w \o <<a, b>>)[Len(w) + 1] = a /\ (w \o <<a, b>>)[Len(w) + 2] = b
    BY <1>1, <1>2
  <2> DEFINE v == w \o <<a, b>>
  <2> HIDE DEF v
  <2>3. Longer(w, v, line)
    BY <1>1, <1>2, <2>2 DEF Longer, v
  <2> QED BY <2>1, <2>2, <2>3 DEF v
<1>3. CASE line.type # "data"
  <2>1. Encode(line) = <<b>>
    BY <1>3 DEF Encode, b
  <2>2. /\ w \o <<b>> \in Seq(Units)
        /\ Len(w \o <<b>>) = Len(w) + 1 /\ Len(w) \in Nat
        /\ \A p \in 1..Len(w) : (w \o <<b>>)[p] = w[p]
        /\ (w \o <<b>>)[Len(w) + 1] = b
    BY <1>1
  <2> DEFINE v == w \o <<b>>
  <2> HIDE DEF v
  <2>3. Longer(w, v, line)
    BY <1>1, <1>3, <2>2 DEF Longer, v
  <2> QED BY <2>1, <2>2, <2>3 DEF v
<1> QED BY <1>2, <1>3

\* A unit taken off a wire is its first one.
LEMMA TailShorter ==
  ASSUME NEW w \in Seq(Units), w # <<>>
  PROVE  /\ Tail(w) \in Seq(Units) /\ Shorter(w, Tail(w))
         /\ Head(w) = w[1] /\ Head(w) \in Units /\ Len(w) \in Nat /\ 1 \in 1..Len(w)
<1>1. /\ Tail(w) \in Seq(Units) /\ Len(w) \in Nat /\ Len(w) >= 1 /\ Len(Tail(w)) = Len(w) - 1
      /\ \A p \in 1..Len(Tail(w)) : Tail(w)[p] = w[p + 1]
      /\ Head(w) = w[1] /\ Head(w) \in Units
  OBVIOUS
<1> QED BY <1>1 DEF Shorter

\* What the lines of id i, and of transfer t, are on such a wire.
LEMMA LongerLines ==
  ASSUME NEW w, NEW w2, NEW line, Longer(w, w2, line), NEW i
  PROVE  /\ ~(line.type # "rpc" /\ line.id = i) /\ Silent(w, i) => Silent(w2, i)
         /\ (line.type = "open" /\ line.id = i => Silent(w, i)) /\ OpensFirst(w, i) => OpensFirst(w2, i)
         /\ (line.type = "rpc" /\ line.id = i => \A p \in 1..Len(w) : ~IsRpc(w, p, i)) /\ RpcOnce(w, i)
              => RpcOnce(w2, i)
         /\ (line.type = "data" /\ line.id = i => ~Ends(w, i)) /\ EndsLast(w, i) => EndsLast(w2, i)
         /\ ~(line.type = "end" /\ line.id = i) /\ ~Ends(w, i) => ~Ends(w2, i)
         /\ Opened(w, i) \/ (line.type = "open" /\ line.id = i) <=> Opened(w2, i)
         /\ Asked(w2, i) => Asked(w, i) \/ (line.type = "rpc" /\ line.id = i)
         /\ Granted(w2, i) => Granted(w, i) \/ (line.type = "rpc" /\ line.id = i /\ line.v # <<>>)
<1>1. /\ Len(w) \in Nat /\ Len(w2) \in Nat /\ Len(w) < Len(w2)
      /\ \A p \in 1..Len(w) : w2[p] = w[p]
      /\ \A p \in 1..Len(w2) : p \in 1..Len(w) \/ w2[p].line = line
      /\ \A p \in 1..Len(w2) : p \notin 1..Len(w) => p > Len(w)
      /\ line.type # "data" => Len(w2) = Len(w) + 1
  BY DEF Longer
<1>2. ~(line.type # "rpc" /\ line.id = i) /\ Silent(w, i) => Silent(w2, i)
  BY <1>1 DEF Silent, FrameOf
<1>3. ASSUME line.type = "open" /\ line.id = i => Silent(w, i), OpensFirst(w, i)
      PROVE  OpensFirst(w2, i)
  <2> SUFFICES ASSUME NEW p \in 1..Len(w2), IsOpen(w2, p, i), NEW q \in 1..(p - 1)
               PROVE  ~FrameOf(w2, q, i)
    BY DEF OpensFirst
  <2>1. CASE p \in 1..Len(w)
    BY <1>1, <1>3, <2>1 DEF OpensFirst, IsOpen, FrameOf
  <2>2. CASE p \notin 1..Len(w)
    <3>1. line.type = "open" /\ line.id = i
      BY <1>1, <2>2 DEF IsOpen
    <3>2. q \in 1..Len(w)
      BY <1>1, <2>2, <3>1
    <3> QED BY <1>1, <1>3, <3>1, <3>2 DEF Silent, FrameOf
  <2> QED BY <2>1, <2>2
<1>4. ASSUME line.type = "rpc" /\ line.id = i => \A p \in 1..Len(w) : ~IsRpc(w, p, i), RpcOnce(w, i)
      PROVE  RpcOnce(w2, i)
  <2> SUFFICES ASSUME NEW p \in 1..Len(w2), NEW q \in 1..Len(w2), IsRpc(w2, p, i), IsRpc(w2, q, i)
               PROVE  p = q
    BY DEF RpcOnce
  <2>1. CASE p \in 1..Len(w) /\ q \in 1..Len(w)
    BY <1>1, <1>4, <2>1 DEF RpcOnce, IsRpc
  <2>2. CASE p \notin 1..Len(w) \/ q \notin 1..Len(w)
    <3>1. line.type = "rpc" /\ line.id = i
      BY <1>1, <2>2 DEF IsRpc
    <3>2. p \notin 1..Len(w) /\ q \notin 1..Len(w)
      BY <1>1, <1>4, <3>1 DEF IsRpc
    <3> QED BY <1>1, <3>1, <3>2
  <2> QED BY <2>1, <2>2
<1>5. ASSUME line.type = "data" /\ line.id = i => ~Ends(w, i), EndsLast(w, i)
      PROVE  EndsLast(w2, i)
  <2> SUFFICES ASSUME NEW p \in 1..Len(w2), NEW q \in 1..Len(w2), IsEnd(w2, p, i), IsData(w2, q, i)
               PROVE  q < p
    BY DEF EndsLast
  <2>1. CASE p \in 1..Len(w) /\ q \in 1..Len(w)
    BY <1>1, <1>5, <2>1 DEF EndsLast, IsEnd, IsData
  <2>2. CASE p \notin 1..Len(w) /\ q \in 1..Len(w)
    BY <1>1, <2>2
  <2>3. CASE q \notin 1..Len(w) /\ p \in 1..Len(w)
    <3>1. line.type = "data" /\ line.id = i
      BY <1>1, <2>3 DEF IsData
    <3>2. Ends(w, i)
      BY <1>1, <2>3 DEF Ends, IsEnd
    <3> QED BY <1>5, <3>1, <3>2
  <2>4. CASE q \notin 1..Len(w) /\ p \notin 1..Len(w)
    BY <1>1, <2>4 DEF IsEnd, IsData
  <2> QED BY <2>1, <2>2, <2>3, <2>4
<1>6. ~(line.type = "end" /\ line.id = i) /\ ~Ends(w, i) => ~Ends(w2, i)
  BY <1>1 DEF Ends, IsEnd
<1>7. Opened(w, i) \/ (line.type = "open" /\ line.id = i) <=> Opened(w2, i)
  <2>1. Len(w2) \in 1..Len(w2) /\ w2[Len(w2)].line = line
    BY <1>1
  <2>2. \A p \in 1..Len(w) : p \in 1..Len(w2)
    BY <1>1
  <2> QED BY <1>1, <2>1, <2>2 DEF Opened, IsOpen
<1>8. Asked(w2, i) => Asked(w, i) \/ (line.type = "rpc" /\ line.id = i)
  BY <1>1 DEF Asked, IsRpc
<1>9. Granted(w2, i) => Granted(w, i) \/ (line.type = "rpc" /\ line.id = i /\ line.v # <<>>)
  BY <1>1 DEF Granted, IsRpc
<1> QED BY <1>2, <1>3, <1>4, <1>5, <1>6, <1>7, <1>8, <1>9

\* What is left of the lines of id i once the first unit is taken off.
LEMMA ShorterLines ==
  ASSUME NEW w, NEW w2, Shorter(w, w2), NEW i
  PROVE  /\ Silent(w, i) => Silent(w2, i)
         /\ OpensFirst(w, i) => OpensFirst(w2, i)
         /\ RpcOnce(w, i) => RpcOnce(w2, i)
         /\ EndsLast(w, i) => EndsLast(w2, i)
         /\ Ends(w2, i) => Ends(w, i)
         /\ Opened(w2, i) => Opened(w, i)
         /\ Opened(w, i) => IsOpen(w, 1, i) \/ Opened(w2, i)
         /\ Opened(w2, i) /\ OpensFirst(w, i) => ~FrameOf(w, 1, i)
         /\ Asked(w2, i) => Asked(w, i)
         /\ Granted(w2, i) => Granted(w, i)
         /\ IsRpc(w, 1, i) => Asked(w, i)
         /\ IsRpc(w, 1, i) /\ w[1].line.v # <<>> => Granted(w, i)
         /\ IsRpc(w, 1, i) /\ RpcOnce(w, i) => ~Asked(w2, i) /\ ~Granted(w2, i)
         /\ FrameOf(w, 1, i) => ~Silent(w, i)
         /\ IsOpen(w, 1, i) => Opened(w, i)
<1>1. /\ Len(w) \in Nat /\ Len(w2) \in Nat /\ Len(w) = Len(w2) + 1
      /\ \A p \in 1..Len(w2) : w2[p] = w[p + 1] /\ p + 1 \in 1..Len(w)
  BY DEF Shorter
<1>2. Silent(w, i) => Silent(w2, i)
  BY <1>1 DEF Silent, FrameOf
<1>3. ASSUME OpensFirst(w, i), NEW p \in 1..Len(w2), IsOpen(w2, p, i), NEW q \in 1..(p - 1)
      PROVE  ~FrameOf(w2, q, i)
  <2>1. IsOpen(w, p + 1, i) /\ p + 1 \in 1..Len(w) /\ q + 1 \in 1..((p + 1) - 1) /\ q \in 1..Len(w2)
    BY <1>1, <1>3 DEF IsOpen
  <2>2. ~FrameOf(w, q + 1, i)
    BY <1>3, <2>1 DEF OpensFirst
  <2> QED BY <1>1, <2>1, <2>2 DEF FrameOf
<1>4. RpcOnce(w, i) => RpcOnce(w2, i)
  BY <1>1 DEF RpcOnce, IsRpc
<1>5. EndsLast(w, i) => EndsLast(w2, i)
  BY <1>1 DEF EndsLast, IsEnd, IsData
<1>6. Ends(w2, i) => Ends(w, i)
  BY <1>1 DEF Ends, IsEnd
<1>7. /\ Opened(w2, i) => Opened(w, i)
      /\ Asked(w2, i) => Asked(w, i)
      /\ Granted(w2, i) => Granted(w, i)
  <2>1. Opened(w2, i) => Opened(w, i)
    BY <1>1 DEF Opened, IsOpen
  <2>2. Asked(w2, i) => Asked(w, i)
    BY <1>1 DEF Asked, IsRpc
  <2>3. Granted(w2, i) => Granted(w, i)
    BY <1>1 DEF Granted, IsRpc
  <2> QED BY <2>1, <2>2, <2>3
<1>8. 1 \in 1..Len(w) /\ \A p \in 1..Len(w) : p # 1 => p - 1 \in 1..Len(w2) /\ (p - 1) + 1 = p
  BY <1>1
<1>9. Opened(w, i) => IsOpen(w, 1, i) \/ Opened(w2, i)
  <2> SUFFICES ASSUME NEW p \in 1..Len(w), IsOpen(w, p, i), p # 1 PROVE Opened(w2, i)
    BY DEF Opened
  <2>1. w2[p - 1] = w[p] /\ p - 1 \in 1..Len(w2)
    BY <1>1, <1>8
  <2> QED BY <2>1 DEF Opened, IsOpen
<1>10. ASSUME Opened(w2, i), OpensFirst(w, i) PROVE ~FrameOf(w, 1, i)
  <2>1. PICK p \in 1..Len(w2) : IsOpen(w2, p, i)
    BY <1>10 DEF Opened
  <2>2. p + 1 \in 1..Len(w) /\ IsOpen(w, p + 1, i) /\ 1 \in 1..((p + 1) - 1)
    BY <1>1, <2>1 DEF IsOpen
  <2> QED BY <1>10, <2>2 DEF OpensFirst
<1>11. /\ IsRpc(w, 1, i) => Asked(w, i)
       /\ IsRpc(w, 1, i) /\ w[1].line.v # <<>> => Granted(w, i)
       /\ FrameOf(w, 1, i) => ~Silent(w, i)
       /\ IsOpen(w, 1, i) => Opened(w, i)
  BY <1>8, Zenon DEF Asked, Granted, Silent, Opened
<1>12. ASSUME IsRpc(w, 1, i), RpcOnce(w, i), NEW p \in 1..Len(w2) PROVE ~IsRpc(w2, p, i)
  <2>1. p + 1 \in 1..Len(w) /\ p + 1 # 1 /\ w2[p] = w[p + 1]
    BY <1>1
  <2> QED BY <1>8, <1>12, <2>1 DEF RpcOnce, IsRpc
<1>13. IsRpc(w, 1, i) /\ RpcOnce(w, i) => ~Asked(w2, i) /\ ~Granted(w2, i)
  BY <1>12, Zenon DEF Asked, Granted
<1> QED BY <1>2, <1>3, <1>4, <1>5, <1>6, <1>7, <1>9, <1>10, <1>11, <1>13, Zenon DEF OpensFirst

----------------------------------------------------------------------------
(* The operations of one channel *)

\* A channel that ends: it ended before, or its end is told to a waiting reader.
LEMMA FinishFacts ==
  ASSUME NEW ch \in Channels, Sound(ch), NEW end \in {"done", "error"}
  PROVE  /\ Finish(ch, end) \in Channels /\ Sound(Finish(ch, end))
         /\ Finish(ch, end).got = ch.got /\ Finish(ch, end).queue = ch.queue
         /\ Finish(ch, end).end = IF ch.end = "open" THEN end ELSE ch.end
         /\ ch.end # "open" => Finish(ch, end) = ch
  BY DEF Finish, Channels, Sound

\* A pull hands out the head of the queue, tells the end, or waits.
LEMMA PullFacts ==
  ASSUME NEW ch \in Channels, Sound(ch), ~ch.waiting, ch.told = "no"
  PROVE  /\ Pull(ch) \in Channels /\ Sound(Pull(ch))
         /\ Pull(ch).end = ch.end
         /\ \/ /\ ch.queue # <<>>
               /\ Pull(ch).queue = Tail(ch.queue) /\ Pull(ch).got = Append(ch.got, Head(ch.queue))
               /\ ~Pull(ch).waiting /\ Pull(ch).told = "no"
            \/ /\ Pull(ch).queue = ch.queue /\ Pull(ch).got = ch.got
               /\ Pull(ch).waiting \/ Pull(ch).told # "no"
<1>1. CASE ch.queue # <<>>
  <2>1. Tail(ch.queue) \in Seq(Payload) /\ Append(ch.got, Head(ch.queue)) \in Seq(Payload)
    BY <1>1 DEF Channels
  <2>2. Pull(ch) = [ch EXCEPT !.queue = Tail(ch.queue), !.got = Append(ch.got, Head(ch.queue))]
    BY <1>1 DEF Pull
  <2>3. /\ Pull(ch) \in Channels
        /\ Pull(ch).queue = Tail(ch.queue) /\ Pull(ch).got = Append(ch.got, Head(ch.queue))
        /\ Pull(ch).end = ch.end /\ Pull(ch).waiting = ch.waiting /\ Pull(ch).told = ch.told
    BY <2>1, <2>2 DEF Channels
  <2> QED BY <1>1, <2>3 DEF Sound
<1>2. CASE ch.queue = <<>> /\ ch.end # "open"
  <2>1. Pull(ch) = [ch EXCEPT !.told = ch.end]
    BY <1>2 DEF Pull
  <2> QED BY <1>2, <2>1 DEF Channels, Sound
<1>3. CASE ch.queue = <<>> /\ ch.end = "open"
  <2>1. Pull(ch) = [ch EXCEPT !.waiting = TRUE]
    BY <1>3 DEF Pull
  <2> QED BY <1>3, <2>1 DEF Channels, Sound
<1> QED BY <1>1, <1>2, <1>3

\* A payload goes to the waiting reader, to the queue, or beyond the budget.
LEMMA DataFacts ==
  ASSUME NEW ch \in Channels, Sound(ch), NEW v \in Payload
  PROVE  /\ Data(ch, v) \in Channels /\ Sound(Data(ch, v))
         /\ ch.end # "open" => Data(ch, v) = ch
         /\ ch.end = "open" =>
              \/ /\ ch.waiting /\ ch.queue = <<>>
                 /\ Data(ch, v).got = Append(ch.got, v) /\ Data(ch, v).queue = ch.queue
                 /\ Data(ch, v).end = "open" /\ ~Data(ch, v).waiting /\ Data(ch, v).told = "no"
              \/ /\ ~ch.waiting
                 /\ Data(ch, v).got = ch.got /\ Data(ch, v).queue = Append(ch.queue, v)
                 /\ Data(ch, v).end = "open" /\ ~Data(ch, v).waiting /\ Data(ch, v).told = ch.told
              \/ /\ ~ch.waiting
                 /\ Data(ch, v).got = ch.got /\ Data(ch, v).queue = ch.queue
                 /\ Data(ch, v).end = "error" /\ ~Data(ch, v).waiting /\ Data(ch, v).told = ch.told
<1>1. CASE ch.end # "open"
  BY <1>1 DEF Data
<1>2. CASE ch.end = "open" /\ ch.waiting
  <2>1. Append(ch.got, v) \in Seq(Payload)
    BY DEF Channels
  <2>2. Data(ch, v) = [ch EXCEPT !.waiting = FALSE, !.got = Append(ch.got, v)]
    BY <1>2 DEF Data
  <2>3. ch.told = "no"
    BY <1>2 DEF Sound, Channels
  <2> QED BY <1>2, <2>1, <2>2, <2>3 DEF Channels, Sound
<1>3. CASE ch.end = "open" /\ ~ch.waiting /\ Overflows(ch)
  <2>1. Data(ch, v) = Finish(ch, "error")
    BY <1>3 DEF Data
  <2>2. Finish(ch, "error") = [ch EXCEPT !.end = "error", !.waiting = FALSE, !.told = ch.told]
    BY <1>3 DEF Finish
  <2>3. ch.told = "no"
    BY <1>3 DEF Sound, Channels
  <2> QED BY <1>3, <2>1, <2>2, <2>3 DEF Channels, Sound
<1>4. CASE ch.end = "open" /\ ~ch.waiting /\ ~Overflows(ch)
  <2>1. Append(ch.queue, v) \in Seq(Payload)
    BY DEF Channels
  <2>2. Data(ch, v) = [ch EXCEPT !.queue = Append(ch.queue, v)]
    BY <1>4 DEF Data
  <2>3. ch.told = "no"
    BY <1>4 DEF Sound, Channels
  <2> QED BY <1>4, <2>1, <2>2, <2>3 DEF Channels, Sound
<1> QED BY <1>1, <1>2, <1>3, <1>4

----------------------------------------------------------------------------
(* The flow from a sender to its reader *)

\* A line that is neither data nor end of the channel is put on the wire.
LEMMA FlowLonger ==
  ASSUME NEW ch, NEW w, NEW w2, NEW i, NEW s, NEW ended, NEW over, NEW own, NEW line,
         Flow(ch, w, i, s, ended, over, own), Longer(w, w2, line),
         ~(line.type \in {"data", "end"} /\ line.id = i)
  PROVE  Flow(ch, w2, i, s, ended, over, own)
<1>1. /\ Len(w) \in Nat /\ Len(w2) \in Nat /\ Len(w) < Len(w2)
      /\ \A p \in 1..Len(w) : w2[p] = w[p] /\ p \in 1..Len(w2)
      /\ \A p \in 1..Len(w2) : p \in 1..Len(w) \/ w2[p].line = line
  BY DEF Longer
<1>2. \A p \in 1..Len(w2) : IsData(w2, p, i) => p \in 1..Len(w) /\ IsData(w, p, i)
  BY <1>1 DEF IsData
<1>3. \A p \in 1..Len(w) : IsData(w, p, i) => IsData(w2, p, i) /\ Number(w2, p) = Number(w, p)
  BY <1>1 DEF IsData, Number
<1>4. ASSUME NEW n, Ahead(w, i, s, n)
      PROVE  Ahead(w2, i, s, n)
  BY <1>1, <1>2, <1>3, <1>4 DEF Ahead
<1>5. (Ends(w2, i) => Ends(w, i)) /\ (EndsLast(w, i) => EndsLast(w2, i))
  BY LongerLines
<1> QED BY <1>4, <1>5, Zenon DEF Flow

\* A unit that is no data of the channel, or any unit of a channel that ended, is taken.
LEMMA FlowShorter ==
  ASSUME NEW ch, NEW w, NEW w2, NEW i, NEW s, NEW ended, NEW over, NEW own,
         Flow(ch, w, i, s, ended, over, own), Shorter(w, w2),
         IsData(w, 1, i) => ch.end # "open"
  PROVE  Flow(ch, w2, i, s, ended, over, own)
<1>1. /\ Len(w) \in Nat /\ Len(w2) \in Nat /\ Len(w) = Len(w2) + 1
      /\ \A p \in 1..Len(w2) : w2[p] = w[p + 1] /\ p + 1 \in 1..Len(w)
      /\ \A p \in 1..Len(w) : p = 1 \/ (p - 1 \in 1..Len(w2) /\ (p - 1) + 1 = p)
  BY DEF Shorter
<1>2. \A p \in 1..Len(w2) : (IsData(w2, p, i) <=> IsData(w, p + 1, i)) /\ Number(w2, p) = Number(w, p + 1)
  BY <1>1 DEF IsData, Number
<1>3. ASSUME NEW n, Ahead(w, i, s, n), ~IsData(w, 1, i)
      PROVE  Ahead(w2, i, s, n)
  <2>1. ASSUME NEW p \in 1..Len(w2), IsData(w2, p, i)
        PROVE  Number(w2, p) \in (n + 1)..Len(s) /\ w2[p].line.v = s[Number(w2, p)]
    BY <1>1, <1>2, <1>3, <2>1 DEF Ahead
  <2>2. ASSUME NEW p \in 1..Len(w2), NEW q \in 1..Len(w2), IsData(w2, p, i), IsData(w2, q, i), p < q
        PROVE  Number(w2, p) < Number(w2, q)
    <3>1. p + 1 < q + 1
      BY <2>2
    <3> QED BY <1>1, <1>2, <1>3, <2>2, <3>1 DEF Ahead
  <2>3. ASSUME NEW k \in (n + 1)..Len(s)
        PROVE  \E p \in 1..Len(w2) : IsData(w2, p, i) /\ Number(w2, p) = k
    <3>1. PICK p \in 1..Len(w) : IsData(w, p, i) /\ Number(w, p) = k
      BY <1>3 DEF Ahead
    <3>2. p - 1 \in 1..Len(w2) /\ (p - 1) + 1 = p
      BY <1>1, <1>3, <3>1
    <3> QED BY <1>2, <3>1, <3>2
  <2> QED BY <2>1, <2>2, <2>3 DEF Ahead
<1>4. (Ends(w2, i) => Ends(w, i)) /\ (EndsLast(w, i) => EndsLast(w2, i))
  BY ShorterLines
<1> QED BY <1>3, <1>4, Zenon DEF Flow

\* What is known of the sender and the stream only grows.
LEMMA FlowKnows ==
  ASSUME NEW ch, NEW w, NEW i, NEW s, NEW ended, NEW over, NEW own,
         NEW ended2, NEW over2, NEW own2,
         Flow(ch, w, i, s, ended, over, own), ended => ended2, over => over2, own => own2
  PROVE  Flow(ch, w, i, s, ended2, over2, own2)
  BY Zenon DEF Flow

\* The same channel contents with another end: nothing is claimed of an ended
\* channel but what its reader has.
SameHeld(ch, ch2) == ch2.got = ch.got /\ ch2.queue = ch.queue

\* A channel fails, or its stream does.
LEMMA FlowFails ==
  ASSUME NEW ch, NEW ch2, NEW w, NEW i, NEW s, NEW ended, NEW over, NEW own,
         Flow(ch, w, i, s, ended, over, own), SameHeld(ch, ch2), ch2.end = "error"
  PROVE  Flow(ch2, w, i, s, ended, over, own)
<1>1. Held(ch2) = Held(ch)
  BY DEF Held, SameHeld
<1> QED BY <1>1, Zenon DEF Flow, SameHeld

\* Its own side closes it.
LEMMA FlowLeft ==
  ASSUME NEW ch, NEW ch2, NEW w, NEW i, NEW s, NEW ended, NEW over, NEW own,
         Flow(ch, w, i, s, ended, over, own), SameHeld(ch, ch2), ch2.end # "open", own
  PROVE  Flow(ch2, w, i, s, ended, over, own)
<1>1. Held(ch2) = Held(ch)
  BY DEF Held, SameHeld
<1> QED BY <1>1, Zenon DEF Flow, SameHeld

\* Nothing is on the wire of a stream that ended.
LEMMA FlowGone ==
  ASSUME NEW ch, NEW w, NEW i, NEW s, NEW ended, NEW over, NEW own, NEW ended2,
         Flow(ch, w, i, s, ended, over, own), ended2
  PROVE  Flow(ch, <<>>, i, s, ended2, over, own)
<1>1. ~Ends(<<>>, i) /\ EndsLast(<<>>, i)
  BY DEF Ends, EndsLast
<1> QED BY <1>1, Zenon DEF Flow

\* The memory of a reader is gone with its process.
LEMMA FlowUnused ==
  ASSUME NEW ch, NEW i, NEW S, NEW s \in Seq(S), NEW over, NEW own, Unused(ch)
  PROVE  Flow(ch, <<>>, i, s, TRUE, over, own)
<1>1. ~Ends(<<>>, i) /\ EndsLast(<<>>, i)
  BY DEF Ends, EndsLast
<1>2. Held(ch) = 0 /\ Len(s) \in Nat /\ Len(ch.got) = 0 /\ Len(ch.queue) = 0 /\ ch.end = "open"
  BY DEF Held, Unused
<1> QED BY <1>1, <1>2 DEF Flow

\* A channel nobody has used yet.
LEMMA FlowStarts ==
  ASSUME NEW ch, NEW w, NEW i, NEW ended, NEW over, NEW own, Unused(ch), Silent(w, i)
  PROVE  Flow(ch, w, i, <<>>, ended, over, own)
<1>1. ~Ends(w, i) /\ EndsLast(w, i)
  BY DEF Ends, EndsLast, Silent, FrameOf, IsEnd, IsData
<1>2. Held(ch) = 0 /\ Len(<<>>) = 0 /\ Len(ch.got) = 0 /\ Len(ch.queue) = 0 /\ ch.end = "open"
  BY DEF Held, Unused
<1>3. Ahead(w, i, <<>>, 0)
  BY <1>2 DEF Ahead, Silent, FrameOf, IsData
<1> QED BY <1>1, <1>2, <1>3 DEF Flow

\* The sender writes one more chunk.
LEMMA FlowWrites ==
  ASSUME NEW ch \in Channels, NEW w, NEW w2, NEW i, NEW s \in Seq(Payload), NEW v \in Payload,
         NEW ended, NEW own, NEW line,
         Flow(ch, w, i, s, ended, FALSE, own), v[2] = Len(s) + 1,
         line.type = "data", line.id = i, line.v = v,
         Longer(w, w2, line) \/ (ended /\ w2 = w)
  PROVE  Flow(ch, w2, i, Append(s, v), ended, FALSE, own)
<1> DEFINE s2 == Append(s, v)
<1>0. Len(ch.got) \in Nat /\ Len(ch.queue) \in Nat /\ Len(s) \in Nat
  BY DEF Channels
<1>a. PICK g \in Nat, m \in Nat, l \in Nat : Len(ch.got) = g /\ Len(ch.queue) = m /\ Len(s) = l
  BY <1>0
<1>b. PICK n \in Nat : n = g + m
  OBVIOUS
<1>c. Held(ch) = n
  BY <1>a, <1>b DEF Held
<1>1. Len(s2) = l + 1 /\ s2[l + 1] = v /\ \A k \in 1..l : s2[k] = s[k]
  BY <1>a
<1> HIDE DEF s2
<1>3. /\ n <= l
      /\ \A k \in 1..g : ch.got[k] = s[k]
      /\ \A k \in 1..m : ch.queue[k] = s[g + k]
      /\ ~Ends(w, i) /\ EndsLast(w, i)
      /\ ~ended /\ ch.end = "open" => Ahead(w, i, s, n)
      /\ ch.end = "done" => own
  BY <1>a, <1>c, Zenon DEF Flow
<1>4. /\ n <= l + 1
      /\ \A k \in 1..g : ch.got[k] = s2[k]
      /\ \A k \in 1..m : ch.queue[k] = s2[g + k]
  <2>1. (\A k \in 1..g : k \in 1..l) /\ (\A k \in 1..m : g + k \in 1..l)
    BY <1>b, <1>3
  <2>2. n <= l + 1
    BY <1>3
  <2> QED BY <1>1, <1>3, <2>1, <2>2, Zenon
<1>5. ~Ends(w2, i) /\ EndsLast(w2, i)
  <2>1. line.type # "end"
    OBVIOUS
  <2> QED BY <1>3, <2>1, LongerLines
<1>6. ASSUME ~ended, Ahead(w, i, s, n)
      PROVE  Ahead(w2, i, s2, n)
  <2>0. /\ \A p \in 1..Len(w) : IsData(w, p, i) =>
              Number(w, p) \in (n + 1)..l /\ w[p].line.v = s[Number(w, p)]
        /\ \A p, q \in 1..Len(w) : IsData(w, p, i) /\ IsData(w, q, i) /\ p < q => Number(w, p) < Number(w, q)
        /\ \A k \in (n + 1)..l : \E p \in 1..Len(w) : IsData(w, p, i) /\ Number(w, p) = k
    BY <1>a, <1>6, Zenon DEF Ahead
  <2>1. /\ Len(w) \in Nat /\ Len(w2) \in Nat /\ Len(w) < Len(w2)
        /\ \A p \in 1..Len(w) : w2[p] = w[p] /\ p \in 1..Len(w2)
        /\ \A p \in 1..Len(w2) : IsData(w2, p, i) => p \in 1..Len(w) \/ p = Len(w2)
        /\ w2[Len(w2)].line = line /\ w2[Len(w2)].at = "newline"
    BY <1>6 DEF Longer, IsData
  <2>2. \A p \in 1..Len(w) : (IsData(w, p, i) <=> IsData(w2, p, i)) /\ Number(w2, p) = Number(w, p)
    BY <2>1 DEF IsData, Number
  <2>3. IsData(w2, Len(w2), i) /\ Number(w2, Len(w2)) = l + 1 /\ w2[Len(w2)].line.v = v
    BY <1>a, <2>1 DEF IsData, Number
  <2>4. ASSUME NEW p \in 1..Len(w2), IsData(w2, p, i)
        PROVE  Number(w2, p) \in (n + 1)..(l + 1) /\ w2[p].line.v = s2[Number(w2, p)]
    <3>1. CASE p \in 1..Len(w)
      <4>1. Number(w, p) \in (n + 1)..l /\ w[p].line.v = s[Number(w, p)]
        BY <2>0, <2>2, <2>4, <3>1
      <4>2. Number(w, p) \in 1..l /\ Number(w, p) \in (n + 1)..(l + 1)
        BY <4>1
      <4> QED BY <1>1, <2>1, <2>2, <3>1, <4>1, <4>2
    <3>2. CASE p = Len(w2)
      <4>1. l + 1 \in (n + 1)..(l + 1)
        BY <1>3
      <4> QED BY <1>1, <2>3, <3>2, <4>1
    <3> QED BY <2>1, <2>4, <3>1, <3>2
  <2>5. ASSUME NEW p \in 1..Len(w2), NEW q \in 1..Len(w2), IsData(w2, p, i), IsData(w2, q, i), p < q
        PROVE  Number(w2, p) < Number(w2, q)
    <3>1. p \in 1..Len(w)
      BY <2>1, <2>5
    <3>2. CASE q \in 1..Len(w)
      BY <2>0, <2>2, <2>5, <3>1, <3>2
    <3>3. CASE q = Len(w2)
      <4>1. Number(w, p) \in (n + 1)..l
        BY <2>0, <2>2, <2>5, <3>1
      <4>2. Number(w, p) < l + 1
        BY <4>1
      <4> QED BY <2>2, <2>3, <3>1, <3>3, <4>2
    <3> QED BY <2>1, <2>5, <3>2, <3>3
  <2>6. ASSUME NEW k \in (n + 1)..(l + 1)
        PROVE  \E p \in 1..Len(w2) : IsData(w2, p, i) /\ Number(w2, p) = k
    <3>1. CASE k = l + 1
      <4>1. Len(w2) \in 1..Len(w2)
        BY <2>1
      <4> QED BY <2>3, <3>1, <4>1
    <3>2. CASE k # l + 1
      <4>1. k \in (n + 1)..l
        BY <3>2
      <4>2. PICK p \in 1..Len(w) : IsData(w, p, i) /\ Number(w, p) = k
        BY <2>0, <4>1
      <4> QED BY <2>1, <2>2, <4>2
    <3> QED BY <3>1, <3>2
  <2> QED BY <1>1, <2>4, <2>5, <2>6, Zenon DEF Ahead
<1> QED BY <1>a, <1>c, <1>1, <1>3, <1>4, <1>5, <1>6, Zenon DEF Flow, s2

\* The sender closes: an end frame behind all data.
LEMMA FlowCloses ==
  ASSUME NEW ch, NEW w, NEW w2, NEW i, NEW s, NEW ended, NEW over, NEW own, NEW line,
         Flow(ch, w, i, s, ended, over, own), line.type = "end", line.id = i,
         Longer(w, w2, line) \/ w2 = w
  PROVE  Flow(ch, w2, i, s, ended, TRUE, own)
<1>1. CASE w2 = w
  BY <1>1, Zenon DEF Flow
<1>2. CASE Longer(w, w2, line)
  <2>1. EndsLast(w2, i)
    <3>1. EndsLast(w, i) /\ line.type # "data"
      BY DEF Flow
    <3> QED BY <1>2, <3>1, LongerLines
  <2>2. /\ Len(w) \in Nat /\ Len(w2) \in Nat /\ Len(w) < Len(w2)
        /\ \A p \in 1..Len(w) : w2[p] = w[p] /\ p \in 1..Len(w2)
        /\ \A p \in 1..Len(w2) : IsData(w2, p, i) => p \in 1..Len(w)
    BY <1>2 DEF Longer, IsData
  <2>3. \A p \in 1..Len(w) : (IsData(w, p, i) <=> IsData(w2, p, i)) /\ Number(w2, p) = Number(w, p)
    BY <2>2 DEF IsData, Number
  <2>4. ASSUME NEW n, Ahead(w, i, s, n)
        PROVE  Ahead(w2, i, s, n)
    BY <2>2, <2>3, <2>4 DEF Ahead
  <2> QED BY <2>1, <2>4, Zenon DEF Flow
<1> QED BY <1>1, <1>2

\* The reader's side handles a data frame of an open channel: it is the next one.
LEMMA FlowReads ==
  ASSUME NEW ch \in Channels, Sound(ch), NEW w, NEW w2, NEW i, NEW s \in Seq(Payload), NEW ended,
         NEW over, NEW own, NEW v \in Payload,
         Flow(ch, w, i, s, ended, over, own), ~ended, ch.end = "open",
         Shorter(w, w2), IsData(w, 1, i), w[1].line.v = v
  PROVE  Flow(Data(ch, v), w2, i, s, ended, over, own)
<1> DEFINE d == Data(ch, v)
<1>0. Len(ch.got) \in Nat /\ Len(ch.queue) \in Nat /\ Len(s) \in Nat
  BY DEF Channels
<1>a. PICK g \in Nat, m \in Nat, l \in Nat : Len(ch.got) = g /\ Len(ch.queue) = m /\ Len(s) = l
  BY <1>0
<1>b. PICK n \in Nat : n = g + m
  OBVIOUS
<1>c. Held(ch) = n
  BY <1>a, <1>b DEF Held
<1>2. /\ \A p \in 1..Len(w) : IsData(w, p, i) =>
            Number(w, p) \in (n + 1)..l /\ w[p].line.v = s[Number(w, p)]
      /\ \A p, q \in 1..Len(w) : IsData(w, p, i) /\ IsData(w, q, i) /\ p < q => Number(w, p) < Number(w, q)
      /\ \A k \in (n + 1)..l : \E p \in 1..Len(w) : IsData(w, p, i) /\ Number(w, p) = k
      /\ n <= l
      /\ \A k \in 1..g : ch.got[k] = s[k]
      /\ \A k \in 1..m : ch.queue[k] = s[g + k]
      /\ Ends(w, i) => over
      /\ EndsLast(w, i)
  BY <1>a, <1>c, Zenon DEF Flow, Ahead
<1>3. /\ Len(w) \in Nat /\ Len(w2) \in Nat /\ Len(w) = Len(w2) + 1 /\ 1 \in 1..Len(w)
      /\ \A p \in 1..Len(w2) : w2[p] = w[p + 1] /\ p + 1 \in 1..Len(w)
      /\ \A p \in 1..Len(w) : p = 1 \/ (p - 1 \in 1..Len(w2) /\ (p - 1) + 1 = p)
  BY DEF Shorter
<1>4. \A p \in 1..Len(w2) : (IsData(w2, p, i) <=> IsData(w, p + 1, i)) /\ Number(w2, p) = Number(w, p + 1)
  BY <1>3 DEF IsData, Number
<1>5. Number(w, 1) \in (n + 1)..l /\ v = s[Number(w, 1)]
  BY <1>2, <1>3
<1>6. Number(w, 1) = n + 1
  <2>1. n + 1 \in (n + 1)..l
    BY <1>5
  <2>2. PICK p \in 1..Len(w) : IsData(w, p, i) /\ Number(w, p) = n + 1
    BY <1>2, <2>1
  <2>3. CASE p = 1
    BY <2>2, <2>3
  <2>4. CASE p # 1
    <3>1. 1 < p
      BY <1>3, <2>4
    <3>2. Number(w, 1) < n + 1
      BY <1>2, <1>3, <2>2, <3>1
    <3> QED BY <1>5, <3>2
  <2> QED BY <2>3, <2>4
<1>7. Ahead(w2, i, s, n + 1)
  <2>1. ASSUME NEW p \in 1..Len(w2), IsData(w2, p, i)
        PROVE  Number(w2, p) \in ((n + 1) + 1)..l /\ w2[p].line.v = s[Number(w2, p)]
    <3>1. IsData(w, p + 1, i) /\ p + 1 \in 1..Len(w) /\ 1 < p + 1
      BY <1>3, <1>4, <2>1
    <3>2. /\ Number(w, p + 1) \in (n + 1)..l /\ w[p + 1].line.v = s[Number(w, p + 1)]
          /\ Number(w, 1) < Number(w, p + 1)
      BY <1>2, <1>3, <3>1
    <3>3. Number(w, p + 1) \in ((n + 1) + 1)..l
      BY <1>6, <3>2
    <3> QED BY <1>3, <1>4, <3>2, <3>3
  <2>2. ASSUME NEW p \in 1..Len(w2), NEW q \in 1..Len(w2), IsData(w2, p, i), IsData(w2, q, i), p < q
        PROVE  Number(w2, p) < Number(w2, q)
    <3>1. p + 1 < q + 1
      BY <2>2
    <3> QED BY <1>2, <1>3, <1>4, <2>2, <3>1
  <2>3. ASSUME NEW k \in ((n + 1) + 1)..l
        PROVE  \E p \in 1..Len(w2) : IsData(w2, p, i) /\ Number(w2, p) = k
    <3>0. k \in (n + 1)..l /\ k # n + 1
      OBVIOUS
    <3>1. PICK p \in 1..Len(w) : IsData(w, p, i) /\ Number(w, p) = k
      BY <1>2, <3>0
    <3>2. p - 1 \in 1..Len(w2) /\ (p - 1) + 1 = p
      BY <1>3, <1>6, <3>0, <3>1
    <3> QED BY <1>4, <3>1, <3>2
  <2> QED BY <1>a, <2>1, <2>2, <2>3, Zenon DEF Ahead
<1>8. (Ends(w2, i) => over) /\ EndsLast(w2, i)
  BY <1>2, ShorterLines
<1>9. n + 1 <= l /\ v = s[n + 1]
  BY <1>5, <1>6
<1>10. CASE ch.queue = <<>> /\ d.got = Append(ch.got, v) /\ d.queue = ch.queue /\ d.end = "open"
  <2>0. m = 0 /\ ch.got \in Seq(Payload)
    BY <1>a, <1>10 DEF Channels
  <2>1. /\ Len(d.got) = g + 1 /\ Len(d.queue) = 0 /\ n = g
        /\ \A k \in 1..g : d.got[k] = ch.got[k]
        /\ d.got[g + 1] = v
    BY <1>a, <1>b, <1>10, <2>0
  <2>2. Held(d) = n + 1
    BY <2>1 DEF Held
  <2>3. \A k \in 1..(g + 1) : d.got[k] = s[k]
    BY <1>2, <1>9, <2>1
  <2>4. \A k \in 1..0 : d.queue[k] = s[(g + 1) + k]
    OBVIOUS
  <2> QED BY <1>a, <1>7, <1>8, <1>9, <1>10, <2>1, <2>2, <2>3, <2>4, Zenon DEF Flow
<1>11. CASE d.got = ch.got /\ d.queue = Append(ch.queue, v) /\ d.end = "open"
  <2>0. ch.queue \in Seq(Payload)
    BY DEF Channels
  <2>1. /\ Len(d.queue) = m + 1
        /\ \A k \in 1..m : d.queue[k] = ch.queue[k]
        /\ d.queue[m + 1] = v
    BY <1>a, <1>11, <2>0
  <2>3. g + (m + 1) = n + 1
    BY <1>b
  <2>2. Held(d) = n + 1
    BY <1>a, <1>11, <2>1, <2>3, Zenon DEF Held
  <2>4. \A k \in 1..(m + 1) : d.queue[k] = s[g + k]
    <3>1. \A k \in 1..(m + 1) : k \in 1..m \/ k = m + 1
      OBVIOUS
    <3>2. d.queue[m + 1] = s[g + (m + 1)]
      BY <1>9, <2>1, <2>3
    <3>3. \A k \in 1..m : d.queue[k] = s[g + k]
      BY <1>2, <2>1
    <3> QED BY <3>1, <3>2, <3>3
  <2> QED BY <1>a, <1>2, <1>7, <1>8, <1>9, <1>11, <2>1, <2>2, <2>4, Zenon DEF Flow
<1>12. CASE d.got = ch.got /\ d.queue = ch.queue /\ d.end = "error"
  <2>1. Held(d) = n
    BY <1>c, <1>12 DEF Held
  <2> QED BY <1>a, <1>2, <1>8, <1>12, <2>1 DEF Flow
<1> HIDE DEF d
<1> QED BY <1>10, <1>11, <1>12, DataFacts DEF d

\* It handles the end frame of an open channel: every chunk was read before.
LEMMA FlowEnds ==
  ASSUME NEW ch \in Channels, Sound(ch), NEW w, NEW w2, NEW i, NEW s \in Seq(Payload), NEW ended,
         NEW over, NEW own,
         Flow(ch, w, i, s, ended, over, own), ~ended, ch.end = "open",
         Shorter(w, w2), IsEnd(w, 1, i)
  PROVE  Flow(Finish(ch, "done"), w2, i, s, ended, over, own)
<1> DEFINE d == Finish(ch, "done")
<1>0. Len(ch.got) \in Nat /\ Len(ch.queue) \in Nat /\ Len(s) \in Nat
  BY DEF Channels
<1>a. PICK g \in Nat, m \in Nat, l \in Nat : Len(ch.got) = g /\ Len(ch.queue) = m /\ Len(s) = l
  BY <1>0
<1>b. PICK n \in Nat : n = g + m
  OBVIOUS
<1>c. Held(ch) = n
  BY <1>a, <1>b DEF Held
<1>1. d.got = ch.got /\ d.queue = ch.queue /\ d.end = "done"
  BY FinishFacts
<1> HIDE DEF d
<1>2. Held(d) = n
  BY <1>c, <1>1 DEF Held
<1>3. /\ \A k \in (n + 1)..l : \E p \in 1..Len(w) : IsData(w, p, i) /\ Number(w, p) = k
      /\ n <= l
      /\ \A k \in 1..Len(ch.got) : ch.got[k] = s[k]
      /\ \A k \in 1..Len(ch.queue) : ch.queue[k] = s[Len(ch.got) + k]
      /\ Ends(w, i) => over
      /\ EndsLast(w, i)
  BY <1>a, <1>c, Zenon DEF Flow, Ahead
<1>4. Len(w) \in Nat /\ 1 \in 1..Len(w)
  BY DEF Shorter
<1>5. over
  BY <1>3, <1>4 DEF Ends
<1>6. \A p \in 1..Len(w) : ~IsData(w, p, i)
  <2>1. \A p \in 1..Len(w) : ~(p < 1)
    OBVIOUS
  <2> QED BY <1>3, <1>4, <2>1 DEF EndsLast
<1>7. n = l
  <2>1. n + 1 \notin (n + 1)..l
    BY <1>3, <1>6
  <2> QED BY <1>3, <2>1
<1>8. EndsLast(w2, i)
  BY <1>3, ShorterLines
<1>9. Held(d) <= Len(s) /\ Held(d) = Len(s)
  BY <1>a, <1>2, <1>7
<1> QED BY <1>1, <1>3, <1>5, <1>8, <1>9 DEF Flow, d

\* The reader takes the next chunk out of its queue.
LEMMA FlowPulls ==
  ASSUME NEW ch \in Channels, Sound(ch), ~ch.waiting, ch.told = "no", NEW w, NEW i, NEW s \in Seq(Payload),
         NEW ended, NEW over, NEW own, Flow(ch, w, i, s, ended, over, own)
  PROVE  Flow(Pull(ch), w, i, s, ended, over, own)
<1> DEFINE d == Pull(ch)
<1>0. Len(ch.got) \in Nat /\ Len(ch.queue) \in Nat /\ Len(s) \in Nat
  BY DEF Channels
<1>1. d.end = ch.end /\ (\/ ch.queue # <<>> /\ d.queue = Tail(ch.queue) /\ d.got = Append(ch.got, Head(ch.queue))
                         \/ d.queue = ch.queue /\ d.got = ch.got)
  BY PullFacts
<1> HIDE DEF d
<1>2. CASE d.queue = ch.queue /\ d.got = ch.got
  <2>1. Held(d) = Held(ch)
    BY <1>2 DEF Held
  <2> QED BY <1>1, <1>2, <2>1, Zenon DEF Flow, d
<1>3. CASE ch.queue # <<>> /\ d.queue = Tail(ch.queue) /\ d.got = Append(ch.got, Head(ch.queue))
  <2>a. PICK g \in Nat, m \in Nat, l \in Nat : Len(ch.got) = g /\ Len(ch.queue) = m /\ Len(s) = l
    BY <1>0
  <2>0. ch.queue \in Seq(Payload) /\ ch.got \in Seq(Payload)
    BY DEF Channels
  <2>1. /\ m >= 1 /\ Len(d.got) = g + 1 /\ Len(d.queue) = m - 1
        /\ \A k \in 1..g : d.got[k] = ch.got[k]
        /\ d.got[g + 1] = ch.queue[1]
        /\ \A k \in 1..(m - 1) : d.queue[k] = ch.queue[k + 1]
    <3>1. PICK q, h : q = ch.queue /\ h = ch.got
      OBVIOUS
    <3>2. m >= 1 /\ Head(q) = q[1] /\ Len(Tail(q)) = m - 1 /\ \A k \in 1..(m - 1) : Tail(q)[k] = q[k + 1]
      BY <1>3, <2>a, <2>0, <3>1
    <3>3. \A v : /\ Len(Append(h, v)) = g + 1 /\ Append(h, v)[g + 1] = v
                 /\ \A k \in 1..g : Append(h, v)[k] = h[k]
      BY <2>a, <2>0, <3>1
    <3> QED BY <1>3, <3>1, <3>2, <3>3
  <2>2. Held(d) = Held(ch)
    <3>1. (g + 1) + (m - 1) = g + m
      OBVIOUS
    <3> QED BY <2>a, <2>1, <3>1, Zenon DEF Held
  <2>3. (\A k \in 1..g : ch.got[k] = s[k]) /\ (\A k \in 1..m : ch.queue[k] = s[g + k])
    BY <2>a, Zenon DEF Flow
  <2>4. \A k \in 1..(g + 1) : d.got[k] = s[k]
    <3>1. ch.queue[1] = s[g + 1]
      BY <2>1, <2>3
    <3> QED BY <2>1, <2>3, <3>1
  <2>5. \A k \in 1..(m - 1) : d.queue[k] = s[(g + 1) + k]
    <3>1. \A k \in 1..(m - 1) : k + 1 \in 1..m /\ g + (k + 1) = (g + 1) + k
      OBVIOUS
    <3> QED BY <2>1, <2>3, <3>1
  <2> QED BY <1>1, <2>1, <2>2, <2>4, <2>5, Zenon DEF Flow, d
<1> QED BY <1>1, <1>2, <1>3

----------------------------------------------------------------------------
(* The operations of one end of the stream *)

\* A new channel is the one untouched record.
LEMMA NewChannelFacts ==
  /\ NewChannel \in Channels /\ Sound(NewChannel) /\ Unused(NewChannel)
  /\ \A ch \in Channels : Unused(ch) => ch = NewChannel
<1>1. NewChannel \in Channels
  BY DEF NewChannel, Channels
<1>2. Sound(NewChannel) /\ Unused(NewChannel)
  BY DEF NewChannel, Sound, Unused
<1>3. ASSUME NEW ch \in Channels, Unused(ch) PROVE ch = NewChannel
  <2>1. ch.waiting = FALSE
    BY <1>3, Zenon DEF Channels, Unused
  <2>2. ch = [end |-> ch.end, queue |-> ch.queue, waiting |-> ch.waiting, got |-> ch.got, told |-> ch.told]
    BY DEF Channels
  <2> QED BY <1>3, <2>1, <2>2 DEF Unused, NewChannel
<1> QED BY <1>1, <1>2, <1>3

\* The record of a channel that was closed at once.
LEMMA UnknownFacts ==
  LET e == [NewChannel EXCEPT !.end = "done"] IN e \in Channels /\ Sound(e)
<1> DEFINE e == [NewChannel EXCEPT !.end = "done"]
<1>1. /\ e \in Channels /\ e.end = "done" /\ e.queue = NewChannel.queue
      /\ e.waiting = NewChannel.waiting /\ e.told = NewChannel.told
  BY NewChannelFacts DEF Channels
<1>2. e \in Channels
  BY <1>1
<1>3. Sound(e)
  BY <1>1, NewChannelFacts DEF Sound, Unused
<1> QED BY <1>2, <1>3 DEF e

\* A mux after the map entries of some ended channels were deleted.
Pruned(m, m2) ==
  /\ m2 \in Muxes /\ m2.ch = m.ch /\ m2.ended = m.ended
  /\ \A j \in Ids : (j \in m2.open => j \in m.open) /\ (j \in m.open /\ m.ch[j].end = "open" => j \in m2.open)

\* The three parts of one end of the stream.
LEMMA MuxParts ==
  ASSUME NEW m \in Muxes
  PROVE  /\ m.open \subseteq Ids /\ m.ch \in [Ids -> Channels] /\ m.ended \in BOOLEAN
         /\ m = [open |-> m.open, ch |-> m.ch, ended |-> m.ended]
  BY DEF Muxes

\* Reap deletes the map entries of ended channels and nothing else.
LEMMA ReapFacts ==
  ASSUME NEW m \in Muxes
  PROVE  Pruned(m, m) /\ Pruned(m, Reap(m)) /\ Reap(m).open = {j \in m.open : m.ch[j].end = "open"}
<1>1. Reap(m) = [m EXCEPT !.open = {j \in m.open : m.ch[j].end = "open"}]
  BY DEF Reap
<1>2. {j \in m.open : m.ch[j].end = "open"} \subseteq Ids
  BY MuxParts
<1>3. /\ Reap(m) \in Muxes /\ Reap(m).ch = m.ch /\ Reap(m).ended = m.ended
      /\ Reap(m).open = {j \in m.open : m.ch[j].end = "open"}
  BY <1>1, <1>2 DEF Muxes
<1> QED BY <1>3 DEF Pruned

\* A created channel is new and in the map.
LEMMA CreateFacts ==
  ASSUME NEW m \in Muxes, NEW i \in Ids
  PROVE  /\ Create(m, i) \in Muxes /\ Create(m, i).open = m.open \union {i}
         /\ Create(m, i).ch = [m.ch EXCEPT ![i] = NewChannel] /\ Create(m, i).ended = m.ended
<1>1. Create(m, i) = [m EXCEPT !.open = m.open \union {i}, !.ch = [m.ch EXCEPT ![i] = NewChannel]]
  BY MuxParts DEF Create
<1>2. m.open \union {i} \subseteq Ids /\ [m.ch EXCEPT ![i] = NewChannel] \in [Ids -> Channels]
  BY MuxParts, NewChannelFacts
<1> QED BY <1>1, <1>2 DEF Muxes

\* All channels of a mux are sound.
AllSound(m) == \A j \in Ids : Sound(m.ch[j])

\* One channel of a mux replaced.
LEMMA PutFacts ==
  ASSUME NEW m \in Muxes, NEW i \in Ids, NEW ch \in Channels
  PROVE  LET m2 == [m EXCEPT !.ch[i] = ch]
         IN  /\ m2 \in Muxes /\ m2.open = m.open /\ m2.ended = m.ended /\ m2.ch[i] = ch
             /\ \A j \in Ids : j # i => m2.ch[j] = m.ch[j]
<1> DEFINE m2 == [m EXCEPT !.ch[i] = ch]
<1>1. m2 = [m EXCEPT !.ch = [m.ch EXCEPT ![i] = ch]]
  BY MuxParts
<1>2. [m.ch EXCEPT ![i] = ch] \in [Ids -> Channels]
  BY MuxParts
<1>3. m2 \in Muxes /\ m2.open = m.open /\ m2.ended = m.ended /\ m2.ch = [m.ch EXCEPT ![i] = ch]
  BY <1>1, <1>2 DEF Muxes
<1> HIDE DEF m2
<1>4. m2.ch[i] = ch /\ \A j \in Ids : j # i => m2.ch[j] = m.ch[j]
  BY <1>3, MuxParts
<1> QED BY <1>3, <1>4 DEF m2

\* close() ends the channel cleanly, takes it out of the map, and touches
\* no other channel.
LEMMA ClosedFacts ==
  ASSUME NEW m \in Muxes, AllSound(m), NEW i \in Ids
  PROVE  LET m2 == Closed(m, i)
         IN  /\ m2 \in Muxes /\ m2.ended = m.ended /\ m2.ch[i] = Finish(m.ch[i], "done")
             /\ \A j \in Ids : j # i => m2.ch[j] = m.ch[j]
             /\ \A j \in Ids : (j \in m2.open => j \in m.open) /\ (j \in m.open /\ m2.ch[j].end = "open" => j \in m2.open)
             /\ i \notin m2.open
<1> DEFINE ch == Finish(m.ch[i], "done")
           m1 == [m EXCEPT !.ch[i] = ch]
<1>1. ch \in Channels /\ ch.end # "open"
  BY MuxParts, FinishFacts DEF AllSound, Channels
<1>2. Closed(m, i) = Reap(m1)
  BY DEF Closed
<1> HIDE DEF ch
<1>3. /\ m1 \in Muxes /\ m1.open = m.open /\ m1.ended = m.ended /\ m1.ch[i] = ch
      /\ \A j \in Ids : j # i => m1.ch[j] = m.ch[j]
  BY <1>1, PutFacts
<1> HIDE DEF m1
<1>4. Pruned(m1, Reap(m1)) /\ Reap(m1).open = {j \in m1.open : m1.ch[j].end = "open"}
  BY <1>3, ReapFacts
<1> QED BY <1>1, <1>2, <1>3, <1>4 DEF Pruned, ch

\* The teardown fails the channels in the map and empties it.
LEMMA TeardownFacts ==
  ASSUME NEW m \in Muxes, AllSound(m)
  PROVE  LET m2 == Teardown(m)
         IN  /\ m2 \in Muxes /\ m2.ended = TRUE /\ m2.open = {} /\ AllSound(m2)
             /\ \A j \in Ids : m2.ch[j] = IF j \in m.open THEN Finish(m.ch[j], "error") ELSE m.ch[j]
<1> DEFINE f == [j \in Ids |-> IF j \in m.open THEN Finish(m.ch[j], "error") ELSE m.ch[j]]
<1>1. Teardown(m) = [m EXCEPT !.ch = f, !.open = {}, !.ended = TRUE]
  BY DEF Teardown
<1>2. ASSUME NEW j \in Ids PROVE f[j] \in Channels /\ Sound(f[j])
  BY MuxParts, FinishFacts DEF AllSound
<1>3. f \in [Ids -> Channels]
  BY <1>2
<1>4. \A j \in Ids : f[j] = IF j \in m.open THEN Finish(m.ch[j], "error") ELSE m.ch[j]
  OBVIOUS
<1> HIDE DEF f
<1>5. Teardown(m) \in Muxes /\ Teardown(m).ended = TRUE /\ Teardown(m).open = {} /\ Teardown(m).ch = f
  BY <1>1, <1>3 DEF Muxes
<1> QED BY <1>2, <1>4, <1>5 DEF AllSound

\* What handleLine does to the channels.
LEMMA LineFacts ==
  ASSUME NEW m \in Muxes, AllSound(m), NEW names, NEW line \in AllLines, line.type # "rpc",
         NEW n, n = HandleLine(m, names, line), NEW h, h = line.id
  PROVE  /\ h \in Ids /\ n \in Muxes /\ AllSound(n) /\ n.ended = m.ended
         /\ \A j \in Ids : j # h => n.ch[j] = m.ch[j] /\ (j \in n.open <=> j \in m.open)
         /\ h \in m.open => h \in n.open
         /\ line.type = "open" /\ h \in m.open => n = m
         /\ line.type = "open" /\ h \in names /\ h \notin m.open => h \in n.open /\ n.ch[h] = NewChannel
         /\ line.type # "open" /\ h \notin m.open => n = m
         /\ line.type = "data" /\ h \in m.open => line.v \in Payload /\ n.ch[h] = Data(m.ch[h], line.v)
         /\ line.type = "end" /\ h \in m.open => n.ch[h] = Finish(m.ch[h], "done")
         /\ line.type = "error" /\ h \in m.open => n.ch[h] = Finish(m.ch[h], "error")
         /\ line.type \in {"open", "data", "end", "error"}
<1>0. h \in Ids /\ line.type \in {"open", "data", "end", "error"} /\ (line.type = "data" => line.v \in Payload)
  BY DEF AllLines, DataFrames, PlainLines
<1>a. m.ch[h] \in Channels /\ Sound(m.ch[h])
  BY <1>0, MuxParts DEF AllSound
<1>1. ASSUME NEW ch \in Channels, Sound(ch), n = [m EXCEPT !.ch[h] = ch]
      PROVE  /\ n \in Muxes /\ AllSound(n) /\ n.ended = m.ended /\ n.ch[h] = ch
             /\ \A j \in Ids : j # h => n.ch[j] = m.ch[j] /\ (j \in n.open <=> j \in m.open)
             /\ h \in m.open => h \in n.open
  <2>1. /\ n \in Muxes /\ n.open = m.open /\ n.ended = m.ended /\ n.ch[h] = ch
        /\ \A j \in Ids : j # h => n.ch[j] = m.ch[j]
    BY <1>0, <1>1, PutFacts
  <2>2. AllSound(n)
    BY <1>1, <2>1 DEF AllSound
  <2> QED BY <2>1, <2>2
<1>2. CASE line.type = "open"
  <2>1. n = HandleOpen(m, names, h)
    BY <1>2 DEF HandleLine
  <2>2. CASE h \in m.open
    BY <1>0, <1>2, <2>1, <2>2 DEF HandleOpen
  <2>3. CASE h \notin m.open
    <3> DEFINE c == Create(m, h)
    <3>1. c \in Muxes /\ c.open = m.open \union {h} /\ c.ch = [m.ch EXCEPT ![h] = NewChannel] /\ c.ended = m.ended
      BY <1>0, CreateFacts
    <3> HIDE DEF c
    <3>2. c.ch[h] = NewChannel /\ \A j \in Ids : j # h => c.ch[j] = m.ch[j]
      BY <1>0, <3>1, MuxParts
    <3>3. AllSound(c)
      BY <3>2, NewChannelFacts DEF AllSound
    <3>4. CASE h \in names
      <4>1. n = c
        BY <2>1, <2>3, <3>4, Zenon DEF HandleOpen, c
      <4> QED BY <1>0, <1>2, <2>3, <3>1, <3>2, <3>3, <3>4, <4>1
    <3>5. CASE h \notin names
      <4>1. n = [c EXCEPT !.ch[h].end = "done"]
        BY <2>1, <2>3, <3>5, Zenon DEF HandleOpen, c
      <4> DEFINE e == [NewChannel EXCEPT !.end = "done"]
      <4>2. e \in Channels /\ Sound(e)
        BY UnknownFacts
      <4>3. n = [c EXCEPT !.ch[h] = e]
        BY <1>0, <3>1, <3>2, <4>1, MuxParts
      <4> HIDE DEF e
      <4>4. /\ n \in Muxes /\ n.open = c.open /\ n.ended = c.ended /\ n.ch[h] = e
            /\ \A j \in Ids : j # h => n.ch[j] = c.ch[j]
        <5>1. c \in Muxes /\ h \in Ids /\ e \in Channels
          BY <1>0, <3>1, <4>2
        <5> QED BY <4>3, <5>1, PutFacts
      <4>5. AllSound(n)
        BY <3>3, <4>2, <4>4 DEF AllSound
      <4> QED BY <1>0, <1>2, <2>3, <3>1, <3>2, <3>5, <4>4, <4>5
    <3> QED BY <3>4, <3>5
  <2> QED BY <2>2, <2>3
<1>3. CASE line.type # "open" /\ h \notin m.open
  <2>1. n = m
    BY <1>0, <1>3 DEF HandleLine, HandleData, HandleEnd
  <2> QED BY <1>0, <1>3, <2>1
<1>4. CASE line.type = "data" /\ h \in m.open
  <2>1. n = [m EXCEPT !.ch[h] = Data(m.ch[h], line.v)]
    BY <1>4 DEF HandleLine, HandleData
  <2>2. Data(m.ch[h], line.v) \in Channels /\ Sound(Data(m.ch[h], line.v))
    BY <1>0, <1>a, <1>4, DataFacts
  <2> QED BY <1>0, <1>1, <1>4, <2>1, <2>2
<1>5. CASE line.type = "end" /\ h \in m.open
  <2>1. n = [m EXCEPT !.ch[h] = Finish(m.ch[h], "done")]
    BY <1>5 DEF HandleLine, HandleEnd
  <2>2. Finish(m.ch[h], "done") \in Channels /\ Sound(Finish(m.ch[h], "done"))
    BY <1>a, FinishFacts
  <2> QED BY <1>0, <1>1, <1>5, <2>1, <2>2
<1>6. CASE line.type = "error" /\ h \in m.open
  <2>1. n = [m EXCEPT !.ch[h] = Finish(m.ch[h], "error")]
    BY <1>6 DEF HandleLine, HandleEnd
  <2>2. Finish(m.ch[h], "error") \in Channels /\ Sound(Finish(m.ch[h], "error"))
    BY <1>a, FinishFacts
  <2> QED BY <1>0, <1>1, <1>6, <2>1, <2>2
<1> QED BY <1>0, <1>2, <1>3, <1>4, <1>5, <1>6

----------------------------------------------------------------------------
(* What a step leaves alone *)

\* The stream has two ends.
LEMMA SideFacts == "front" \in Sides /\ "back" \in Sides /\ Other("front") = "back" /\ Other("back") = "front"
                   /\ (\A s \in Sides : Other(s) \in Sides /\ Other(s) # s)
                   /\ (\A s, r \in Sides : r # s => r = Other(s))
                   /\ (\A t : Reader(t) \in Sides)
                   /\ Sides = {"front", "back"}
  BY DEF Sides, Other, Reader

\* out.send puts the line on the wire to the other side, or loses it.
LEMMA SentFacts ==
  ASSUME TransferTypeOK, NEW s \in Sides, NEW line \in AllLines
  PROVE  /\ Sent(s, line) \in [Sides -> Seq(Units)] /\ Sent(s, line)[s] = wire[s]
         /\ mux[Other(s)].ended => Sent(s, line) = wire
         /\ ~mux[Other(s)].ended => Longer(wire[Other(s)], Sent(s, line)[Other(s)], line)
<1> DEFINE o == Other(s)
           w == wire[o] \o Encode(line)
<1>1. o \in Sides /\ o # s /\ wire \in [Sides -> Seq(Units)] /\ wire[o] \in Seq(Units)
  BY SideFacts DEF TransferTypeOK
<1>2. w \in Seq(Units) /\ Longer(wire[o], w, line)
  BY <1>1, EncodeLonger
<1>3. CASE mux[o].ended
  BY <1>1, <1>3 DEF Sent
<1>4. CASE ~mux[o].ended
  <2>1. Sent(s, line) = [wire EXCEPT ![o] = w]
    BY <1>4 DEF Sent
  <2> HIDE DEF w, o
  <2> QED BY <1>1, <1>2, <1>4, <2>1 DEF o
<1> QED BY <1>3, <1>4

\* No line of transfer u's call, and none of channel i, is put on the wire;
\* what is taken off it is not the opening or the data of channel i.
RpcQuiet(w, w2, u) ==
  \/ w2 = w
  \/ \E line : Longer(w, w2, line) /\ ~(line.type = "rpc" /\ line.id = u)
  \/ Shorter(w, w2)

FrameQuiet(w, w2, i) ==
  \/ w2 = w
  \/ \E line : Longer(w, w2, line) /\ ~(line.type # "rpc" /\ line.id = i)
  \/ Shorter(w, w2) /\ ~IsOpen(w, 1, i) /\ ~IsData(w, 1, i)

\* The line of a call stays one line, and none appears.
LEMMA RpcQuietKeeps ==
  ASSUME NEW w, NEW w2, NEW u, RpcQuiet(w, w2, u)
  PROVE  /\ RpcOnce(w, u) => RpcOnce(w2, u)
         /\ Asked(w2, u) => Asked(w, u)
         /\ Granted(w2, u) => Granted(w, u)
<1>1. CASE w2 = w
  BY <1>1
<1>2. ASSUME NEW line, Longer(w, w2, line), ~(line.type = "rpc" /\ line.id = u)
      PROVE  /\ RpcOnce(w, u) => RpcOnce(w2, u)
             /\ Asked(w2, u) => Asked(w, u)
             /\ Granted(w2, u) => Granted(w, u)
  BY <1>2, LongerLines
<1>3. CASE Shorter(w, w2)
  BY <1>3, ShorterLines, Zenon
<1> QED BY <1>1, <1>2, <1>3, Zenon DEF RpcQuiet

\* What is known of the frames of channel i stays known.
LEMMA FrameQuietKeeps ==
  ASSUME NEW w, NEW w2, NEW i, FrameQuiet(w, w2, i)
  PROVE  /\ Silent(w, i) => Silent(w2, i)
         /\ OpensFirst(w, i) => OpensFirst(w2, i)
         /\ Opened(w, i) <=> Opened(w2, i)
         /\ \A ch, s, ended, over, own : Flow(ch, w, i, s, ended, over, own) => Flow(ch, w2, i, s, ended, over, own)
<1>1. CASE w2 = w
  BY <1>1
<1>2. ASSUME NEW line, Longer(w, w2, line), ~(line.type # "rpc" /\ line.id = i)
      PROVE  /\ Silent(w, i) => Silent(w2, i)
             /\ OpensFirst(w, i) => OpensFirst(w2, i)
             /\ Opened(w, i) <=> Opened(w2, i)
             /\ \A ch, s, ended, over, own : Flow(ch, w, i, s, ended, over, own) => Flow(ch, w2, i, s, ended, over, own)
  <2>1. /\ ~(line.type = "open" /\ line.id = i)
        /\ ~(line.type \in {"data", "end"} /\ line.id = i)
    BY <1>2
  <2>2. /\ Silent(w, i) => Silent(w2, i)
        /\ OpensFirst(w, i) => OpensFirst(w2, i)
        /\ Opened(w, i) <=> Opened(w2, i)
    BY <1>2, <2>1, LongerLines
  <2>3. \A ch, s, ended, over, own : Flow(ch, w, i, s, ended, over, own) => Flow(ch, w2, i, s, ended, over, own)
    BY <1>2, <2>1, FlowLonger, Zenon
  <2> QED BY <2>2, <2>3
<1>3. CASE Shorter(w, w2) /\ ~IsOpen(w, 1, i) /\ ~IsData(w, 1, i)
  <2>2. /\ Silent(w, i) => Silent(w2, i)
        /\ OpensFirst(w, i) => OpensFirst(w2, i)
        /\ Opened(w, i) <=> Opened(w2, i)
    BY <1>3, ShorterLines, Zenon
  <2>3. \A ch, s, ended, over, own : Flow(ch, w, i, s, ended, over, own) => Flow(ch, w2, i, s, ended, over, own)
    BY <1>3, FlowShorter, Zenon
  <2> QED BY <2>2, <2>3
<1> QED BY <1>1, <1>2, <1>3, Zenon DEF FrameQuiet

\* Nothing happens to channel i.
IdAside(i) ==
  \A s \in Sides :
    /\ FrameQuiet(wire[s], wire'[s], i)
    /\ mux'[s].ch[i] = mux[s].ch[i]
    /\ i \in mux'[s].open => i \in mux[s].open
    /\ i \in mux[s].open /\ mux[s].ch[i].end = "open" => i \in mux'[s].open

\* Nothing happens to transfer u, but that its call is answered or a job of
\* its own moves on.
Calm(u) ==
  /\ chan'[u] = chan[u] /\ sent'[u] = sent[u] /\ (call'[u] = "open" <=> call[u] = "open")
  /\ (u \in shut' <=> u \in shut) /\ (u \in pending' <=> u \in pending)
  /\ job'[u] = job[u] \/ (job[u] \notin {"none", "done"} /\ job'[u] # "none")
  /\ chan[u] # 0 => IdAside(chan[u])

Aside(u) == Calm(u) /\ call'[u] = call[u] /\ \A s \in Sides : RpcQuiet(wire[s], wire'[s], u)

\* The streams and the process as they were; ids are only counted on.
Steady == next' \in Nat /\ next' >= next /\ alive' = alive /\ \A s \in Sides : mux'[s].ended = mux[s].ended

\* An id nobody used is still unused.
LEMMA UntouchedStays ==
  ASSUME NEW i, IdAside(i), Untouched(i)
  PROVE  Untouched(i)'
  BY FrameQuietKeeps DEF IdAside, Untouched

\* Channel ids are numbers.
LEMMA NatFacts ==
  ASSUME TransferTypeOK
  PROVE  Ids \subseteq Nat /\ next \in Nat /\ 0 < next /\ \A t \in Transfers : chan[t] \in Nat
<1>1. Ids \subseteq Nat /\ next \in Nat /\ 0 < next
  BY MuxAssumption DEF TransferTypeOK
<1>2. ASSUME NEW t \in Transfers PROVE chan[t] \in Nat
  <2>1. chan[t] \in Ids \union {0}
    BY DEF TransferTypeOK
  <2>2. CASE chan[t] = 0
    BY <2>2
  <2>3. CASE chan[t] \in Ids
    BY <1>1, <2>3, Zenon
  <2> QED BY <2>1, <2>2, <2>3, Zenon
<1> QED BY <1>1, <1>2

\* What the two ends and the frames say about such a transfer.
LEMMA CalmKeeps ==
  ASSUME TransferTypeOK, NEW u \in Transfers, LinkOK(u), Calm(u), Steady
  PROVE  UnopenedOK(u)' /\ OpeningOK(u)' /\ FlowOK(u)'
<1>2. UnopenedOK(u)'
  <2>0. PICK i : i = chan[u]
    OBVIOUS
  <2>a. i # 0 /\ call[u] # "open" => IdAside(i) /\ Untouched(i)
    BY <2>0 DEF LinkOK, UnopenedOK, Calm
  <2>1. i # 0 /\ call[u] # "open" => Untouched(i)'
    BY <2>a, UntouchedStays
  <2>2. chan'[u] = i
    BY <2>0 DEF Calm
  <2>3. mux'["back"].ended = mux["back"].ended
    BY SideFacts DEF Steady
  <2> QED BY <2>0, <2>1, <2>2, <2>3, Zenon DEF LinkOK, UnopenedOK, Calm
<1>4. OpeningOK(u)'
  <2> SUFFICES ASSUME chan[u] # 0 PROVE OpeningOK(u)'
    BY DEF OpeningOK, Calm
  <2> DEFINE i == chan[u]
  <2>1. /\ chan'[u] = i /\ (call'[u] = "open" <=> call[u] = "open") /\ (u \in shut' <=> u \in shut) /\ (u \in pending' <=> u \in pending)
        /\ OpensFirst(wire["back"], i) => OpensFirst(wire'["back"], i)
        /\ Opened(wire["back"], i) <=> Opened(wire'["back"], i)
        /\ mux'["back"].ch[i] = mux["back"].ch[i] /\ mux'["front"].ch[i] = mux["front"].ch[i]
        /\ mux'["back"].ended = mux["back"].ended /\ mux'["front"].ended = mux["front"].ended
        /\ i \in mux'["back"].open => i \in mux["back"].open
        /\ i \in mux["back"].open /\ mux["back"].ch[i].end = "open" => i \in mux'["back"].open
        /\ i \in mux'["front"].open => i \in mux["front"].open
        /\ i \in mux["front"].open /\ mux["front"].ch[i].end = "open" => i \in mux'["front"].open
    BY SideFacts, FrameQuietKeeps, Zenon DEF Calm, IdAside, Steady
  <2>2. /\ OpensFirst(wire["back"], i)
        /\ u \in pending => Unused(mux["back"].ch[i]) /\ i \notin mux["back"].open
        /\ Opened(wire["back"], i) => u \in pending
        /\ u \in Uploads /\ call[u] = "open" /\ ~mux["back"].ended /\ mux["back"].ch[i].end = "open" =>
             i \in mux["back"].open \/ Opened(wire["back"], i)
        /\ u \in Downloads /\ call[u] = "open" /\ ~mux["front"].ended /\ mux["front"].ch[i].end = "open" =>
             i \in mux["front"].open
        /\ u \in Uploads /\ u \in shut => i \notin mux["front"].open
    BY Zenon DEF LinkOK, OpeningOK, Ch
  <2> HIDE DEF i
  <2>3. Ch("back", u)' = mux'["back"].ch[i] /\ Ch("front", u)' = mux'["front"].ch[i]
    BY <2>1 DEF Ch
  <2> QED BY <2>1, <2>2, <2>3, Zenon DEF OpeningOK
<1>5. FlowOK(u)'
  <2> SUFFICES ASSUME chan[u] # 0 PROVE FlowOK(u)'
    BY DEF FlowOK, Calm
  <2> DEFINE i == chan[u]
             r == Reader(u)
  <2>1. r \in Sides
    BY SideFacts
  <2>2. Flow(mux[r].ch[i], wire[r], i, sent[u], mux[r].ended, Over(u), Own(u))
    BY DEF LinkOK, FlowOK, Ch
  <2>3. mux'[r].ch[i] = mux[r].ch[i] /\ mux'[r].ended = mux[r].ended /\ sent'[u] = sent[u] /\ chan'[u] = i
    BY <2>1 DEF Calm, IdAside, Steady
  <2>4. Flow(mux'[r].ch[i], wire'[r], i, sent'[u], mux'[r].ended, Over(u), Own(u))
    <3>1. FrameQuiet(wire[r], wire'[r], i)
      BY <2>1 DEF Calm, IdAside
    <3>2. Flow(mux[r].ch[i], wire'[r], i, sent[u], mux[r].ended, Over(u), Own(u))
      BY <2>2, <3>1, FrameQuietKeeps
    <3> QED BY <2>3, <3>2
  <2>5. (Over(u) => Over(u)') /\ (Own(u) => Own(u)')
    BY DEF Over, Own, Calm, Steady
  <2>6. Flow(mux'[r].ch[i], wire'[r], i, sent'[u], mux'[r].ended, Over(u)', Own(u)')
    BY <2>4, <2>5, FlowKnows
  <2> HIDE DEF i
  <2> QED BY <2>3, <2>6 DEF FlowOK, Ch, Reader
<1> QED BY <1>2, <1>4, <1>5

\* A step of another transfer leaves the link of this one as it was.
LEMMA Bystander ==
  ASSUME TransferTypeOK, NEW u \in Transfers, LinkOK(u), Aside(u), Steady
  PROVE  LinkOK(u)'
<1>1. NumberOK(u)'
  <2>1. chan[u] < next'
    <3>1. chan[u] \in Nat /\ next \in Nat
      BY NatFacts
    <3>2. chan[u] < next /\ next' \in Nat /\ next' >= next
      BY DEF NumberOK, LinkOK, Steady
    <3> QED BY <3>1, <3>2
  <2> QED BY <2>1 DEF NumberOK, LinkOK, Aside, Calm
<1>2. UnopenedOK(u)' /\ OpeningOK(u)' /\ FlowOK(u)'
  BY CalmKeeps DEF Aside
<1>3. RpcOK(u)'
  <2>1. RpcQuiet(wire["front"], wire'["front"], u) /\ RpcQuiet(wire["back"], wire'["back"], u)
    BY SideFacts DEF Aside
  <2> QED BY <2>1, RpcQuietKeeps, Zenon DEF LinkOK, RpcOK, Aside, Calm
<1> QED BY <1>1, <1>2, <1>3 DEF LinkOK

\* The ids to come stay untouched.
LEMMA FreshStays ==
  ASSUME TransferTypeOK, Fresh, Steady, \A i \in Ids : i >= next => IdAside(i)
  PROVE  Fresh'
<1>1. ASSUME NEW i \in Ids, i >= next' PROVE i >= next
  BY <1>1, MuxAssumption DEF TransferTypeOK, Steady
<1> QED BY <1>1, UntouchedStays DEF Fresh

\* A step of the transfers T that touches channel c only.
LEMMA LinkClose ==
  ASSUME TransferTypeOK, LinkInv, Steady, \A s \in Sides : AllSound(mux'[s]), Streams', OneOwner', FrontAsks',
         NEW c, \A i \in Ids : i # c => IdAside(i), c \in Ids => c < next,
         NEW T, \A u \in Transfers : u \notin T => Aside(u), \A u \in Transfers : u \in T => LinkOK(u)'
  PROVE  LinkInv'
<1>1. Readers'
  BY DEF Readers, AllSound
<1>2. Fresh'
  <2>1. ASSUME NEW i \in Ids, i >= next PROVE i # c
    BY <2>1, MuxAssumption DEF TransferTypeOK
  <2> QED BY <2>1, FreshStays DEF LinkInv
<1>3. ASSUME NEW u \in Transfers PROVE LinkOK(u)'
  BY Bystander DEF LinkInv
<1> QED BY <1>1, <1>2, <1>3 DEF LinkInv

\* A step that touches no channel and no transfer.
LEMMA LinkQuiet ==
  ASSUME TransferTypeOK, LinkInv, Steady, \A s \in Sides : AllSound(mux'[s]), Streams', OneOwner', FrontAsks',
         \A i \in Ids : IdAside(i), \A u \in Transfers : Aside(u)
  PROVE  LinkInv'
<1>1. Readers'
  BY DEF Readers, AllSound
<1>2. Fresh'
  BY FreshStays DEF LinkInv
<1>3. ASSUME NEW u \in Transfers PROVE LinkOK(u)'
  BY Bystander DEF LinkInv
<1> QED BY <1>1, <1>2, <1>3 DEF LinkInv

\* A wire to the frontend that gets no open frame.
LEMMA FrontStays ==
  ASSUME FrontAsks, NEW w, w = wire'["front"],
         \/ w = wire["front"] \/ Shorter(wire["front"], w) \/ w = <<>>
         \/ \E line : Longer(wire["front"], w, line) /\ line.type # "open"
  PROVE  FrontAsks'
<1> SUFFICES ASSUME NEW i \in Ids PROVE ~Opened(w, i)
  BY DEF FrontAsks
<1>0. ~Opened(wire["front"], i)
  BY DEF FrontAsks
<1>1. CASE w = wire["front"]
  BY <1>0, <1>1
<1>2. CASE Shorter(wire["front"], w)
  BY <1>0, <1>2, ShorterLines
<1>3. CASE w = <<>>
  BY <1>3 DEF Opened
<1>4. ASSUME NEW line, Longer(wire["front"], w, line), line.type # "open" PROVE ~Opened(w, i)
  BY <1>0, <1>4, LongerLines
<1> QED BY <1>1, <1>2, <1>3, <1>4

\* What sending a line leaves alone.
LEMMA SendAside ==
  ASSUME TransferTypeOK, Streams, FrontAsks, NEW s \in Sides, NEW line \in AllLines, wire' = Sent(s, line)
  PROVE  /\ wire' \in [Sides -> Seq(Units)]
         /\ \A i : ~(line.type # "rpc" /\ line.id = i) => \A r \in Sides : FrameQuiet(wire[r], wire'[r], i)
         /\ \A u : ~(line.type = "rpc" /\ line.id = u) => \A r \in Sides : RpcQuiet(wire[r], wire'[r], u)
         /\ \A r \in Sides : mux[r].ended => wire'[r] = <<>>
         /\ line.type # "open" \/ s = "front" => FrontAsks'
         /\ wire'[s] = wire[s]
         /\ wire' = wire \/ Longer(wire[Other(s)], wire'[Other(s)], line)
         /\ ~mux[Other(s)].ended => Longer(wire[Other(s)], wire'[Other(s)], line)
         /\ mux[Other(s)].ended => wire' = wire
<1>1. /\ wire' \in [Sides -> Seq(Units)] /\ wire'[s] = wire[s]
      /\ mux[Other(s)].ended => wire' = wire
      /\ ~mux[Other(s)].ended => Longer(wire[Other(s)], wire'[Other(s)], line)
  BY SentFacts
<1>2. \A r \in Sides : wire'[r] = wire[r] \/ (r = Other(s) /\ ~mux[r].ended /\ Longer(wire[r], wire'[r], line))
  BY <1>1, SideFacts
<1>3. \A i : ~(line.type # "rpc" /\ line.id = i) => \A r \in Sides : FrameQuiet(wire[r], wire'[r], i)
  BY <1>2, Zenon DEF FrameQuiet
<1>4. \A u : ~(line.type = "rpc" /\ line.id = u) => \A r \in Sides : RpcQuiet(wire[r], wire'[r], u)
  BY <1>2, Zenon DEF RpcQuiet
<1>5. \A r \in Sides : mux[r].ended => wire'[r] = <<>>
  BY <1>2, Zenon DEF Streams
<1>6. ASSUME line.type # "open" \/ s = "front" PROVE FrontAsks'
  <2>1. wire'["front"] = wire["front"] \/ (Longer(wire["front"], wire'["front"], line) /\ line.type # "open")
    BY <1>2, <1>6, SideFacts
  <2> QED BY <2>1, FrontStays
<1> QED BY <1>1, <1>3, <1>4, <1>5, <1>6

----------------------------------------------------------------------------
(* The steps, one by one: the call of transfer.open *)

\* The lines the two sides send.
LEMMA LineTypes ==
  /\ \A t \in Transfers : RpcLine(t, <<>>) \in AllLines /\ \A i \in Ids : RpcLine(t, <<i>>) \in AllLines
  /\ \A i \in Ids, type \in {"open", "end", "error"} : Frame(i, type, <<>>) \in AllLines
  /\ \A i \in Ids, v \in Payload : Frame(i, "data", v) \in AllLines
  /\ \A t, v : RpcLine(t, v).type = "rpc" /\ RpcLine(t, v).id = t /\ RpcLine(t, v).v = v
  /\ \A i, type, v : Frame(i, type, v).type = type /\ Frame(i, type, v).id = i /\ Frame(i, type, v).v = v
  BY DEF RpcLine, Frame, AllLines, PlainLines, DataFrames

\* A step that leaves both ends of the stream as they are.
LEMMA SameMuxes ==
  ASSUME TransferTypeOK, LinkInv, mux' = mux
  PROVE  /\ mux' \in [Sides -> Muxes] /\ \A s \in Sides : AllSound(mux'[s]) /\ mux'[s].ended = mux[s].ended
         /\ (\A r \in Sides : mux[r].ended => wire'[r] = <<>>) /\ alive' = alive => Streams'
         /\ \A i \in Ids : (\A s \in Sides : FrameQuiet(wire[s], wire'[s], i)) => IdAside(i)
<1>1. mux' \in [Sides -> Muxes] /\ \A s \in Sides : AllSound(mux'[s]) /\ mux'[s].ended = mux[s].ended
  BY DEF TransferTypeOK, LinkInv, Readers, AllSound
<1>2. (\A r \in Sides : mux[r].ended => wire'[r] = <<>>) /\ alive' = alive => Streams'
  BY DEF LinkInv, Streams
<1>3. \A i \in Ids : (\A s \in Sides : FrameQuiet(wire[s], wire'[s], i)) => IdAside(i)
  BY DEF IdAside
<1> QED BY <1>1, <1>2, <1>3

\* RequestOpen, a refusal and the mkdir: calls that have no channel yet.
LEMMA OpenCallKeeps ==
  ASSUME TransferInv, NEW t \in Transfers, call[t] \in {"idle", "calling", "stat", "mkdir"},
         NEW c \in {"calling", "mkdir", "answered"}, call' = [call EXCEPT ![t] = c],
         \/ /\ wire' = wire /\ call[t] = "stat"
         \/ wire' = Sent("front", RpcLine(t, <<>>)) /\ c = "calling" /\ call[t] = "idle"
         \/ wire' = Sent("back", RpcLine(t, <<>>)) /\ c = "answered" /\ call[t] = "stat",
         UNCHANGED <<mux, chan, sent, shut, pending, next, job, alive>>
  PROVE  wire' \in [Sides -> Seq(Units)] /\ LinkInv'
<1> DEFINE line == RpcLine(t, <<>>)
<1>0. /\ line \in AllLines /\ line.type = "rpc" /\ line.id = t /\ line.v = <<>>
      /\ "front" \in Sides /\ "back" \in Sides /\ Other("front") = "back" /\ Other("back") = "front"
  BY LineTypes, SideFacts
<1> HIDE DEF line
<1>1. TransferTypeOK /\ LinkInv /\ Streams /\ FrontAsks /\ LinkOK(t)
  BY DEF TransferInv, LinkInv
<1>2. /\ wire' \in [Sides -> Seq(Units)]
      /\ \A i : \A r \in Sides : FrameQuiet(wire[r], wire'[r], i)
      /\ \A u : u # t => \A r \in Sides : RpcQuiet(wire[r], wire'[r], u)
      /\ \A r \in Sides : mux[r].ended => wire'[r] = <<>>
      /\ FrontAsks'
  <2>1. CASE wire' = wire
    BY <1>1, <2>1 DEF TransferTypeOK, FrameQuiet, RpcQuiet, Streams, FrontAsks
  <2>2. ASSUME NEW s \in Sides, wire' = Sent(s, line)
        PROVE  <1>2!1 /\ <1>2!2 /\ <1>2!3 /\ <1>2!4 /\ <1>2!5
    BY <1>0, <1>1, <2>2, SendAside
  <2> QED BY <1>0, <2>1, <2>2 DEF line
<1>3. Steady /\ OneOwner'
  BY <1>1 DEF Steady, LinkInv, OneOwner, TransferTypeOK
<1>4. (\A s \in Sides : AllSound(mux'[s])) /\ Streams' /\ \A i \in Ids : IdAside(i)
  BY <1>1, <1>2, SameMuxes
<1>5. ASSUME NEW u \in Transfers, u # t PROVE Aside(u)
  BY <1>1, <1>2, <1>4, <1>5 DEF Aside, Calm, TransferTypeOK
<1>6. LinkOK(t)'
  <2>1. chan[t] = 0 /\ chan'[t] = 0 /\ call'[t] = c /\ call[t] # "open"
    BY <1>1 DEF LinkOK, NumberOK, TransferTypeOK
  <2>2. NumberOK(t)'
    BY <1>1, <2>1 DEF LinkOK, NumberOK
  <2>3. UnopenedOK(t)'
    BY <1>1, <2>1 DEF LinkOK, UnopenedOK
  <2>4. RpcOK(t)'
    <3>1. /\ RpcOnce(wire["front"], t) /\ RpcOnce(wire["back"], t)
          /\ ~Asked(wire["front"], t) /\ ~Granted(wire["front"], t)
          /\ Asked(wire["back"], t) => call[t] = "calling"
      BY <1>1, <2>1 DEF LinkOK, RpcOK
    <3>2. CASE wire' = wire /\ call[t] = "stat"
      BY <2>1, <3>1, <3>2 DEF RpcOK
    <3>3. CASE wire' = Sent("front", line) /\ c = "calling" /\ call[t] = "idle"
      BY <1>0, <1>1, <2>1, <3>1, <3>3, SendAside, LongerLines DEF RpcOK, Asked
    <3>4. CASE wire' = Sent("back", line) /\ c = "answered" /\ call[t] # "calling"
      BY <1>0, <1>1, <2>1, <3>1, <3>4, SendAside, LongerLines DEF RpcOK, Asked
    <3> QED BY <3>2, <3>3, <3>4 DEF line
  <2>5. OpeningOK(t)' /\ FlowOK(t)'
    BY <2>1 DEF OpeningOK, FlowOK
  <2> QED BY <2>2, <2>3, <2>4, <2>5 DEF LinkOK
<1>7. LinkInv'
  <2>1. /\ \A i \in Ids : i # 0 => IdAside(i)
        /\ 0 \in Ids => 0 < next
        /\ \A u \in Transfers : u \notin {t} => Aside(u)
        /\ \A u \in Transfers : u \in {t} => LinkOK(u)'
    BY <1>1, <1>4, <1>5, <1>6, NatFacts
  <2> QED BY <1>1, <1>2, <1>3, <1>4, <2>1, LinkClose
<1> QED BY <1>2, <1>7

\* Nothing was said of a channel.
LEMMA SilentFacts ==
  ASSUME NEW w, NEW i, Silent(w, i)
  PROVE  ~Opened(w, i) /\ OpensFirst(w, i) /\ ~Ends(w, i)
  BY DEF Silent, FrameOf, Opened, IsOpen, OpensFirst, Ends, IsEnd

\* TransferManager.open gives a transfer the next channel id, which no frame
\* and no channel has had.
LEMMA ReserveKeeps ==
  ASSUME TransferInv, NEW t \in Transfers, call[t] \in {"stat", "mkdir"}, Reserve(t),
         UNCHANGED <<mux, sent, shut, job, alive>>
  PROVE  wire' \in [Sides -> Seq(Units)] /\ LinkInv'
<1>0. PICK n : n = next
  OBVIOUS
<1> DEFINE line == RpcLine(t, <<n>>)
<1>a. /\ n \in Ids /\ n \in Nat /\ n # 0 /\ next' = n + 1 /\ chan' = [chan EXCEPT ![t] = n]
      /\ pending' = pending \union {t} /\ call' = [call EXCEPT ![t] = "answered"] /\ wire' = Sent("back", line)
  BY <1>0, NatFacts DEF Reserve, Send, TransferInv
<1>b. /\ line \in AllLines /\ line.type = "rpc" /\ line.id = t
      /\ "front" \in Sides /\ "back" \in Sides /\ Other("back") = "front"
  BY <1>a, LineTypes, SideFacts
<1> HIDE DEF line
<1>1. TransferTypeOK /\ LinkInv /\ Streams /\ FrontAsks /\ LinkOK(t) /\ Fresh /\ OneOwner
  BY DEF TransferInv, LinkInv
<1>2. /\ wire' \in [Sides -> Seq(Units)]
      /\ \A i : \A r \in Sides : FrameQuiet(wire[r], wire'[r], i)
      /\ \A u : u # t => \A r \in Sides : RpcQuiet(wire[r], wire'[r], u)
      /\ \A r \in Sides : mux[r].ended => wire'[r] = <<>>
      /\ FrontAsks'
      /\ wire'["back"] = wire["back"]
      /\ wire' = wire \/ Longer(wire["front"], wire'["front"], line)
  BY <1>a, <1>b, <1>1, SendAside
<1>3. /\ chan'[t] = n /\ call'[t] = "answered" /\ t \in pending'
      /\ \A u \in Transfers : u # t => /\ chan'[u] = chan[u] /\ call'[u] = call[u]
                                       /\ (u \in pending' <=> u \in pending)
  BY <1>a, <1>1 DEF TransferTypeOK
<1>4. Steady
  BY <1>a, <1>0 DEF Steady
<1>5. OneOwner'
  <2>1. \A u \in Transfers : chan[u] # n
    <3>1. \A u \in Transfers : chan[u] < n
      BY <1>0, <1>1 DEF LinkInv, LinkOK, NumberOK
    <3> QED BY <1>a, <1>1, <3>1, NatFacts
  <2> QED BY <1>1, <1>3, <2>1 DEF OneOwner
<1>6. (\A s \in Sides : AllSound(mux'[s])) /\ Streams' /\ \A i \in Ids : IdAside(i)
  BY <1>1, <1>2, SameMuxes
<1>7. ASSUME NEW u \in Transfers, u # t PROVE Aside(u)
  <2>1. chan[u] # 0 => IdAside(chan[u])
    BY <1>1, <1>6 DEF TransferTypeOK
  <2> QED BY <1>2, <1>3, <1>7, <2>1 DEF Aside, Calm
<1>8. LinkOK(t)'
  <2>1. /\ call[t] # "open" /\ sent[t] = <<>> /\ t \notin shut /\ job[t] = "none"
    BY <1>1 DEF LinkOK, UnopenedOK
  <2>2. Untouched(n)'
    <3>1. Untouched(n) /\ IdAside(n)
      BY <1>0, <1>a, <1>1, <1>6 DEF Fresh
    <3> QED BY <3>1, UntouchedStays
  <2>3. NumberOK(t)'
    BY <1>a, <1>3, <2>1 DEF NumberOK
  <2>4. UnopenedOK(t)'
    BY <1>3, <2>1, <2>2 DEF UnopenedOK
  <2>5. RpcOK(t)'
    <3>1. /\ RpcOnce(wire["front"], t) /\ RpcOnce(wire["back"], t)
          /\ ~Asked(wire["front"], t) /\ ~Granted(wire["front"], t) /\ ~Asked(wire["back"], t)
      BY <1>1 DEF LinkOK, RpcOK, Asked, Granted
    <3>2. RpcOnce(wire'["front"], t)
      BY <1>2, <3>1, LongerLines DEF Asked
    <3> QED BY <1>a, <1>2, <1>3, <3>1, <3>2 DEF RpcOK
  <2>6. \A s \in Sides : Unused(mux'[s].ch[n]) /\ n \notin mux'[s].open /\ Silent(wire'[s], n)
    BY <2>2 DEF Untouched
  <2>7. OpeningOK(t)'
    BY <1>b, <1>3, <2>1, <2>6, SilentFacts DEF OpeningOK, Ch
  <2>8. FlowOK(t)'
    <3>1. Reader(t) \in Sides
      BY SideFacts
    <3> QED BY <1>3, <2>1, <2>6, <3>1, FlowStarts DEF FlowOK, Ch, Reader
  <2> QED BY <2>3, <2>4, <2>5, <2>7, <2>8 DEF LinkOK
<1>9. LinkInv'
  <2>1. /\ \A i \in Ids : i # 0 => IdAside(i)
        /\ 0 \in Ids => 0 < next
        /\ \A u \in Transfers : u \notin {t} => Aside(u)
        /\ \A u \in Transfers : u \in {t} => LinkOK(u)'
    BY <1>1, <1>6, <1>7, <1>8, NatFacts
  <2> QED BY <1>1, <1>2, <1>4, <1>5, <1>6, <2>1, LinkClose
<1> QED BY <1>2, <1>9

----------------------------------------------------------------------------
(* The pump: a unit is taken off the wire *)

\* A unit is handled: the wire of its side is one shorter, its mux is the one
\* of the handler, pruned behind the last unit of a chunk.
LEMMA TakeFacts ==
  ASSUME TransferInv, NEW s \in Sides, InChunk(s), NEW m \in Muxes, AllSound(m), m.ended = mux[s].ended,
         Handled(s, m), NEW W \in [Sides -> Seq(Units)], W[s] = wire[s], wire' = [W EXCEPT ![s] = Tail(@)],
         mux[Other(s)].ended => W[Other(s)] = wire[Other(s)], alive' = alive
  PROVE  /\ mux' \in [Sides -> Muxes] /\ (\A r \in Sides : AllSound(mux'[r]) /\ mux'[r].ended = mux[r].ended)
         /\ wire' \in [Sides -> Seq(Units)]
         /\ ~mux[s].ended /\ Streams'
         /\ Shorter(wire[s], wire'[s]) /\ wire'[Other(s)] = W[Other(s)]
         /\ Pruned(m, mux'[s]) /\ mux'[Other(s)] = mux[Other(s)]
         /\ Unit(s) = wire[s][1] /\ Unit(s) \in Units
<1>1. /\ Other(s) \in Sides /\ Other(s) # s /\ \A r \in Sides : r = s \/ r = Other(s)
      /\ mux \in [Sides -> Muxes] /\ wire[s] \in Seq(Units) /\ wire[s] # <<>>
      /\ Streams /\ \A r \in Sides : AllSound(mux[r])
  BY SideFacts DEF TransferInv, TransferTypeOK, InChunk, LinkInv, Readers, AllSound
<1>2. /\ Tail(wire[s]) \in Seq(Units) /\ Shorter(wire[s], Tail(wire[s]))
      /\ Unit(s) = wire[s][1] /\ Unit(s) \in Units
  BY <1>1, TailShorter DEF Unit
<1>3. /\ wire' \in [Sides -> Seq(Units)] /\ wire'[s] = Tail(wire[s]) /\ wire'[Other(s)] = W[Other(s)]
  BY <1>1, <1>2
<1>4. PICK m2 : (m2 = m \/ m2 = Reap(m)) /\ mux' = [mux EXCEPT ![s] = m2]
  BY DEF Handled
<1>5. Pruned(m, m2) /\ m2 \in Muxes /\ m2.ended = mux[s].ended /\ AllSound(m2)
  BY <1>4, ReapFacts DEF Pruned, AllSound
<1>6. mux' \in [Sides -> Muxes] /\ mux'[s] = m2 /\ mux'[Other(s)] = mux[Other(s)]
  BY <1>1, <1>4, <1>5
<1>7. \A r \in Sides : AllSound(mux'[r]) /\ mux'[r].ended = mux[r].ended
  BY <1>1, <1>5, <1>6
<1>8. ~mux[s].ended
  BY <1>1 DEF Streams
<1>9. Streams'
  <2>1. ASSUME NEW r \in Sides, mux'[r].ended PROVE wire'[r] = <<>> /\ mux'[r].open = {}
    <3>1. r = Other(s)
      BY <1>1, <1>7, <1>8, <2>1
    <3> QED BY <1>1, <1>3, <1>6, <2>1, <3>1 DEF Streams
  <2>2. ~alive' => mux'["back"].ended
    BY <1>1, <1>7, SideFacts DEF Streams
  <2> QED BY <2>1, <2>2 DEF Streams
<1> QED BY <1>2, <1>3, <1>5, <1>6, <1>7, <1>8, <1>9

\* A unit that is no frame with a newline touches no channel.
LEMMA TakeAside ==
  ASSUME TransferInv, NEW s \in Sides, InChunk(s), Handled(s, mux[s]), wire' = [wire EXCEPT ![s] = Tail(@)],
         UNCHANGED <<chan, next, sent, shut, pending, job, alive>>,
         Unit(s).at # "newline" \/ Unit(s).line.type = "rpc"
  PROVE  /\ mux' \in [Sides -> Muxes] /\ wire' \in [Sides -> Seq(Units)]
         /\ Unit(s) = wire[s][1] /\ Unit(s) \in Units
         /\ Shorter(wire[s], wire'[s]) /\ wire'[Other(s)] = wire[Other(s)]
         /\ Streams' /\ Steady /\ OneOwner' /\ FrontAsks' /\ (\A r \in Sides : AllSound(mux'[r]))
         /\ \A i \in Ids : IdAside(i)
         /\ \A u \in Transfers : (call'[u] = "open" <=> call[u] = "open") => Calm(u)
         /\ \A u : \A r \in Sides : RpcQuiet(wire[r], wire'[r], u)
<1>1. TransferTypeOK /\ LinkInv /\ FrontAsks /\ OneOwner /\ mux[s] \in Muxes /\ AllSound(mux[s])
  BY DEF TransferInv, LinkInv, TransferTypeOK, Readers, AllSound
<1>2. /\ mux' \in [Sides -> Muxes] /\ (\A r \in Sides : AllSound(mux'[r]) /\ mux'[r].ended = mux[r].ended)
      /\ wire' \in [Sides -> Seq(Units)] /\ Streams'
      /\ Shorter(wire[s], wire'[s]) /\ wire'[Other(s)] = wire[Other(s)]
      /\ Pruned(mux[s], mux'[s]) /\ mux'[Other(s)] = mux[Other(s)]
      /\ Unit(s) = wire[s][1] /\ Unit(s) \in Units
  BY <1>1, TakeFacts DEF TransferTypeOK
<1>3. \A r \in Sides : r = s \/ r = Other(s)
  BY SideFacts
<1>4. Steady /\ OneOwner'
  BY <1>1, <1>2 DEF Steady, OneOwner, TransferTypeOK
<1>5. FrontAsks'
  <2>1. wire'["front"] = wire["front"] \/ Shorter(wire["front"], wire'["front"])
    BY <1>2, <1>3, SideFacts
  <2> QED BY <1>1, <2>1, FrontStays
<1>6. Unit(s).line.type \in {"data", "rpc"}
  BY <1>2 DEF Units, DataFrames
<1>7. ASSUME NEW i \in Ids PROVE IdAside(i)
  <2>1. ~IsOpen(wire[s], 1, i) /\ ~IsData(wire[s], 1, i)
    BY <1>2, <1>6 DEF IsOpen, IsData
  <2>2. FrameQuiet(wire[s], wire'[s], i) /\ FrameQuiet(wire[Other(s)], wire'[Other(s)], i)
    BY <1>2, <2>1 DEF FrameQuiet
  <2>3. /\ mux'[s].ch[i] = mux[s].ch[i]
        /\ i \in mux'[s].open => i \in mux[s].open
        /\ i \in mux[s].open /\ mux[s].ch[i].end = "open" => i \in mux'[s].open
    BY <1>2 DEF Pruned
  <2> QED BY <1>2, <1>3, <2>2, <2>3, Zenon DEF IdAside
<1>8. ASSUME NEW u \in Transfers, call'[u] = "open" <=> call[u] = "open" PROVE Calm(u)
  <2>1. chan[u] # 0 => IdAside(chan[u])
    BY <1>1, <1>7 DEF TransferTypeOK
  <2> QED BY <1>8, <2>1 DEF Calm
<1>9. \A u : \A r \in Sides : RpcQuiet(wire[r], wire'[r], u)
  BY <1>2, <1>3, Zenon DEF RpcQuiet
<1> QED BY <1>2, <1>4, <1>5, <1>7, <1>8, <1>9

\* A unit without a newline changes no channel.
LEMMA FragmentKeeps ==
  ASSUME TransferInv, NEW s \in Sides, HandleFragment(s)
  PROVE  mux' \in [Sides -> Muxes] /\ wire' \in [Sides -> Seq(Units)] /\ LinkInv'
<1>1. /\ InChunk(s) /\ Handled(s, mux[s]) /\ wire' = [wire EXCEPT ![s] = Tail(@)] /\ Unit(s).at # "newline"
      /\ UNCHANGED <<call, chan, next, sent, shut, pending, job, alive>>
  BY DEF HandleFragment, clientVars, managerVars, jobVars
<1>2. /\ mux' \in [Sides -> Muxes] /\ wire' \in [Sides -> Seq(Units)]
      /\ Streams' /\ Steady /\ OneOwner' /\ FrontAsks' /\ (\A r \in Sides : AllSound(mux'[r]))
      /\ \A i \in Ids : IdAside(i)
      /\ \A u \in Transfers : (call'[u] = "open" <=> call[u] = "open") => Calm(u)
      /\ \A u : \A r \in Sides : RpcQuiet(wire[r], wire'[r], u)
  BY <1>1, TakeAside
<1>3. ASSUME NEW u \in Transfers PROVE Aside(u)
  BY <1>1, <1>2 DEF Aside
<1>4. TransferTypeOK /\ LinkInv
  BY DEF TransferInv
<1> QED BY <1>2, <1>3, <1>4, LinkQuiet

\* The line of a call, at the daemon, or its answer, at the frontend.
LEMMA RpcKeeps ==
  ASSUME TransferInv, NEW s \in Sides, HandleRpc(s)
  PROVE  /\ mux' \in [Sides -> Muxes] /\ wire' \in [Sides -> Seq(Units)] /\ LinkInv'
         /\ \E t \in Transfers, c \in {"stat", "failed", "ready"} : call' = [call EXCEPT ![t] = c]
<1>1. /\ InChunk(s) /\ Handled(s, mux[s]) /\ wire' = [wire EXCEPT ![s] = Tail(@)] /\ Unit(s).line.type = "rpc"
      /\ UNCHANGED <<chan, next, sent, shut, pending, job, alive>>
      /\ call' = [call EXCEPT ![Unit(s).line.id] =
                     IF s = "back" THEN "stat" ELSE IF Unit(s).line.v = <<>> THEN "failed" ELSE "ready"]
  BY DEF HandleRpc, managerVars, jobVars
<1>2. /\ mux' \in [Sides -> Muxes] /\ wire' \in [Sides -> Seq(Units)]
      /\ Unit(s) = wire[s][1] /\ Unit(s) \in Units
      /\ Shorter(wire[s], wire'[s]) /\ wire'[Other(s)] = wire[Other(s)]
      /\ Streams' /\ Steady /\ OneOwner' /\ FrontAsks' /\ (\A r \in Sides : AllSound(mux'[r]))
      /\ \A i \in Ids : IdAside(i)
      /\ \A u \in Transfers : (call'[u] = "open" <=> call[u] = "open") => Calm(u)
      /\ \A u : \A r \in Sides : RpcQuiet(wire[r], wire'[r], u)
  BY <1>1, TakeAside
<1>3. PICK t \in Transfers : t = Unit(s).line.id
  BY <1>1, <1>2 DEF Units, AllLines, PlainLines, DataFrames
<1>4. PICK c \in {"stat", "failed", "ready"} :
         c = IF s = "back" THEN "stat" ELSE IF Unit(s).line.v = <<>> THEN "failed" ELSE "ready"
  OBVIOUS
<1>5. TransferTypeOK /\ LinkInv /\ LinkOK(t)
  BY DEF TransferInv, LinkInv
<1>6. call' = [call EXCEPT ![t] = c] /\ call'[t] = c /\ \A u \in Transfers : u # t => call'[u] = call[u]
  BY <1>1, <1>3, <1>4, <1>5 DEF TransferTypeOK
<1>7. ASSUME NEW u \in Transfers, u # t PROVE Aside(u)
  BY <1>2, <1>6, <1>7 DEF Aside
<1>8. LinkOK(t)'
  <2>1. IsRpc(wire[s], 1, t)
    BY <1>1, <1>2, <1>3 DEF IsRpc
  <2>2. /\ Asked(wire[s], t) /\ (wire[s][1].line.v # <<>> => Granted(wire[s], t))
        /\ RpcOnce(wire[s], t) => RpcOnce(wire'[s], t) /\ ~Asked(wire'[s], t) /\ ~Granted(wire'[s], t)
    BY <1>2, <2>1, ShorterLines
  <2>3. /\ RpcOnce(wire["front"], t) /\ RpcOnce(wire["back"], t)
        /\ Asked(wire["back"], t) => call[t] = "calling"
        /\ Asked(wire["front"], t) => call[t] = "answered"
        /\ Granted(wire["front"], t) => chan[t] # 0
        /\ Granted(wire["front"], t) => Asked(wire["front"], t)
    BY <1>5 DEF LinkOK, RpcOK, Granted, Asked
  <2>4. CASE s = "back"
    <3>1. call[t] = "calling" /\ c = "stat" /\ wire'["front"] = wire["front"]
      BY <1>2, <1>4, <2>2, <2>3, <2>4, SideFacts
    <3>2. RpcOK(t)'
      BY <2>2, <2>3, <2>4, <3>1 DEF RpcOK
    <3>3. NumberOK(t)'
      BY <1>1, <1>5, <1>6, <3>1 DEF LinkOK, NumberOK
    <3>4. UnopenedOK(t)' /\ OpeningOK(t)' /\ FlowOK(t)'
      BY <1>2, <1>5, <1>6, <3>1, CalmKeeps
    <3> QED BY <3>2, <3>3, <3>4 DEF LinkOK
  <2>5. CASE s = "front"
    <3>1. /\ call[t] = "answered" /\ c \in {"failed", "ready"} /\ wire'["back"] = wire["back"]
          /\ c = "ready" => chan[t] # 0
      BY <1>2, <1>4, <2>2, <2>3, <2>5, SideFacts
    <3>2. RpcOK(t)'
      BY <2>2, <2>3, <2>5, <3>1 DEF RpcOK
    <3>3. NumberOK(t)'
      BY <1>1, <1>5, <1>6, <3>1 DEF LinkOK, NumberOK
    <3>4. UnopenedOK(t)' /\ OpeningOK(t)' /\ FlowOK(t)'
      BY <1>2, <1>5, <1>6, <3>1, CalmKeeps
    <3> QED BY <3>2, <3>3, <3>4 DEF LinkOK
  <2> QED BY <2>4, <2>5 DEF Sides
<1>9. /\ \A i \in Ids : i # 0 => IdAside(i)
      /\ 0 \in Ids => 0 < next
      /\ \A u \in Transfers : u \notin {t} => Aside(u)
      /\ \A u \in Transfers : u \in {t} => LinkOK(u)'
  BY <1>2, <1>5, <1>7, <1>8, NatFacts
<1>10. LinkInv'
  BY <1>2, <1>5, <1>9, LinkClose
<1> QED BY <1>2, <1>6, <1>10

\* The reader's end of a channel and the frame it handles.
LEMMA FlowHandles ==
  ASSUME NEW ch \in Channels, Sound(ch), NEW w, NEW w2, NEW i, NEW s \in Seq(Payload), NEW ended,
         NEW over, NEW own, Flow(ch, w, i, s, ended, over, own), ~ended, Shorter(w, w2),
         NEW line, line = w[1].line, w[1].at = "newline", line.id = i, NEW ch2,
         line.type = "data" => line.v \in Payload,
         \/ ch2 = ch /\ (line.type = "data" => ch.end # "open")
         \/ line.type = "data" /\ ch2 = Data(ch, line.v)
         \/ line.type = "end" /\ ch2 = Finish(ch, "done")
         \/ line.type = "error" /\ ch2 = Finish(ch, "error")
  PROVE  Flow(ch2, w2, i, s, ended, over, own)
<1>1. CASE ch2 = ch /\ (line.type = "data" => ch.end # "open")
  BY <1>1, FlowShorter DEF IsData
<1>2. CASE ch.end # "open"
  <2>1. ch2 = ch
    BY <1>2, DataFacts, FinishFacts
  <2> QED BY <1>2, <2>1, FlowShorter
<1>3. CASE ch.end = "open" /\ line.type = "data" /\ ch2 = Data(ch, line.v)
  BY <1>3, FlowReads DEF IsData
<1>4. CASE ch.end = "open" /\ line.type = "end" /\ ch2 = Finish(ch, "done")
  BY <1>4, FlowEnds DEF IsEnd
<1>5. CASE ch.end = "open" /\ line.type = "error" /\ ch2 = Finish(ch, "error")
  <2>1. SameHeld(ch, ch2) /\ ch2.end = "error"
    BY <1>5, FinishFacts DEF SameHeld
  <2>2. Flow(ch, w2, i, s, ended, over, own)
    BY <1>5, FlowShorter DEF IsData
  <2> QED BY <2>1, <2>2, FlowFails
<1> QED BY <1>1, <1>2, <1>3, <1>4, <1>5

\* What HandleFrame answers to the other side.
ReplyTo(s, line, w, w2) ==
  \/ w2 = w
  \/ \E reply : /\ Longer(w, w2, reply) /\ reply.id = line.id
                /\ \/ reply.type = "error"
                   \/ reply.type = "end" /\ line.type = "open" /\ line.id \notin mux[s].open \union Known(s)

\* A frame is handled: what changes and what a reply adds to the other wire.
LEMMA FrameFacts ==
  ASSUME TransferInv, NEW s \in Sides, HandleFrame(s), NEW line, line = Unit(s).line,
         NEW m, m = HandleLine(mux[s], Known(s), line)
  PROVE  /\ mux' \in [Sides -> Muxes] /\ (\A r \in Sides : AllSound(mux'[r]) /\ mux'[r].ended = mux[r].ended)
         /\ wire' \in [Sides -> Seq(Units)] /\ ~mux[s].ended
         /\ Streams' /\ Steady /\ OneOwner' /\ FrontAsks'
         /\ line \in AllLines /\ line.type # "rpc" /\ line.id < next
         /\ wire[s][1].line = line /\ wire[s][1].at = "newline" /\ Shorter(wire[s], wire'[s])
         /\ Pruned(m, mux'[s]) /\ mux'[Other(s)] = mux[Other(s)]
         /\ ReplyTo(s, line, wire[Other(s)], wire'[Other(s)])
<1>1. /\ InChunk(s) /\ Unit(s).at = "newline" /\ line.type # "rpc" /\ Handled(s, m)
      /\ UNCHANGED <<chan, next, alive>>
  BY DEF HandleFrame, clientVars
<1>2. PICK W : /\ wire' = [W EXCEPT ![s] = Tail(@)]
               /\ W = wire \/ \E reply \in Replies(mux[s], Known(s), line) : W = Sent(s, reply)
  BY DEF HandleFrame
<1>3. /\ TransferTypeOK /\ LinkInv /\ FrontAsks /\ OneOwner /\ Fresh /\ mux[s] \in Muxes /\ AllSound(mux[s])
      /\ mux[s].open \subseteq Ids
  BY DEF TransferInv, LinkInv, TransferTypeOK, Readers, AllSound, Muxes
<1>4. Unit(s) \in Units /\ Unit(s) = wire[s][1] /\ line \in AllLines
  <2>1. wire[s] \in Seq(Units) /\ wire[s] # <<>>
    BY <1>1, <1>3 DEF TransferTypeOK, InChunk
  <2>2. Unit(s) \in Units /\ Unit(s) = wire[s][1]
    BY <2>1, TailShorter DEF Unit
  <2> QED BY <1>1, <2>2 DEF Units
<1>5. m \in Muxes /\ AllSound(m) /\ m.ended = mux[s].ended /\ line.id \in Ids
  BY <1>1, <1>3, <1>4, LineFacts
<1>6. \A reply \in Replies(mux[s], Known(s), line) :
         /\ reply \in AllLines /\ reply.id = line.id
         /\ \/ reply.type = "error"
            \/ reply.type = "end" /\ line.type = "open" /\ line.id \notin mux[s].open \union Known(s)
  BY <1>5, LineTypes DEF Replies
<1>7. /\ W \in [Sides -> Seq(Units)] /\ W[s] = wire[s]
      /\ mux[Other(s)].ended => W[Other(s)] = wire[Other(s)]
      /\ ReplyTo(s, line, wire[Other(s)], W[Other(s)])
  <2>1. CASE W = wire
    BY <1>3, <2>1 DEF TransferTypeOK, ReplyTo
  <2>2. ASSUME NEW reply \in Replies(mux[s], Known(s), line), W = Sent(s, reply)
        PROVE  <1>7!1 /\ <1>7!2 /\ <1>7!3
    <3>1. /\ W \in [Sides -> Seq(Units)] /\ W[s] = wire[s]
          /\ mux[Other(s)].ended => W = wire
          /\ ~mux[Other(s)].ended => Longer(wire[Other(s)], W[Other(s)], reply)
      BY <1>3, <1>6, <2>2, SentFacts
    <3> QED BY <1>6, <3>1, Zenon DEF ReplyTo
  <2> QED BY <1>2, <2>1, <2>2
<1>8. /\ mux' \in [Sides -> Muxes] /\ (\A r \in Sides : AllSound(mux'[r]) /\ mux'[r].ended = mux[r].ended)
      /\ wire' \in [Sides -> Seq(Units)]
      /\ ~mux[s].ended /\ Streams'
      /\ Shorter(wire[s], wire'[s]) /\ wire'[Other(s)] = W[Other(s)]
      /\ Pruned(m, mux'[s]) /\ mux'[Other(s)] = mux[Other(s)]
  BY <1>1, <1>2, <1>5, <1>7, TakeFacts
<1>9. Steady /\ OneOwner'
  BY <1>1, <1>3, <1>8 DEF Steady, OneOwner, TransferTypeOK
<1>10. line.id < next
  <2>1. FrameOf(wire[s], 1, line.id)
    BY <1>1, <1>4 DEF FrameOf
  <2>2. ~Silent(wire[s], line.id)
    BY <1>8, <2>1, ShorterLines
  <2>3. ~(line.id >= next)
    BY <1>3, <1>5, <2>2 DEF Fresh, Untouched
  <2> QED BY <1>3, <1>5, <2>3, NatFacts
<1>11. FrontAsks'
  <2>1. \/ wire'["front"] = wire["front"] \/ Shorter(wire["front"], wire'["front"])
        \/ \E reply : Longer(wire["front"], wire'["front"], reply) /\ reply.type # "open"
    <3>1. CASE s = "front"
      BY <1>8, <3>1
    <3>2. CASE s = "back"
      BY <1>7, <1>8, <3>2, SideFacts DEF ReplyTo
    <3> QED BY <3>1, <3>2 DEF Sides
  <2> QED BY <1>3, <2>1, FrontStays
<1> QED BY <1>1, <1>4, <1>7, <1>8, <1>9, <1>10, <1>11

\* What a frame leaves alone.
LEMMA FrameAside ==
  ASSUME TransferInv, NEW s \in Sides, HandleFrame(s), NEW line, line = Unit(s).line
  PROVE  /\ \A i \in Ids : i # line.id => IdAside(i)
         /\ \A u \in Transfers : ~(chan[u] = line.id /\ chan[u] # 0) => Aside(u)
         /\ \A u : \A r \in Sides : RpcQuiet(wire[r], wire'[r], u)
<1>0. PICK m : m = HandleLine(mux[s], Known(s), line)
  OBVIOUS
<1>1. /\ line \in AllLines /\ line.type # "rpc"
      /\ wire[s][1].line = line /\ Shorter(wire[s], wire'[s])
      /\ Pruned(m, mux'[s]) /\ mux'[Other(s)] = mux[Other(s)]
      /\ ReplyTo(s, line, wire[Other(s)], wire'[Other(s)])
  BY <1>0, FrameFacts
<1>2. mux[s] \in Muxes /\ AllSound(mux[s]) /\ TransferTypeOK /\ \A u \in Transfers : NumberOK(u)
  BY DEF TransferInv, LinkInv, LinkOK, TransferTypeOK, Readers, AllSound
<1>3. \A j \in Ids : j # line.id => m.ch[j] = mux[s].ch[j] /\ (j \in m.open <=> j \in mux[s].open)
  BY <1>0, <1>1, <1>2, LineFacts
<1>4. \A r \in Sides : r = s \/ r = Other(s)
  BY SideFacts
<1>5. ASSUME NEW i \in Ids, i # line.id PROVE IdAside(i)
  <2>1. FrameQuiet(wire[s], wire'[s], i)
    BY <1>1, <1>5 DEF FrameQuiet, IsOpen, IsData
  <2>2. FrameQuiet(wire[Other(s)], wire'[Other(s)], i)
    BY <1>1, <1>5, Zenon DEF FrameQuiet, ReplyTo
  <2>3. /\ mux'[s].ch[i] = mux[s].ch[i]
        /\ i \in mux'[s].open => i \in mux[s].open
        /\ i \in mux[s].open /\ mux[s].ch[i].end = "open" => i \in mux'[s].open
    BY <1>1, <1>3, <1>5 DEF Pruned
  <2> QED BY <1>1, <1>4, <2>1, <2>2, <2>3, Zenon DEF IdAside
<1>6. \A u : \A r \in Sides : RpcQuiet(wire[r], wire'[r], u)
  <2>1. \A u : RpcQuiet(wire[s], wire'[s], u)
    BY <1>1, Zenon DEF RpcQuiet
  <2>2. \A reply : reply.type \in {"error", "end"} => reply.type # "rpc"
    OBVIOUS
  <2>3. \A u : RpcQuiet(wire[Other(s)], wire'[Other(s)], u)
    BY <1>1, <2>2 DEF RpcQuiet, ReplyTo
  <2> QED BY <1>4, <2>1, <2>3, Zenon
<1>7. ASSUME NEW u \in Transfers, ~(chan[u] = line.id /\ chan[u] # 0) PROVE Aside(u)
  <2>1. UNCHANGED <<call, chan, sent, shut>>
    BY DEF HandleFrame, clientVars
  <2>2. (u \in pending' <=> u \in pending) /\ job'[u] = job[u]
    <3>1. u \in pending => chan[u] # line.id
      BY <1>2, <1>7 DEF NumberOK
    <3> QED BY <3>1 DEF HandleFrame
  <2>3. chan[u] # 0 => IdAside(chan[u])
    BY <1>2, <1>5, <1>7 DEF TransferTypeOK
  <2> QED BY <1>6, <2>1, <2>2, <2>3 DEF Aside, Calm
<1> QED BY <1>5, <1>6, <1>7

\* What an answer leaves of the other side's wire, when its channel is a transfer's.
LEMMA ReplyKeeps ==
  ASSUME NEW s, NEW line, NEW w, NEW w2, ReplyTo(s, line, w, w2), NEW i,
         ~(line.type = "open" /\ line.id \notin mux[s].open \union Known(s))
  PROVE  /\ OpensFirst(w, i) => OpensFirst(w2, i)
         /\ Opened(w, i) <=> Opened(w2, i)
         /\ \A ch, x, ended, over, own : Flow(ch, w, i, x, ended, over, own) => Flow(ch, w2, i, x, ended, over, own)
<1>1. CASE w2 = w
  BY <1>1
<1>2. ASSUME NEW reply, Longer(w, w2, reply), reply.type = "error"
      PROVE  /\ OpensFirst(w, i) => OpensFirst(w2, i)
             /\ Opened(w, i) <=> Opened(w2, i)
             /\ \A ch, x, ended, over, own : Flow(ch, w, i, x, ended, over, own) => Flow(ch, w2, i, x, ended, over, own)
  <2>1. reply.type # "open" /\ reply.type \notin {"data", "end"}
    BY <1>2
  <2>2. (OpensFirst(w, i) => OpensFirst(w2, i)) /\ (Opened(w, i) <=> Opened(w2, i))
    BY <1>2, <2>1, LongerLines
  <2>3. \A ch, x, ended, over, own : Flow(ch, w, i, x, ended, over, own) => Flow(ch, w2, i, x, ended, over, own)
    BY <1>2, <2>1, FlowLonger, Zenon
  <2> QED BY <2>2, <2>3
<1> QED BY <1>1, <1>2, Zenon DEF ReplyTo

\* The transfer whose frame it is.
LEMMA FrameOwner ==
  ASSUME TransferInv, NEW s \in Sides, HandleFrame(s), NEW line, line = Unit(s).line,
         NEW t \in Transfers, chan[t] = line.id, chan[t] # 0
  PROVE  LinkOK(t)'
<1>0. PICK i, m : i = chan[t] /\ m = HandleLine(mux[s], Known(s), line)
  OBVIOUS
<1>1. /\ mux' \in [Sides -> Muxes] /\ (\A r \in Sides : AllSound(mux'[r]) /\ mux'[r].ended = mux[r].ended)
      /\ wire' \in [Sides -> Seq(Units)] /\ ~mux[s].ended /\ Steady
      /\ line \in AllLines /\ line.type # "rpc"
      /\ wire[s][1].line = line /\ wire[s][1].at = "newline" /\ Shorter(wire[s], wire'[s])
      /\ Pruned(m, mux'[s]) /\ mux'[Other(s)] = mux[Other(s)]
      /\ ReplyTo(s, line, wire[Other(s)], wire'[Other(s)])
  BY <1>0, FrameFacts
<1>2. /\ TransferTypeOK /\ LinkOK(t) /\ FrontAsks /\ mux[s] \in Muxes /\ AllSound(mux[s])
      /\ mux[s].ch[i] \in Channels /\ Sound(mux[s].ch[i]) /\ sent[t] \in Seq(Payload) /\ i \in Ids
  <2>1. i \in Ids
    BY <1>0 DEF TransferInv, TransferTypeOK
  <2>2. TransferTypeOK /\ LinkOK(t) /\ FrontAsks /\ mux[s] \in Muxes /\ AllSound(mux[s])
    BY DEF TransferInv, LinkInv, TransferTypeOK, Readers, AllSound
  <2> QED BY <2>1, <2>2, MuxParts DEF AllSound, TransferTypeOK
<1>3. /\ m \in Muxes
      /\ i \in mux[s].open => i \in m.open
      /\ line.type = "open" /\ i \in mux[s].open => m = mux[s]
      /\ line.type = "open" /\ i \in Known(s) /\ i \notin mux[s].open => i \in m.open /\ m.ch[i] = NewChannel
      /\ line.type # "open" /\ i \notin mux[s].open => m = mux[s]
      /\ line.type = "data" /\ i \in mux[s].open => line.v \in Payload /\ m.ch[i] = Data(mux[s].ch[i], line.v)
      /\ line.type = "end" /\ i \in mux[s].open => m.ch[i] = Finish(mux[s].ch[i], "done")
      /\ line.type = "error" /\ i \in mux[s].open => m.ch[i] = Finish(mux[s].ch[i], "error")
      /\ line.type \in {"open", "data", "end", "error"}
  <2>1. /\ mux[s] \in Muxes /\ AllSound(mux[s]) /\ line \in AllLines /\ line.type # "rpc"
        /\ m = HandleLine(mux[s], Known(s), line) /\ i = line.id
    BY <1>0, <1>1, <1>2
  <2> QED BY <2>1, LineFacts
<1>4. UNCHANGED <<call, chan, sent, shut, alive>>
  BY DEF HandleFrame, clientVars
<1>5. FrameOf(wire[s], 1, i) /\ call[t] = "open"
  <2>1. FrameOf(wire[s], 1, i)
    BY <1>0, <1>1 DEF FrameOf
  <2>2. ~Silent(wire[s], i)
    BY <1>1, <2>1, ShorterLines
  <2> QED BY <1>0, <1>2, <2>1, <2>2 DEF LinkOK, UnopenedOK, Untouched
<1>6. /\ OpensFirst(wire["back"], i)
      /\ t \in pending => Unused(mux["back"].ch[i]) /\ i \notin mux["back"].open
      /\ Opened(wire["back"], i) => t \in pending
      /\ t \in Uploads /\ ~mux["back"].ended /\ mux["back"].ch[i].end = "open" =>
           i \in mux["back"].open \/ Opened(wire["back"], i)
      /\ t \in Downloads /\ ~mux["front"].ended /\ mux["front"].ch[i].end = "open" => i \in mux["front"].open
      /\ t \in Uploads /\ t \in shut => i \notin mux["front"].open
      /\ t \in pending => job[t] = "none"
      /\ Flow(mux[Reader(t)].ch[i], wire[Reader(t)], i, sent[t], mux[Reader(t)].ended, Over(t), Own(t))
  BY <1>0, <1>2, <1>5 DEF LinkOK, OpeningOK, NumberOK, FlowOK, Ch
<1>7. line.type = "open" => s = "back" /\ t \in pending /\ i \in Known(s) /\ i \notin mux[s].open
  <2>1. ASSUME line.type = "open" PROVE Opened(wire[s], i)
    <3>1. IsOpen(wire[s], 1, i)
      BY <1>0, <1>1, <2>1 DEF IsOpen
    <3> QED BY <1>1, <3>1, ShorterLines
  <2>2. ASSUME line.type = "open" PROVE s = "back"
    BY <1>2, <2>1, <2>2, SideFacts DEF FrontAsks
  <2> QED BY <1>0, <1>6, <2>1, <2>2 DEF Known
<1>8. /\ t \in pending' => t \in pending
      /\ line.type = "open" => t \notin pending' /\ job'[t] = Started(t)
      /\ line.type # "open" => (t \in pending' <=> t \in pending) /\ job'[t] = job[t]
  <2>1. /\ job' = [u \in Transfers |-> IF u \in {x \in pending : /\ s = "back" /\ line.type = "open"
                                                                 /\ chan[x] = line.id /\ line.id \notin mux[s].open}
                                       THEN Started(u) ELSE job[u]]
        /\ pending' = pending \ {x \in pending : /\ s = "back" /\ line.type = "open"
                                                 /\ chan[x] = line.id /\ line.id \notin mux[s].open}
    BY DEF HandleFrame
  <2> QED BY <1>0, <1>7, <2>1
<1>9. /\ OpensFirst(wire[Other(s)], i) => OpensFirst(wire'[Other(s)], i)
      /\ Opened(wire[Other(s)], i) <=> Opened(wire'[Other(s)], i)
      /\ \A ch, x, ended, over, own : Flow(ch, wire[Other(s)], i, x, ended, over, own)
                                        => Flow(ch, wire'[Other(s)], i, x, ended, over, own)
  <2>1. ~(line.type = "open" /\ line.id \notin mux[s].open \union Known(s))
    BY <1>0, <1>7
  <2> QED BY <1>1, <2>1, ReplyKeeps, Zenon
<1>10. /\ OpensFirst(wire[s], i) => OpensFirst(wire'[s], i) /\ ~Opened(wire'[s], i)
       /\ Opened(wire'[s], i) => Opened(wire[s], i)
       /\ Opened(wire[s], i) => line.type = "open" \/ Opened(wire'[s], i)
  BY <1>0, <1>1, <1>5, ShorterLines DEF IsOpen
<1>11. /\ mux'[s].ch[i] = m.ch[i]
       /\ i \in mux'[s].open => i \in m.open
       /\ i \in m.open /\ m.ch[i].end = "open" => i \in mux'[s].open
  BY <1>1, <1>2 DEF Pruned
<1>12. /\ line.type = "open" => mux'[s].ch[i] = mux[s].ch[i] /\ i \in mux'[s].open
       /\ line.type # "open" /\ i \notin mux[s].open => mux'[s].ch[i] = mux[s].ch[i] /\ i \notin mux'[s].open
       /\ mux'[s].ch[i].end = "open" => mux[s].ch[i].end = "open"
       /\ line.type # "open" /\ i \in mux[s].open /\ mux'[s].ch[i].end = "open" => i \in mux'[s].open
  <2>1. CASE line.type = "open"
    <3>1. Unused(mux[s].ch[i]) /\ i \in m.open /\ m.ch[i] = NewChannel
      BY <1>3, <1>6, <1>7, <2>1
    <3>2. mux[s].ch[i] = NewChannel /\ NewChannel.end = "open"
      BY <1>2, <3>1, NewChannelFacts DEF Unused
    <3> QED BY <1>11, <2>1, <3>1, <3>2
  <2>2. CASE line.type # "open" /\ i \notin mux[s].open
    BY <1>3, <1>11, <2>2
  <2>3. CASE line.type # "open" /\ i \in mux[s].open
    <3>1. m.ch[i].end = "open" => mux[s].ch[i].end = "open"
      BY <1>2, <1>3, <2>3, DataFacts, FinishFacts
    <3> QED BY <1>3, <1>11, <2>3, <3>1
  <2> QED BY <2>1, <2>2, <2>3
<1>13. NumberOK(t)'
  BY <1>1, <1>2, <1>4, <1>6, <1>8, <1>5 DEF LinkOK, NumberOK, Steady, HandleFrame
<1>14. UnopenedOK(t)'
  BY <1>4, <1>5 DEF UnopenedOK
<1>15. RpcOK(t)'
  <2>1. \A r \in Sides : RpcQuiet(wire[r], wire'[r], t)
    BY FrameAside
  <2> QED BY <1>2, <1>4, <2>1, SideFacts, RpcQuietKeeps DEF LinkOK, RpcOK
<1>16. /\ chan'[t] = i /\ call'[t] = "open" /\ Ch("back", t)' = mux'["back"].ch[i]
       /\ Ch("front", t)' = mux'["front"].ch[i]
  BY <1>0, <1>4, <1>5 DEF Ch
<1>17. OpeningOK(t)'
  <2>1. CASE s = "back"
    <3>1. Other(s) = "front" /\ mux'["back"].ended = mux["back"].ended /\ mux'["front"] = mux["front"]
      BY <1>1, <2>1, SideFacts
    <3>2. OpensFirst(wire'["back"], i) /\ (Opened(wire'["back"], i) => t \in pending')
      BY <1>6, <1>10, <2>1
    <3>3. t \in pending' => Unused(mux'["back"].ch[i]) /\ i \notin mux'["back"].open
      BY <1>6, <1>8, <1>12, <2>1
    <3>4. t \in Uploads /\ ~mux'["back"].ended /\ mux'["back"].ch[i].end = "open" => i \in mux'["back"].open
      BY <1>6, <1>10, <1>12, <2>1, <3>1
    <3> QED BY <1>4, <1>6, <1>16, <3>1, <3>2, <3>3, <3>4 DEF OpeningOK
  <2>2. CASE s = "front"
    <3>1. /\ Other(s) = "back" /\ mux'["front"].ended = mux["front"].ended /\ mux'["back"] = mux["back"]
          /\ line.type # "open"
      BY <1>1, <1>7, <2>2, SideFacts
    <3>2. OpensFirst(wire'["back"], i) /\ (Opened(wire["back"], i) <=> Opened(wire'["back"], i))
      BY <1>6, <1>9, <3>1
    <3>3. t \in Downloads /\ ~mux'["front"].ended /\ mux'["front"].ch[i].end = "open" => i \in mux'["front"].open
      BY <1>6, <1>12, <2>2, <3>1
    <3>4. t \in Uploads /\ t \in shut => i \notin mux'["front"].open
      BY <1>6, <1>12, <2>2, <3>1
    <3> QED BY <1>4, <1>6, <1>8, <1>16, <3>1, <3>2, <3>3, <3>4 DEF OpeningOK
  <2> QED BY <2>1, <2>2 DEF Sides
<1>18. FlowOK(t)'
  <2>0. PICK r, x, over, own : r = Reader(t) /\ x = sent[t] /\ over = Over(t) /\ own = Own(t)
    OBVIOUS
  <2>a. r \in Sides /\ sent'[t] = x
    BY <1>4, <2>0, SideFacts
  <2>1. (over => Over(t)') /\ (own => Own(t)')
    <3>1. job[t] = "done" => job'[t] = "done"
      BY <1>6, <1>7, <1>8
    <3> QED BY <1>4, <2>0, <3>1 DEF Over, Own
  <2>2. Flow(mux'[r].ch[i], wire'[r], i, x, mux'[r].ended, over, own)
    <3>1. CASE r = Other(s)
      <4>1. mux'[r] = mux[r]
        BY <1>1, <3>1
      <4>2. Flow(mux[r].ch[i], wire[r], i, x, mux[r].ended, over, own)
        BY <1>6, <2>0
      <4> QED BY <1>9, <3>1, <4>1, <4>2
    <3>2. CASE r = s
      <4>1. mux'[s].ended = mux[s].ended /\ Flow(mux[s].ch[i], wire[s], i, x, mux[s].ended, over, own)
        BY <1>1, <1>6, <2>0, <3>2
      <4>2. \/ mux'[s].ch[i] = mux[s].ch[i] /\ (line.type = "data" => mux[s].ch[i].end # "open")
            \/ line.type = "data" /\ mux'[s].ch[i] = Data(mux[s].ch[i], line.v)
            \/ line.type = "end" /\ mux'[s].ch[i] = Finish(mux[s].ch[i], "done")
            \/ line.type = "error" /\ mux'[s].ch[i] = Finish(mux[s].ch[i], "error")
        <5>1. CASE i \in mux[s].open \/ line.type # "data"
          BY <1>3, <1>11, <1>12, <5>1
        <5>2. CASE i \notin mux[s].open /\ line.type = "data"
          <6>1. mux'[s].ch[i] = mux[s].ch[i]
            BY <1>12, <5>2
          <6>2. mux[s].ch[i].end # "open"
            <7>1. CASE s = "back"
              <8>1. t \in Uploads
                BY <2>0, <3>2, <7>1 DEF Reader
              <8>2. ~Opened(wire["back"], i)
                BY <1>6, <1>10, <5>2, <7>1
              <8> QED BY <1>1, <1>6, <5>2, <7>1, <8>1, <8>2
            <7>2. CASE s = "front"
              <8>1. t \in Downloads
                BY <2>0, <3>2, <7>2 DEF Reader, Transfers
              <8> QED BY <1>1, <1>6, <5>2, <7>2, <8>1
            <7> QED BY <7>1, <7>2 DEF Sides
          <6> QED BY <6>1, <6>2
        <5> QED BY <5>1, <5>2
      <4>3. line.type = "data" => line.v \in Payload
        BY <1>1 DEF AllLines, DataFrames, PlainLines
      <4>4. Flow(mux'[s].ch[i], wire'[s], i, x, mux[s].ended, over, own)
        BY <1>0, <1>1, <1>2, <2>0, <4>1, <4>2, <4>3, FlowHandles
      <4> QED BY <3>2, <4>1, <4>4
    <3> QED BY <2>a, <3>1, <3>2, SideFacts
  <2>3. Flow(mux'[r].ch[i], wire'[r], i, x, mux'[r].ended, Over(t)', Own(t)')
    BY <2>1, <2>2, FlowKnows
  <2> QED BY <1>16, <2>0, <2>a, <2>3 DEF FlowOK, Ch, Reader
<1> QED BY <1>13, <1>14, <1>15, <1>17, <1>18 DEF LinkOK

\* handleLine keeps the link of every transfer.
LEMMA FrameKeeps ==
  ASSUME TransferInv, NEW s \in Sides, HandleFrame(s)
  PROVE  mux' \in [Sides -> Muxes] /\ wire' \in [Sides -> Seq(Units)] /\ LinkInv'
<1>0. PICK line, m : line = Unit(s).line /\ m = HandleLine(mux[s], Known(s), line)
  OBVIOUS
<1>1. /\ mux' \in [Sides -> Muxes] /\ (\A r \in Sides : AllSound(mux'[r]))
      /\ wire' \in [Sides -> Seq(Units)] /\ line.id < next
      /\ Streams' /\ Steady /\ OneOwner' /\ FrontAsks'
  BY <1>0, FrameFacts
<1>2. PICK T : T = {u \in Transfers : chan[u] = line.id /\ chan[u] # 0}
  OBVIOUS
<1>3. /\ \A i \in Ids : i # line.id => IdAside(i)
      /\ line.id \in Ids => line.id < next
      /\ \A u \in Transfers : u \notin T => Aside(u)
  BY <1>0, <1>1, <1>2, FrameAside
<1>4. \A u \in Transfers : u \in T => LinkOK(u)'
  BY <1>0, <1>2, FrameOwner
<1>5. TransferTypeOK /\ LinkInv
  BY DEF TransferInv
<1> QED BY <1>1, <1>3, <1>4, <1>5, LinkClose

----------------------------------------------------------------------------
(* A side sends a frame of one of its channels *)

\* m2 is m but for its channel i.
OthersStay(m, m2, i) ==
  \A j \in Ids : j # i => /\ m2.ch[j] = m.ch[j] /\ (j \in m2.open => j \in m.open)
                          /\ (j \in m.open /\ m.ch[j].end = "open" => j \in m2.open)

\* Side s sent a line of channel i.
Delivered(s, line, i) ==
  /\ wire' \in [Sides -> Seq(Units)] /\ (\A r \in Sides : AllSound(mux'[r]) /\ mux'[r].ended = mux[r].ended)
  /\ Streams' /\ Steady /\ OneOwner' /\ FrontAsks'
  /\ wire'[s] = wire[s]
  /\ ~mux[Other(s)].ended => Longer(wire[Other(s)], wire'[Other(s)], line)
  /\ mux[Other(s)].ended => wire' = wire
  /\ \A j \in Ids : j # i => IdAside(j)
  /\ \A u : \A r \in Sides : RpcQuiet(wire[r], wire'[r], u)

\* The step of a side that sends a frame of channel i and may change its own
\* end of it.
LEMMA FrameSent ==
  ASSUME TransferInv, NEW s \in Sides, NEW i \in Ids, i < next, NEW line \in AllLines, line.id = i,
         line.type \in {"open", "data", "end"}, line.type # "open" \/ s = "front",
         wire' = Sent(s, line), NEW m \in Muxes, AllSound(m), m.ended = mux[s].ended, ~mux[s].ended,
         mux' \in [Sides -> Muxes], mux'[s] = m, mux'[Other(s)] = mux[Other(s)],
         OthersStay(mux[s], m, i), UNCHANGED <<chan, next, alive>>
  PROVE  Delivered(s, line, i)
<1>1. /\ TransferTypeOK /\ Streams /\ FrontAsks /\ OneOwner /\ (\A r \in Sides : AllSound(mux[r]))
      /\ Other(s) \in Sides /\ \A r \in Sides : r = s \/ r = Other(s)
  BY SideFacts DEF TransferInv, LinkInv, Readers, AllSound
<1>2. /\ wire' \in [Sides -> Seq(Units)]
      /\ \A j : j # i => \A r \in Sides : FrameQuiet(wire[r], wire'[r], j)
      /\ \A u : \A r \in Sides : RpcQuiet(wire[r], wire'[r], u)
      /\ \A r \in Sides : mux[r].ended => wire'[r] = <<>>
      /\ FrontAsks'
      /\ wire'[s] = wire[s]
      /\ ~mux[Other(s)].ended => Longer(wire[Other(s)], wire'[Other(s)], line)
      /\ mux[Other(s)].ended => wire' = wire
  <2>1. line.type # "rpc"
    OBVIOUS
  <2> QED BY <1>1, <2>1, SendAside
<1>3. \A r \in Sides : AllSound(mux'[r]) /\ mux'[r].ended = mux[r].ended
  BY <1>1
<1>4. Streams'
  <2>1. ASSUME NEW r \in Sides, mux'[r].ended PROVE mux'[r].open = {}
    <3>1. r = Other(s) /\ mux[r].ended
      BY <1>1, <1>3, <2>1
    <3> QED BY <1>1, <3>1 DEF Streams
  <2>2. ~alive' => mux'["back"].ended
    BY <1>1, <1>3, SideFacts DEF Streams
  <2> QED BY <1>2, <1>3, <2>1, <2>2 DEF Streams
<1>5. Steady /\ OneOwner'
  BY <1>1, <1>3 DEF Steady, OneOwner, TransferTypeOK
<1>6. ASSUME NEW j \in Ids, j # i PROVE IdAside(j)
  BY <1>1, <1>2, <1>6 DEF IdAside, OthersStay
<1> QED BY <1>2, <1>3, <1>4, <1>5, <1>6 DEF Delivered

\* The step of one transfer with a channel.
LEMMA OwnerClose ==
  ASSUME TransferInv, NEW t \in Transfers, NEW i, i = chan[t], i # 0, i < next,
         \A r \in Sides : AllSound(mux'[r]), Streams', Steady, OneOwner', FrontAsks',
         \A j \in Ids : j # i => IdAside(j), \A u : \A r \in Sides : RpcQuiet(wire[r], wire'[r], u),
         \A u \in Transfers : u # t => /\ call'[u] = call[u] /\ chan'[u] = chan[u] /\ sent'[u] = sent[u]
                                       /\ (u \in shut' <=> u \in shut) /\ (u \in pending' <=> u \in pending)
                                       /\ job'[u] = job[u],
         LinkOK(t)'
  PROVE  LinkInv'
<1>1. TransferTypeOK /\ LinkInv /\ OneOwner
  BY DEF TransferInv, LinkInv
<1>2. ASSUME NEW u \in Transfers, u # t PROVE Aside(u)
  <2>1. chan[u] # 0 => chan[u] # i /\ chan[u] \in Ids
    BY <1>1, <1>2 DEF OneOwner, TransferTypeOK
  <2> QED BY <1>2, <2>1 DEF Aside, Calm
<1>3. /\ i \in Ids => i < next
      /\ \A u \in Transfers : u \notin {t} => Aside(u)
      /\ \A u \in Transfers : u \in {t} => LinkOK(u)'
  BY <1>2
<1> QED BY <1>1, <1>3, LinkClose

\* A transfer that has a channel.
LEMMA ChannelFacts ==
  ASSUME TransferInv, NEW t \in Transfers, NEW i, i = chan[t], i # 0
  PROVE  /\ i \in Ids /\ i \in Nat /\ i < next /\ TransferTypeOK /\ LinkOK(t) /\ Streams
         /\ sent[t] \in Seq(Payload)
         /\ \A r \in Sides : mux[r] \in Muxes /\ AllSound(mux[r]) /\ mux[r].ch[i] \in Channels /\ Sound(mux[r].ch[i])
         /\ OpensFirst(wire["back"], i)
         /\ t \in pending => Unused(mux["back"].ch[i]) /\ i \notin mux["back"].open /\ job[t] = "none"
         /\ Opened(wire["back"], i) => t \in pending
         /\ t \in Uploads /\ call[t] = "open" /\ ~mux["back"].ended /\ mux["back"].ch[i].end = "open" =>
              i \in mux["back"].open \/ Opened(wire["back"], i)
         /\ t \in Downloads /\ call[t] = "open" /\ ~mux["front"].ended /\ mux["front"].ch[i].end = "open" =>
              i \in mux["front"].open
         /\ t \in Uploads /\ t \in shut => i \notin mux["front"].open
         /\ Flow(mux[Reader(t)].ch[i], wire[Reader(t)], i, sent[t], mux[Reader(t)].ended, Over(t), Own(t))
         /\ call[t] # "open" => Untouched(i) /\ (~mux["back"].ended => t \in pending)
<1>1. TransferTypeOK /\ LinkOK(t) /\ Streams /\ Readers
  BY DEF TransferInv, LinkInv
<1>2. i \in Ids /\ i \in Nat /\ i < next /\ sent[t] \in Seq(Payload)
  BY <1>1, NatFacts DEF TransferTypeOK, LinkOK, NumberOK
<1>3. ASSUME NEW r \in Sides
      PROVE  mux[r] \in Muxes /\ AllSound(mux[r]) /\ mux[r].ch[i] \in Channels /\ Sound(mux[r].ch[i])
  <2>1. mux[r] \in Muxes /\ AllSound(mux[r])
    BY <1>1 DEF TransferTypeOK, Readers, AllSound
  <2> QED BY <1>2, <2>1, MuxParts DEF AllSound
<1>4. /\ OpensFirst(wire["back"], i)
      /\ t \in pending => Unused(mux["back"].ch[i]) /\ i \notin mux["back"].open /\ job[t] = "none"
      /\ Opened(wire["back"], i) => t \in pending
      /\ t \in Uploads /\ call[t] = "open" /\ ~mux["back"].ended /\ mux["back"].ch[i].end = "open" =>
           i \in mux["back"].open \/ Opened(wire["back"], i)
      /\ t \in Downloads /\ call[t] = "open" /\ ~mux["front"].ended /\ mux["front"].ch[i].end = "open" =>
           i \in mux["front"].open
      /\ t \in Uploads /\ t \in shut => i \notin mux["front"].open
  BY <1>1 DEF LinkOK, OpeningOK, NumberOK, Ch
<1>5. Flow(mux[Reader(t)].ch[i], wire[Reader(t)], i, sent[t], mux[Reader(t)].ended, Over(t), Own(t))
  BY <1>1 DEF LinkOK, FlowOK, Ch
<1>6. call[t] # "open" => Untouched(i) /\ (~mux["back"].ended => t \in pending)
  BY <1>1 DEF LinkOK, UnopenedOK
<1> QED BY <1>1, <1>2, <1>3, <1>4, <1>5, <1>6

\* The same, of the next state.
LEMMA ChannelClose ==
  ASSUME NEW t \in Transfers, NEW i, i = chan'[t], i # 0, call'[t] = "open",
         i < next', t \in pending' => job'[t] = "none",
         RpcOK(t)',
         OpensFirst(wire'["back"], i),
         t \in pending' => Unused(mux'["back"].ch[i]) /\ i \notin mux'["back"].open,
         Opened(wire'["back"], i) => t \in pending',
         t \in Uploads /\ ~mux'["back"].ended /\ mux'["back"].ch[i].end = "open" =>
           i \in mux'["back"].open \/ Opened(wire'["back"], i),
         t \in Downloads /\ ~mux'["front"].ended /\ mux'["front"].ch[i].end = "open" => i \in mux'["front"].open,
         t \in Uploads /\ t \in shut' => i \notin mux'["front"].open,
         NEW r, r = Reader(t),
         Flow(mux'[r].ch[i], wire'[r], i, sent'[t], mux'[r].ended, Over(t)', Own(t)')
  PROVE  LinkOK(t)'
<1>1. NumberOK(t)' /\ UnopenedOK(t)'
  BY DEF NumberOK, UnopenedOK
<1>2. Ch("back", t)' = mux'["back"].ch[i] /\ Ch("front", t)' = mux'["front"].ch[i]
  BY DEF Ch
<1>3. OpeningOK(t)'
  BY <1>2 DEF OpeningOK
<1>4. FlowOK(t)'
  BY DEF FlowOK, Ch, Reader
<1> QED BY <1>1, <1>3, <1>4 DEF LinkOK

\* The call of a transfer is over once its channel is open.
LEMMA RpcKept ==
  ASSUME TransferInv, NEW t \in Transfers, chan'[t] = chan[t],
         call'[t] = call[t] \/ call[t] \notin {"calling", "answered"},
         \A r \in Sides : RpcQuiet(wire[r], wire'[r], t)
  PROVE  RpcOK(t)'
<1>1. RpcOK(t)
  BY DEF TransferInv, LinkInv, LinkOK
<1>2. RpcQuiet(wire["front"], wire'["front"], t) /\ RpcQuiet(wire["back"], wire'["back"], t)
  BY SideFacts
<1> QED BY <1>1, <1>2, RpcQuietKeeps DEF RpcOK

\* The frontend opens the channel it was given: its id is free at both ends,
\* so it never throws, and the open frame is the first of the channel.
LEMMA OpenChannelKeeps ==
  ASSUME TransferInv, NEW t \in Transfers, OpenChannel(t)
  PROVE  /\ mux' \in [Sides -> Muxes] /\ wire' \in [Sides -> Seq(Units)] /\ LinkInv'
         /\ call' = [call EXCEPT ![t] = "open"] /\ mux'["back"] = mux["back"]
<1>0. PICK i : i = chan[t]
  OBVIOUS
<1>a. call[t] = "ready" /\ ~mux["front"].ended /\ UNCHANGED <<chan, sent, shut, pending, next, job, alive>>
  BY DEF OpenChannel, managerVars, jobVars
<1>b. i # 0
  BY <1>0, <1>a DEF TransferInv, LinkInv, LinkOK, NumberOK
<1>1. /\ i \in Ids /\ i \in Nat /\ i < next /\ TransferTypeOK /\ LinkOK(t)
      /\ \A r \in Sides : mux[r] \in Muxes /\ AllSound(mux[r]) /\ mux[r].ch[i] \in Channels
      /\ t \in pending => Unused(mux["back"].ch[i]) /\ i \notin mux["back"].open /\ job[t] = "none"
      /\ Flow(mux[Reader(t)].ch[i], wire[Reader(t)], i, sent[t], mux[Reader(t)].ended, Over(t), Own(t))
      /\ Untouched(i) /\ (~mux["back"].ended => t \in pending)
  BY <1>0, <1>a, <1>b, ChannelFacts
<1>2. /\ "front" \in Sides /\ "back" \in Sides /\ Other("front") = "back"
      /\ Frame(i, "open", <<>>) \in AllLines /\ Frame(i, "open", <<>>).type = "open" /\ Frame(i, "open", <<>>).id = i
  BY <1>1, SideFacts, LineTypes
<1>3. PICK line : line = Frame(i, "open", <<>>)
  OBVIOUS
<1>4. /\ i \notin mux["front"].open /\ Unused(mux["front"].ch[i])
      /\ Silent(wire["back"], i) /\ sent[t] = <<>> /\ t \notin shut
  BY <1>1, <1>2, <1>a DEF Untouched, LinkOK, UnopenedOK
<1>5. PICK m : m = Create(mux["front"], i)
  OBVIOUS
<1>6. /\ call' = [call EXCEPT ![t] = "open"] /\ mux' = [mux EXCEPT !["front"] = m] /\ wire' = Sent("front", line)
  BY <1>0, <1>3, <1>4, <1>5 DEF OpenChannel, Send
<1>7. /\ m \in Muxes /\ m.open = mux["front"].open \union {i} /\ m.ended = mux["front"].ended
      /\ \A j \in Ids : m.ch[j] = mux["front"].ch[j]
  <2>1. /\ m \in Muxes /\ m.open = mux["front"].open \union {i}
        /\ m.ch = [mux["front"].ch EXCEPT ![i] = NewChannel] /\ m.ended = mux["front"].ended
    BY <1>1, <1>2, <1>5, CreateFacts
  <2>2. mux["front"].ch[i] = NewChannel /\ mux["front"].ch \in [Ids -> Channels]
    BY <1>1, <1>2, <1>4, NewChannelFacts, MuxParts
  <2> QED BY <2>1, <2>2
<1>8. AllSound(m)
  BY <1>1, <1>2, <1>7 DEF AllSound
<1>9. mux' \in [Sides -> Muxes] /\ mux'["front"] = m /\ mux'["back"] = mux["back"]
  BY <1>1, <1>2, <1>6, <1>7 DEF TransferTypeOK
<1>10. /\ wire' \in [Sides -> Seq(Units)] /\ (\A r \in Sides : AllSound(mux'[r]) /\ mux'[r].ended = mux[r].ended)
       /\ Streams' /\ Steady /\ OneOwner' /\ FrontAsks'
       /\ wire'["front"] = wire["front"]
       /\ ~mux["back"].ended => Longer(wire["back"], wire'["back"], line)
       /\ mux["back"].ended => wire' = wire
       /\ \A j \in Ids : j # i => IdAside(j)
       /\ \A u : \A r \in Sides : RpcQuiet(wire[r], wire'[r], u)
  <2>1. OthersStay(mux["front"], m, i)
    BY <1>7 DEF OthersStay
  <2>2. /\ line \in AllLines /\ line.id = i /\ line.type \in {"open", "data", "end"}
        /\ mux'[Other("front")] = mux[Other("front")] /\ UNCHANGED <<chan, next, alive>>
    BY <1>a, <1>2, <1>3, <1>9
  <2>3. Delivered("front", line, i)
    BY <1>a, <1>1, <1>2, <1>6, <1>7, <1>8, <1>9, <2>1, <2>2, FrameSent
  <2> QED BY <1>2, <2>3 DEF Delivered
<1>11. LinkOK(t)'
  <2>1. RpcOK(t)'
    BY <1>a, <1>10, RpcKept
  <2>2. /\ OpensFirst(wire'["back"], i)
        /\ ~mux["back"].ended => Opened(wire'["back"], i)
        /\ mux["back"].ended => ~Opened(wire'["back"], i)
    <3>1. OpensFirst(wire["back"], i) /\ ~Opened(wire["back"], i)
      BY <1>4, SilentFacts
    <3>2. CASE mux["back"].ended
      BY <1>10, <3>1, <3>2
    <3>3. CASE ~mux["back"].ended
      BY <1>2, <1>3, <1>4, <1>10, <3>1, <3>3, LongerLines
    <3> QED BY <3>2, <3>3
  <2>3. PICK r : r = Reader(t)
    OBVIOUS
  <2>4. Flow(mux'[r].ch[i], wire'[r], i, sent'[t], mux'[r].ended, Over(t)', Own(t)')
    <3>1. r \in Sides /\ mux'[r].ch[i] = mux[r].ch[i] /\ mux'[r].ended = mux[r].ended /\ sent'[t] = sent[t]
      BY <1>a, <1>1, <1>7, <1>9, <1>10, <2>3, SideFacts
    <3>2. (Over(t)' <=> Over(t)) /\ (Own(t)' <=> Own(t))
      BY <1>a DEF Over, Own
    <3>3. wire'[r] = wire[r] \/ Longer(wire[r], wire'[r], line)
      BY <1>10, <3>1, SideFacts
    <3>4. line.type \notin {"data", "end"}
      BY <1>2, <1>3
    <3>5. Flow(mux[r].ch[i], wire'[r], i, sent[t], mux[r].ended, Over(t), Own(t))
      BY <1>1, <2>3, <3>3, <3>4, FlowLonger
    <3>6. Flow(mux[r].ch[i], wire'[r], i, sent[t], mux[r].ended, Over(t)', Own(t)')
      BY <3>2, <3>5, FlowKnows
    <3> QED BY <3>1, <3>6
  <2>5. /\ i = chan'[t] /\ call'[t] = "open" /\ i < next' /\ (t \in pending' => job'[t] = "none")
        /\ t \in pending' => Unused(mux'["back"].ch[i]) /\ i \notin mux'["back"].open
        /\ Opened(wire'["back"], i) => t \in pending'
        /\ ~mux'["back"].ended => Opened(wire'["back"], i)
        /\ i \in mux'["front"].open /\ t \notin shut'
    BY <1>0, <1>a, <1>1, <1>4, <1>6, <1>7, <1>9, <1>10, <2>2 DEF TransferTypeOK
  <2> QED BY <1>b, <2>1, <2>2, <2>3, <2>4, <2>5, ChannelClose
<1>12. \A u \in Transfers : u # t => /\ call'[u] = call[u] /\ chan'[u] = chan[u] /\ sent'[u] = sent[u]
                                     /\ (u \in shut' <=> u \in shut) /\ (u \in pending' <=> u \in pending)
                                     /\ job'[u] = job[u]
  BY <1>a, <1>1, <1>6 DEF TransferTypeOK
<1>13. LinkInv'
  BY <1>0, <1>b, <1>1, <1>10, <1>11, <1>12, OwnerClose
<1> QED BY <1>6, <1>9, <1>10, <1>13

\* A side sends a data or an end frame of channel i; with the end frame it
\* closes its own end.
OwnFrame(s, line, i, m) ==
  /\ line \in AllLines /\ line.id = i /\ line.type \in {"data", "end"} /\ wire' = Sent(s, line)
  /\ ~mux[s].ended /\ mux' = [mux EXCEPT ![s] = m] /\ (m = mux[s] \/ m = Closed(mux[s], i))
  /\ UNCHANGED <<call, chan, next, alive, pending>>

OwnFramed(s, line, i, m) ==
  /\ mux' \in [Sides -> Muxes] /\ mux'[s] = m /\ mux'[Other(s)] = mux[Other(s)] /\ Delivered(s, line, i)
  /\ m = mux[s] \/ (m.ch[i] = Finish(mux[s].ch[i], "done") /\ m.ch[i].end # "open" /\ i \notin m.open)

\* What such a frame does to the two ends and to the wires.
LEMMA OwnFrameFacts ==
  ASSUME TransferInv, NEW t \in Transfers, NEW i, i = chan[t], i # 0, NEW s \in Sides, NEW line, NEW m,
         OwnFrame(s, line, i, m)
  PROVE  OwnFramed(s, line, i, m)
<1>1. /\ i \in Ids /\ i < next /\ TransferTypeOK
      /\ \A r \in Sides : mux[r] \in Muxes /\ AllSound(mux[r]) /\ mux[r].ch[i] \in Channels /\ Sound(mux[r].ch[i])
  BY ChannelFacts
<1>2. /\ line \in AllLines /\ line.id = i /\ line.type \in {"open", "data", "end"} /\ line.type # "open"
      /\ wire' = Sent(s, line) /\ ~mux[s].ended /\ mux' = [mux EXCEPT ![s] = m]
      /\ m = mux[s] \/ m = Closed(mux[s], i)
      /\ UNCHANGED <<chan, next, alive>>
  BY DEF OwnFrame
<1>3. m = mux[s] \/ (m.ch[i] = Finish(mux[s].ch[i], "done") /\ m.ch[i].end # "open" /\ i \notin m.open)
  <2>1. Finish(mux[s].ch[i], "done").end # "open"
    BY <1>1, FinishFacts
  <2>2. m = Closed(mux[s], i) => m.ch[i] = Finish(mux[s].ch[i], "done") /\ i \notin m.open
    BY <1>1, ClosedFacts
  <2> QED BY <1>2, <2>1, <2>2
<1>4. m \in Muxes /\ AllSound(m) /\ m.ended = mux[s].ended /\ OthersStay(mux[s], m, i)
  <2>1. CASE m = mux[s]
    BY <1>1, <2>1 DEF OthersStay
  <2>2. CASE m = Closed(mux[s], i)
    <3>1. /\ m \in Muxes /\ m.ended = mux[s].ended /\ m.ch[i] = Finish(mux[s].ch[i], "done")
          /\ \A j \in Ids : j # i => m.ch[j] = mux[s].ch[j]
          /\ \A j \in Ids : (j \in m.open => j \in mux[s].open) /\ (j \in mux[s].open /\ m.ch[j].end = "open" => j \in m.open)
      BY <1>1, <2>2, ClosedFacts
    <3>2. Sound(m.ch[i])
      BY <1>1, <3>1, FinishFacts
    <3> QED BY <1>1, <3>1, <3>2 DEF OthersStay, AllSound
  <2> QED BY <1>2, <2>1, <2>2
<1>5. mux' \in [Sides -> Muxes] /\ mux'[s] = m /\ mux'[Other(s)] = mux[Other(s)]
  BY <1>1, <1>2, <1>4, SideFacts DEF TransferTypeOK
<1>6. Delivered(s, line, i)
  BY <1>1, <1>2, <1>4, <1>5, FrameSent
<1> QED BY <1>3, <1>5, <1>6 DEF OwnFramed

\* The link of a transfer after such a frame, from the flow of its chunks.
LEMMA OwnFrameKeeps ==
  ASSUME TransferInv, NEW t \in Transfers, NEW i, i = chan[t], i # 0, NEW s \in Sides, NEW line, NEW m,
         OwnFrame(s, line, i, m), call[t] = "open",
         s = "front" \/ (t \in Downloads /\ t \notin pending),
         s = "front" /\ t \in Downloads => m # mux[s],
         t \in Uploads /\ t \in shut' => i \notin m.open,
         \A u \in Transfers : u # t => sent'[u] = sent[u] /\ (u \in shut' <=> u \in shut) /\ job'[u] = job[u],
         t \in pending => job'[t] = job[t],
         NEW r, r = Reader(t),
         Flow(mux'[r].ch[i], wire'[r], i, sent'[t], mux'[r].ended, Over(t)', Own(t)')
  PROVE  mux' \in [Sides -> Muxes] /\ wire' \in [Sides -> Seq(Units)] /\ LinkInv'
<1>1. /\ mux' \in [Sides -> Muxes] /\ mux'[s] = m /\ mux'[Other(s)] = mux[Other(s)] /\ Delivered(s, line, i)
      /\ m = mux[s] \/ (m.ch[i] = Finish(mux[s].ch[i], "done") /\ m.ch[i].end # "open" /\ i \notin m.open)
  <2>1. OwnFramed(s, line, i, m)
    BY OwnFrameFacts
  <2> QED BY <2>1 DEF OwnFramed
<1>2. /\ wire' \in [Sides -> Seq(Units)] /\ (\A q \in Sides : AllSound(mux'[q]) /\ mux'[q].ended = mux[q].ended)
      /\ Streams' /\ Steady /\ OneOwner' /\ FrontAsks'
      /\ wire'[s] = wire[s]
      /\ ~mux[Other(s)].ended => Longer(wire[Other(s)], wire'[Other(s)], line)
      /\ mux[Other(s)].ended => wire' = wire
      /\ \A j \in Ids : j # i => IdAside(j)
      /\ \A u : \A q \in Sides : RpcQuiet(wire[q], wire'[q], u)
  BY <1>1 DEF Delivered
<1>3. line.type \in {"data", "end"} /\ UNCHANGED <<call, chan, next, alive, pending>>
  BY DEF OwnFrame
<1>4. /\ i \in Ids /\ i < next /\ TransferTypeOK
      /\ OpensFirst(wire["back"], i)
      /\ t \in pending => Unused(mux["back"].ch[i]) /\ i \notin mux["back"].open /\ job[t] = "none"
      /\ Opened(wire["back"], i) => t \in pending
      /\ t \in Uploads /\ ~mux["back"].ended /\ mux["back"].ch[i].end = "open" =>
           i \in mux["back"].open \/ Opened(wire["back"], i)
      /\ t \in Downloads /\ ~mux["front"].ended /\ mux["front"].ch[i].end = "open" => i \in mux["front"].open
  BY ChannelFacts
<1>5. OpensFirst(wire'["back"], i) /\ (Opened(wire'["back"], i) <=> Opened(wire["back"], i))
  <2>1. wire'["back"] = wire["back"] \/ Longer(wire["back"], wire'["back"], line)
    BY <1>2, SideFacts
  <2>2. CASE wire'["back"] = wire["back"]
    BY <1>4, <2>2
  <2>3. CASE Longer(wire["back"], wire'["back"], line)
    BY <1>3, <1>4, <2>3, LongerLines
  <2> QED BY <2>1, <2>2, <2>3
<1>6. RpcOK(t)'
  BY <1>2, <1>3, RpcKept
<1>7. s = "front" => mux'["back"] = mux["back"] /\ mux'["front"] = m
  BY <1>1, SideFacts
<1>8. s = "back" => mux'["front"] = mux["front"] /\ mux'["back"] = m
  BY <1>1, SideFacts
<1>9. s = "front" \/ s = "back"
  BY SideFacts
<1>10. t \in Uploads => t \notin Downloads
  BY TransferAssumption
<1>11. /\ i = chan'[t] /\ call'[t] = "open" /\ i < next' /\ (t \in pending' => job'[t] = "none")
       /\ t \in pending' => Unused(mux'["back"].ch[i]) /\ i \notin mux'["back"].open
       /\ Opened(wire'["back"], i) => t \in pending'
  BY <1>3, <1>4, <1>5, <1>7, <1>9
<1>12. t \in Uploads /\ ~mux'["back"].ended /\ mux'["back"].ch[i].end = "open" =>
          i \in mux'["back"].open \/ Opened(wire'["back"], i)
  BY <1>4, <1>5, <1>7, <1>10
<1>13. t \in Downloads /\ ~mux'["front"].ended /\ mux'["front"].ch[i].end = "open" => i \in mux'["front"].open
  BY <1>1, <1>4, <1>7, <1>8, <1>9
<1>14. t \in Uploads /\ t \in shut' => i \notin mux'["front"].open
  BY <1>7, <1>10
<1>15. LinkOK(t)'
  BY <1>5, <1>6, <1>11, <1>12, <1>13, <1>14, ChannelClose
<1>16. \A u \in Transfers : u # t => /\ call'[u] = call[u] /\ chan'[u] = chan[u] /\ sent'[u] = sent[u]
                                     /\ (u \in shut' <=> u \in shut) /\ (u \in pending' <=> u \in pending)
                                     /\ job'[u] = job[u]
  BY <1>3
<1> QED BY <1>1, <1>2, <1>4, <1>15, <1>16, OwnerClose

\* The frontend writes a chunk of an upload; it has not closed the channel.
LEMMA WriteKeeps ==
  ASSUME TransferInv, NEW t \in Transfers, ClientWrite(t)
  PROVE  mux' \in [Sides -> Muxes] /\ wire' \in [Sides -> Seq(Units)] /\ LinkInv' /\ t \notin shut
<1>1. PICK i, v, line, r : /\ i = chan[t] /\ v = <<t, Len(sent[t]) + 1>> /\ line = Frame(i, "data", v)
                           /\ r = Reader(t)
  OBVIOUS
<1>2. /\ i # 0 /\ i \in mux["front"].open /\ t \in Uploads /\ call[t] = "open"
      /\ sent' = [sent EXCEPT ![t] = Append(@, v)] /\ wire' = Sent("front", line)
      /\ UNCHANGED <<mux, call, chan, shut, pending, next, job, alive>>
  BY <1>1 DEF ClientWrite, OpenAt, Send, managerVars, jobVars
<1>3. /\ i \in Ids /\ TransferTypeOK /\ Streams /\ sent[t] \in Seq(Payload)
      /\ \A q \in Sides : mux[q] \in Muxes /\ AllSound(mux[q]) /\ mux[q].ch[i] \in Channels
      /\ t \in shut => i \notin mux["front"].open
      /\ Flow(mux[Reader(t)].ch[i], wire[Reader(t)], i, sent[t], mux[Reader(t)].ended, Over(t), Own(t))
  BY <1>1, <1>2, ChannelFacts
<1>4. r = "back" /\ t \notin shut /\ t \notin Downloads /\ t \notin shut'
  BY <1>1, <1>2, <1>3, TransferAssumption DEF Reader
<1>5. v \in Payload /\ v[2] = Len(sent[t]) + 1
  BY <1>1, <1>2, <1>3 DEF Payload
<1>6. line \in AllLines /\ line.type = "data" /\ line.id = i /\ line.v = v
  BY <1>1, <1>3, <1>5, LineTypes
<1>7. /\ OwnFrame("front", line, i, mux["front"]) /\ "front" \in Sides
      /\ \A u \in Transfers : u # t => sent'[u] = sent[u] /\ (u \in shut' <=> u \in shut) /\ job'[u] = job[u]
  <2>1. ~mux["front"].ended /\ mux' = [mux EXCEPT !["front"] = mux["front"]] /\ "front" \in Sides
    BY <1>2, <1>3, SideFacts DEF Streams, TransferTypeOK
  <2>2. \A u \in Transfers : u # t => sent'[u] = sent[u] /\ (u \in shut' <=> u \in shut) /\ job'[u] = job[u]
    BY <1>2, <1>3 DEF TransferTypeOK
  <2> QED BY <1>2, <1>6, <2>1, <2>2 DEF OwnFrame
<1>8. Flow(mux'[r].ch[i], wire'[r], i, sent'[t], mux'[r].ended, Over(t)', Own(t)')
  <2>1. Delivered("front", line, i)
    BY <1>1, <1>2, <1>7, OwnFrameFacts DEF OwnFramed
  <2>2. Longer(wire[r], wire'[r], line) \/ (mux[r].ended /\ wire'[r] = wire[r])
    BY <1>4, <2>1, SideFacts DEF Delivered
  <2>3. Flow(mux[r].ch[i], wire[r], i, sent[t], mux[r].ended, FALSE, FALSE)
    <3>1. /\ Flow(mux[r].ch[i], wire[r], i, sent[t], mux[r].ended, Over(t), Own(t))
          /\ (Over(t) => FALSE) /\ (Own(t) => FALSE) /\ (mux[r].ended => mux[r].ended)
      BY <1>1, <1>2, <1>3, <1>4 DEF Over, Own
    <3> QED BY <3>1, Zenon DEF Flow
  <2>4. r \in Sides /\ mux[r].ch[i] \in Channels /\ sent'[t] = Append(sent[t], v)
    BY <1>1, <1>2, <1>3, SideFacts DEF TransferTypeOK
  <2>5. Flow(mux[r].ch[i], wire'[r], i, Append(sent[t], v), mux[r].ended, FALSE, FALSE)
    BY <1>3, <1>5, <1>6, <2>2, <2>3, <2>4, FlowWrites
  <2>6. Flow(mux[r].ch[i], wire'[r], i, Append(sent[t], v), mux[r].ended, Over(t)', Own(t)')
    BY <2>5, Zenon DEF Flow
  <2> QED BY <1>2, <2>4, <2>6
<1>9. mux' \in [Sides -> Muxes] /\ wire' \in [Sides -> Seq(Units)] /\ LinkInv'
  BY <1>1, <1>2, <1>4, <1>7, <1>8, OwnFrameKeeps
<1> QED BY <1>4, <1>9

\* The frontend closes the channel: an upload is over, a download abandoned.
LEMMA CloseKeeps ==
  ASSUME TransferInv, NEW t \in Transfers, ClientClose(t)
  PROVE  /\ mux' \in [Sides -> Muxes] /\ wire' \in [Sides -> Seq(Units)] /\ LinkInv'
         /\ mux'["back"] = mux["back"]
<1>1. PICK i, m, line, r : /\ i = chan[t] /\ m = Closed(mux["front"], i) /\ line = Frame(i, "end", <<>>)
                           /\ r = Reader(t)
  OBVIOUS
<1>2. /\ i # 0 /\ i \in mux["front"].open /\ call[t] = "open"
      /\ shut' = shut \union {t} /\ mux' = [mux EXCEPT !["front"] = m] /\ wire' = Sent("front", line)
      /\ UNCHANGED <<sent, call, chan, pending, next, job, alive>>
  BY <1>1 DEF ClientClose, OpenAt, Send, managerVars, jobVars
<1>3. /\ i \in Ids /\ TransferTypeOK /\ Streams /\ sent[t] \in Seq(Payload)
      /\ \A q \in Sides : mux[q] \in Muxes /\ AllSound(mux[q]) /\ mux[q].ch[i] \in Channels /\ Sound(mux[q].ch[i])
      /\ Flow(mux[Reader(t)].ch[i], wire[Reader(t)], i, sent[t], mux[Reader(t)].ended, Over(t), Own(t))
  BY <1>1, <1>2, ChannelFacts
<1>4. line \in AllLines /\ line.type = "end" /\ line.id = i
  BY <1>1, <1>3, LineTypes
<1>5. OwnFrame("front", line, i, m) /\ "front" \in Sides /\ Other("front") = "back"
  <2>1. ~mux["front"].ended /\ "front" \in Sides /\ Other("front") = "back"
    BY <1>2, <1>3, SideFacts DEF Streams
  <2> QED BY <1>1, <1>2, <1>4, <2>1 DEF OwnFrame
<1>6. OwnFramed("front", line, i, m)
  BY <1>1, <1>2, <1>5, OwnFrameFacts
<1>7. /\ mux'["front"] = m /\ mux'["back"] = mux["back"] /\ Delivered("front", line, i)
      /\ m.ch[i] = Finish(mux["front"].ch[i], "done") /\ m.ch[i].end # "open" /\ i \notin m.open /\ m # mux["front"]
  BY <1>2, <1>5, <1>6, ClosedFacts, <1>1, <1>3, FinishFacts DEF OwnFramed
<1>8. /\ wire'["front"] = wire["front"]
      /\ wire'["back"] = wire["back"] \/ Longer(wire["back"], wire'["back"], line)
      /\ \A q \in Sides : mux'[q].ended = mux[q].ended
  BY <1>5, <1>7 DEF Delivered
<1>9. Flow(mux'[r].ch[i], wire'[r], i, sent'[t], mux'[r].ended, Over(t)', Own(t)')
  <2>1. CASE t \in Uploads
    <3>1. r = "back" /\ Over(t)' /\ (Own(t) => Own(t)') /\ r \in Sides
      BY <1>1, <1>2, <2>1, SideFacts DEF Reader, Over, Own
    <3>2. Flow(mux[r].ch[i], wire'[r], i, sent[t], mux[r].ended, TRUE, Own(t))
      BY <1>1, <1>3, <1>4, <1>8, <3>1, FlowCloses
    <3>3. Flow(mux[r].ch[i], wire'[r], i, sent[t], mux[r].ended, Over(t)', Own(t)')
      <4>1. (TRUE => Over(t)') /\ (Own(t) => Own(t)') /\ (mux[r].ended => mux[r].ended)
        BY <3>1
      <4> QED BY <3>2, <4>1, Zenon DEF Flow
    <3> QED BY <1>2, <1>7, <3>1, <3>3
  <2>2. CASE t \notin Uploads
    <3>1. r = "front" /\ (Over(t) => Over(t)') /\ Own(t)' /\ r \in Sides
      BY <1>1, <1>2, <2>2, SideFacts DEF Reader, Over, Own, Transfers
    <3>2. Flow(mux[r].ch[i], wire[r], i, sent[t], mux[r].ended, Over(t)', Own(t)')
      <4>1. (Over(t) => Over(t)') /\ (Own(t) => Own(t)') /\ (mux[r].ended => mux[r].ended)
        BY <3>1
      <4>2. Flow(mux[r].ch[i], wire[r], i, sent[t], mux[r].ended, Over(t), Own(t))
        BY <1>1, <1>3
      <4> QED BY <4>1, <4>2, FlowKnows
    <3>3. SameHeld(mux[r].ch[i], m.ch[i])
      BY <1>3, <1>7, <3>1, FinishFacts DEF SameHeld
    <3>4. Flow(m.ch[i], wire[r], i, sent[t], mux[r].ended, Over(t)', Own(t)')
      BY <1>7, <3>1, <3>2, <3>3, FlowLeft
    <3> QED BY <1>2, <1>7, <1>8, <3>1, <3>4
  <2> QED BY <2>1, <2>2
<1>10. \A u \in Transfers : u # t => sent'[u] = sent[u] /\ (u \in shut' <=> u \in shut) /\ job'[u] = job[u]
  BY <1>2
<1>11. mux' \in [Sides -> Muxes] /\ wire' \in [Sides -> Seq(Units)] /\ LinkInv'
  BY <1>1, <1>2, <1>5, <1>7, <1>9, <1>10, OwnFrameKeeps
<1> QED BY <1>7, <1>11

\* The daemon sends a chunk of a download.
LEMMA ChunkKeeps ==
  ASSUME TransferInv, NEW t \in Transfers, SendChunk(t)
  PROVE  mux' \in [Sides -> Muxes] /\ wire' \in [Sides -> Seq(Units)] /\ LinkInv'
<1>1. PICK i, v, line, r : /\ i = chan[t] /\ v = Head(source[t]) /\ line = Frame(i, "data", v)
                           /\ r = Reader(t)
  OBVIOUS
<1>2. /\ i # 0 /\ i \in mux["back"].open /\ t \in Downloads /\ job[t] = "sending" /\ alive
      /\ source[t] # <<>> /\ job' = [job EXCEPT ![t] = "sending"]
      /\ sent' = [sent EXCEPT ![t] = Append(@, v)] /\ wire' = Sent("back", line)
      /\ UNCHANGED <<mux, call, chan, shut, pending, next, alive>>
  BY <1>1 DEF SendChunk, Step, OpenAt, Send, managerVars
<1>3. /\ i \in Ids /\ TransferTypeOK /\ Streams /\ sent[t] \in Seq(Payload) /\ LinkOK(t)
      /\ \A q \in Sides : mux[q] \in Muxes /\ AllSound(mux[q]) /\ mux[q].ch[i] \in Channels
      /\ t \in pending => job[t] = "none"
      /\ Flow(mux[Reader(t)].ch[i], wire[Reader(t)], i, sent[t], mux[Reader(t)].ended, Over(t), Own(t))
  BY <1>1, <1>2, ChannelFacts
<1>4. r = "front" /\ t \notin Uploads /\ t \notin pending /\ call[t] = "open" /\ ~Over(t)
  <2>1. t \notin Uploads
    BY <1>2, TransferAssumption
  <2>2. call[t] = "open"
    BY <1>2, <1>3 DEF LinkOK, UnopenedOK
  <2> QED BY <1>1, <1>2, <1>3, <2>1, <2>2 DEF Reader, Over
<1>5. v \in Payload /\ v[2] = Len(sent[t]) + 1
  <2>1. source[t] \in Seq(Payload) /\ Numbered(source[t], Len(sent[t]))
    BY <1>2, <1>3 DEF TransferTypeOK, TransferInv, FileInv, PayloadOK
  <2>2. v = source[t][1] /\ v \in Payload /\ 1 \in 1..Len(source[t]) /\ Len(sent[t]) \in Nat
    BY <1>1, <1>2, <1>3, <2>1
  <2> QED BY <2>1, <2>2 DEF Numbered
<1>6. line \in AllLines /\ line.type = "data" /\ line.id = i /\ line.v = v
  BY <1>1, <1>3, <1>5, LineTypes
<1>7. /\ OwnFrame("back", line, i, mux["back"]) /\ "back" \in Sides
      /\ \A u \in Transfers : u # t => sent'[u] = sent[u] /\ (u \in shut' <=> u \in shut) /\ job'[u] = job[u]
      /\ job'[t] = job[t]
  <2>1. ~mux["back"].ended /\ mux' = [mux EXCEPT !["back"] = mux["back"]] /\ "back" \in Sides
    BY <1>2, <1>3, SideFacts DEF Streams, TransferTypeOK
  <2>2. \A u \in Transfers : u # t => sent'[u] = sent[u] /\ (u \in shut' <=> u \in shut) /\ job'[u] = job[u]
    BY <1>2, <1>3 DEF TransferTypeOK
  <2>3. job'[t] = job[t]
    BY <1>2, <1>3 DEF TransferTypeOK
  <2> QED BY <1>2, <1>6, <2>1, <2>2, <2>3 DEF OwnFrame
<1>8. Flow(mux'[r].ch[i], wire'[r], i, sent'[t], mux'[r].ended, Over(t)', Own(t)')
  <2>1. Delivered("back", line, i)
    BY <1>1, <1>2, <1>7, OwnFrameFacts DEF OwnFramed
  <2>2. Longer(wire[r], wire'[r], line) \/ (mux[r].ended /\ wire'[r] = wire[r])
    BY <1>4, <2>1, SideFacts DEF Delivered
  <2>3. PICK own : own = Own(t)
    OBVIOUS
  <2>4. Flow(mux[r].ch[i], wire[r], i, sent[t], mux[r].ended, FALSE, own)
    <3>1. Flow(mux[r].ch[i], wire[r], i, sent[t], mux[r].ended, Over(t), own) /\ ~Over(t)
      BY <1>1, <1>3, <1>4, <2>3
    <3> QED BY <3>1, Zenon DEF Flow
  <2>5. r \in Sides /\ mux[r].ch[i] \in Channels /\ sent'[t] = Append(sent[t], v)
    BY <1>1, <1>2, <1>3, SideFacts DEF TransferTypeOK
  <2>6. Flow(mux[r].ch[i], wire'[r], i, Append(sent[t], v), mux[r].ended, FALSE, own)
    BY <1>3, <1>5, <1>6, <2>2, <2>4, <2>5, FlowWrites
  <2>7. own => Own(t)'
    BY <1>2, <2>3 DEF Own
  <2>8. Flow(mux[r].ch[i], wire'[r], i, Append(sent[t], v), mux[r].ended, Over(t)', Own(t)')
    BY <2>6, <2>7, Zenon DEF Flow
  <2> QED BY <1>2, <2>5, <2>8
<1>9. mux' \in [Sides -> Muxes] /\ wire' \in [Sides -> Seq(Units)] /\ LinkInv'
  BY <1>1, <1>2, <1>4, <1>7, <1>8, OwnFrameKeeps
<1> QED BY <1>9

\* A step in which nothing happens to the channels.
LEMMA JobMoves ==
  ASSUME TransferInv, UNCHANGED <<mux, wire, call, chan, sent, shut, pending, next, alive>>,
         \A u \in Transfers : job'[u] = job[u] \/ (job[u] \notin {"none", "done"} /\ job'[u] # "none")
  PROVE  mux' \in [Sides -> Muxes] /\ wire' \in [Sides -> Seq(Units)] /\ LinkInv'
<1>1. TransferTypeOK /\ LinkInv /\ Streams /\ OneOwner /\ FrontAsks
  BY DEF TransferInv, LinkInv
<1>2. \A i : \A s \in Sides : FrameQuiet(wire[s], wire'[s], i) /\ RpcQuiet(wire[s], wire'[s], i)
  BY DEF FrameQuiet, RpcQuiet
<1>3. /\ \A s \in Sides : AllSound(mux'[s]) /\ mux'[s].ended = mux[s].ended
      /\ Streams' /\ \A i \in Ids : IdAside(i)
  <2>1. \A r \in Sides : mux[r].ended => wire'[r] = <<>>
    BY <1>1 DEF Streams
  <2> QED BY <1>1, <1>2, <2>1, SameMuxes
<1>4. Steady /\ OneOwner' /\ FrontAsks'
  BY <1>1, <1>3 DEF Steady, OneOwner, FrontAsks, TransferTypeOK
<1>5. ASSUME NEW u \in Transfers PROVE Aside(u)
  <2>1. chan[u] # 0 => chan[u] \in Ids
    BY <1>1 DEF TransferTypeOK
  <2>2. Calm(u)
    BY <1>3, <2>1, Zenon DEF Calm
  <2> QED BY <1>2, <2>2 DEF Aside
<1>6. LinkInv'
  BY <1>1, <1>3, <1>4, <1>5, LinkQuiet
<1> QED BY <1>1, <1>6 DEF TransferTypeOK

\* The daemon closes the channel of a download, if it is still there.
LEMMA DownloadEndKeeps ==
  ASSUME TransferInv, NEW t \in Transfers, EndDownload(t)
  PROVE  mux' \in [Sides -> Muxes] /\ wire' \in [Sides -> Seq(Units)] /\ LinkInv'
<1>1. PICK i, m, line, r : /\ i = chan[t] /\ m = Closed(mux["back"], i) /\ line = Frame(i, "end", <<>>)
                           /\ r = Reader(t)
  OBVIOUS
<1>2. /\ t \in Downloads /\ job[t] = "sending" /\ alive /\ job' = [job EXCEPT ![t] = "done"]
      /\ UNCHANGED <<sent, shut, call, chan, pending, next, alive>>
  BY DEF EndDownload, Step, clientVars, managerVars
<1>3. TransferTypeOK /\ LinkOK(t) /\ Streams
  BY DEF TransferInv, LinkInv
<1>4. CASE ~OpenAt("back", t)
  <2>1. UNCHANGED <<mux, wire>>
    BY <1>4 DEF EndDownload
  <2>2. \A u \in Transfers : job'[u] = job[u] \/ (job[u] \notin {"none", "done"} /\ job'[u] # "none")
    BY <1>2, <1>3 DEF TransferTypeOK
  <2> QED BY <1>2, <2>1, <2>2, JobMoves
<1>5. CASE OpenAt("back", t)
  <2>1. /\ i # 0 /\ i \in mux["back"].open
        /\ mux' = [mux EXCEPT !["back"] = m] /\ wire' = Sent("back", line)
    BY <1>1, <1>5 DEF EndDownload, OpenAt, Send
  <2>2. /\ i \in Ids /\ sent[t] \in Seq(Payload)
        /\ \A q \in Sides : mux[q] \in Muxes /\ AllSound(mux[q]) /\ mux[q].ch[i] \in Channels
        /\ t \in pending => job[t] = "none"
        /\ Flow(mux[Reader(t)].ch[i], wire[Reader(t)], i, sent[t], mux[Reader(t)].ended, Over(t), Own(t))
    BY <1>1, <2>1, ChannelFacts
  <2>3. line \in AllLines /\ line.type = "end" /\ line.id = i
    BY <1>1, <2>2, LineTypes
  <2>4. r = "front" /\ t \notin Uploads /\ t \notin pending /\ call[t] = "open" /\ Over(t)'
    <3>1. t \notin Uploads
      BY <1>2, TransferAssumption
    <3>2. call[t] = "open"
      BY <1>2, <1>3 DEF LinkOK, UnopenedOK
    <3>3. job'[t] = "done"
      BY <1>2, <1>3 DEF TransferTypeOK
    <3> QED BY <1>1, <1>2, <2>2, <3>1, <3>2, <3>3 DEF Reader, Over
  <2>5. OwnFrame("back", line, i, m) /\ "back" \in Sides /\ Other("back") = "front"
    <3>1. ~mux["back"].ended /\ "back" \in Sides /\ Other("back") = "front"
      BY <1>3, <2>1, SideFacts DEF Streams
    <3> QED BY <1>1, <1>2, <2>1, <2>3, <3>1 DEF OwnFrame
  <2>6. OwnFramed("back", line, i, m)
    BY <1>1, <2>1, <2>5, OwnFrameFacts
  <2>7. mux'["front"] = mux["front"] /\ (wire'["front"] = wire["front"] \/ Longer(wire["front"], wire'["front"], line))
    BY <2>5, <2>6 DEF OwnFramed, Delivered
  <2>8. Flow(mux'[r].ch[i], wire'[r], i, sent'[t], mux'[r].ended, Over(t)', Own(t)')
    <3>1. PICK own : own = Own(t)
      OBVIOUS
    <3>2. Flow(mux[r].ch[i], wire'[r], i, sent[t], mux[r].ended, TRUE, own)
      BY <1>1, <2>2, <2>3, <2>4, <2>7, <3>1, FlowCloses
    <3>3. own => Own(t)'
      BY <1>2, <3>1 DEF Own
    <3>4. Flow(mux[r].ch[i], wire'[r], i, sent[t], mux[r].ended, Over(t)', Own(t)')
      BY <2>4, <3>2, <3>3, Zenon DEF Flow
    <3> QED BY <1>2, <2>4, <2>7, <3>4
  <2>9. \A u \in Transfers : u # t => sent'[u] = sent[u] /\ (u \in shut' <=> u \in shut) /\ job'[u] = job[u]
    BY <1>2, <1>3 DEF TransferTypeOK
  <2> QED BY <1>1, <1>2, <2>1, <2>4, <2>5, <2>8, <2>9, OwnFrameKeeps
<1> QED BY <1>4, <1>5

----------------------------------------------------------------------------
(* A reader pulls *)

\* Side s pulls from its channel i, and no other channel changes.
PullsAt(s, i) ==
  /\ mux' \in [Sides -> Muxes] /\ mux'[Other(s)] = mux[Other(s)]
  /\ (\A r \in Sides : AllSound(mux'[r]) /\ mux'[r].ended = mux[r].ended /\ mux'[r].open = mux[r].open)
  /\ mux'[s].ch[i] = Pull(mux[s].ch[i])
  /\ \A r \in Sides, j \in Ids : j # i => mux'[r].ch[j] = mux[r].ch[j]

\* A pull changes one channel of one end.
LEMMA PullMux ==
  ASSUME TransferInv, NEW s \in Sides, NEW i \in Ids, ~mux[s].ch[i].waiting, mux[s].ch[i].told = "no",
         mux' = [mux EXCEPT ![s].ch[i] = Pull(@)]
  PROVE  PullsAt(s, i)
<1>1. mux \in [Sides -> Muxes] /\ \A r \in Sides : mux[r] \in Muxes /\ AllSound(mux[r])
  BY DEF TransferInv, TransferTypeOK, LinkInv, Readers, AllSound
<1>2. mux[s].ch \in [Ids -> Channels] /\ Sound(mux[s].ch[i])
  BY <1>1, MuxParts DEF AllSound
<1>3. PICK p : p = Pull(mux[s].ch[i])
  OBVIOUS
<1>4. p \in Channels /\ Sound(p)
  BY <1>2, <1>3, PullFacts
<1>5. PICK m : m = [mux[s] EXCEPT !.ch[i] = p]
  OBVIOUS
<1>6. /\ m \in Muxes /\ m.open = mux[s].open /\ m.ended = mux[s].ended /\ m.ch[i] = p
      /\ \A j \in Ids : j # i => m.ch[j] = mux[s].ch[j]
  BY <1>1, <1>4, <1>5, PutFacts
<1>7. AllSound(m)
  BY <1>1, <1>4, <1>6 DEF AllSound
<1>8. mux' = [mux EXCEPT ![s] = m]
  BY <1>1, <1>2, <1>3, <1>5
<1>9. mux' \in [Sides -> Muxes] /\ mux'[s] = m /\ mux'[Other(s)] = mux[Other(s)] /\ \A r \in Sides : r # s => mux'[r] = mux[r]
  BY <1>1, <1>6, <1>8, SideFacts
<1> QED BY <1>1, <1>3, <1>6, <1>7, <1>9 DEF PullsAt

\* The reader of a transfer pulls.
LEMMA PullKeeps ==
  ASSUME TransferInv, NEW t \in Transfers, NEW i, i = chan[t], i # 0, call[t] = "open",
         NEW s, s = Reader(t), s = "back" => t \notin pending,
         ~mux[s].ch[i].waiting, mux[s].ch[i].told = "no",
         mux' = [mux EXCEPT ![s].ch[i] = Pull(@)],
         UNCHANGED <<wire, call, chan, sent, shut, pending, next, alive>>,
         \A u \in Transfers : u # t => job'[u] = job[u],
         t \in Downloads => job'[t] = job[t]
  PROVE  mux' \in [Sides -> Muxes] /\ wire' \in [Sides -> Seq(Units)] /\ LinkInv'
<1>1. /\ i \in Ids /\ i < next /\ TransferTypeOK /\ LinkInv /\ Streams
      /\ sent[t] \in Seq(Payload)
      /\ \A r \in Sides : mux[r].ch[i] \in Channels /\ Sound(mux[r].ch[i])
      /\ OpensFirst(wire["back"], i)
      /\ t \in pending => Unused(mux["back"].ch[i]) /\ i \notin mux["back"].open /\ job[t] = "none"
      /\ Opened(wire["back"], i) => t \in pending
      /\ t \in Uploads /\ ~mux["back"].ended /\ mux["back"].ch[i].end = "open" =>
           i \in mux["back"].open \/ Opened(wire["back"], i)
      /\ t \in Downloads /\ ~mux["front"].ended /\ mux["front"].ch[i].end = "open" => i \in mux["front"].open
      /\ t \in Uploads /\ t \in shut => i \notin mux["front"].open
      /\ Flow(mux[s].ch[i], wire[s], i, sent[t], mux[s].ended, Over(t), Own(t))
  BY ChannelFacts DEF TransferInv
<1>2. s \in Sides /\ (s = "front" \/ s = "back") /\ Other("front") = "back" /\ Other("back") = "front"
  BY SideFacts
<1>3. /\ mux' \in [Sides -> Muxes] /\ mux'[Other(s)] = mux[Other(s)]
      /\ (\A r \in Sides : AllSound(mux'[r]) /\ mux'[r].ended = mux[r].ended /\ mux'[r].open = mux[r].open)
      /\ mux'[s].ch[i] = Pull(mux[s].ch[i])
      /\ \A r \in Sides, j \in Ids : j # i => mux'[r].ch[j] = mux[r].ch[j]
  <2>1. s \in Sides /\ i \in Ids
    BY <1>1, <1>2
  <2>2. PullsAt(s, i)
    BY <2>1, PullMux
  <2> QED BY <2>2 DEF PullsAt
<1>4. mux'[s].ch[i].end = mux[s].ch[i].end
  BY <1>1, <1>2, <1>3, PullFacts
<1>5. \A u : \A r \in Sides : RpcQuiet(wire[r], wire'[r], u) /\ FrameQuiet(wire[r], wire'[r], u)
  BY DEF RpcQuiet, FrameQuiet
<1>6. Streams' /\ Steady /\ OneOwner' /\ FrontAsks'
  <2>1. OneOwner /\ FrontAsks
    BY <1>1 DEF LinkInv
  <2>2. Streams'
    BY <1>1, <1>3, SideFacts DEF Streams
  <2> QED BY <1>1, <1>3, <2>1, <2>2 DEF Steady, OneOwner, FrontAsks, TransferTypeOK
<1>7. \A j \in Ids : j # i => IdAside(j)
  BY <1>3, <1>5 DEF IdAside
<1>8. Flow(mux'[s].ch[i], wire'[s], i, sent'[t], mux'[s].ended, Over(t)', Own(t)')
  <2>1. Flow(Pull(mux[s].ch[i]), wire[s], i, sent[t], mux[s].ended, Over(t), Own(t))
    BY <1>1, <1>2, FlowPulls
  <2>2. (Over(t)' <=> Over(t)) /\ (Own(t)' <=> Own(t))
    BY DEF Over, Own, Transfers
  <2>3. (Over(t) => Over(t)') /\ (Own(t) => Own(t)') /\ (mux[s].ended => mux[s].ended)
    BY <2>2
  <2>4. Flow(Pull(mux[s].ch[i]), wire[s], i, sent[t], mux[s].ended, Over(t)', Own(t)')
    BY <2>1, <2>3, FlowKnows
  <2> QED BY <1>2, <1>3, <2>4
<1>9. LinkOK(t)'
  <2>1. RpcOK(t)'
    BY <1>5, RpcKept
  <2>2. i = chan'[t] /\ call'[t] = "open" /\ i < next' /\ OpensFirst(wire'["back"], i)
        /\ (Opened(wire'["back"], i) => t \in pending')
        /\ (t \in Uploads /\ t \in shut' => i \notin mux'["front"].open)
    BY <1>1, <1>2, <1>3, SideFacts
  <2>3. /\ t \in pending' => Unused(mux'["back"].ch[i]) /\ i \notin mux'["back"].open
        /\ t \in pending' => job'[t] = "none"
    <3>1. ASSUME t \in pending' PROVE s = "front" /\ t \in Downloads
      BY <1>2, <3>1 DEF Reader, Transfers
    <3> QED BY <1>1, <1>2, <1>3, <3>1, SideFacts
  <2>4. t \in Uploads => s = "back"
    BY DEF Reader
  <2>5. t \in Downloads => s = "front"
    BY TransferAssumption DEF Reader
  <2>6. t \in Uploads /\ ~mux'["back"].ended /\ mux'["back"].ch[i].end = "open" =>
           i \in mux'["back"].open \/ Opened(wire'["back"], i)
    BY <1>1, <1>2, <1>3, <1>4, <2>4
  <2>7. t \in Downloads /\ ~mux'["front"].ended /\ mux'["front"].ch[i].end = "open" => i \in mux'["front"].open
    BY <1>1, <1>2, <1>3, <1>4, <2>5
  <2> QED BY <1>8, <2>1, <2>2, <2>3, <2>6, <2>7, ChannelClose
<1>10. \A u \in Transfers : u # t => /\ call'[u] = call[u] /\ chan'[u] = chan[u] /\ sent'[u] = sent[u]
                                     /\ (u \in shut' <=> u \in shut) /\ (u \in pending' <=> u \in pending)
                                     /\ job'[u] = job[u]
  OBVIOUS
<1>11. LinkInv'
  BY <1>1, <1>3, <1>5, <1>6, <1>7, <1>9, <1>10, OwnerClose
<1> QED BY <1>1, <1>3, <1>11 DEF TransferTypeOK

----------------------------------------------------------------------------
(* A stream ends, or the daemon dies *)

\* The stream of side s is over; what its process knows may be gone with it.
Cut(s) ==
  /\ mux' \in [Sides -> Muxes] /\ mux'[Other(s)] = mux[Other(s)] /\ AllSound(mux'[s])
  /\ mux'[s].ended = TRUE /\ mux'[s].open = {}
  /\ \A i \in Ids : Unused(mux[s].ch[i]) /\ i \notin mux[s].open => Unused(mux'[s].ch[i])
  /\ wire' = [wire EXCEPT ![s] = <<>>]
  /\ UNCHANGED <<call, chan, next, sent, shut>>
  /\ pending' \subseteq pending /\ (s = "front" => pending' = pending)
  /\ \A u \in Transfers : job'[u] \in {job[u], "none"} /\ (Over(u) => Over(u)')
  /\ ~alive' => ~alive \/ s = "back"

\* There is nothing on an empty wire.
LEMMA EmptyFacts ==
  ASSUME NEW i
  PROVE  /\ Silent(<<>>, i) /\ OpensFirst(<<>>, i) /\ ~Opened(<<>>, i) /\ RpcOnce(<<>>, i)
         /\ ~Asked(<<>>, i) /\ ~Granted(<<>>, i)
  BY DEF Silent, OpensFirst, Opened, RpcOnce, Asked, Granted

\* The links after a cut, when the flows to the lost end are known.
LEMMA CutKeeps ==
  ASSUME TransferInv, NEW s \in Sides, Cut(s),
         \A u \in Transfers : chan[u] # 0 /\ Reader(u) = s =>
            Flow(mux'[s].ch[chan[u]], <<>>, chan[u], sent[u], TRUE, Over(u)', Own(u))
  PROVE  mux' \in [Sides -> Muxes] /\ wire' \in [Sides -> Seq(Units)] /\ LinkInv'
<1>0. PICK o : o = Other(s)
  OBVIOUS
<1>1. /\ TransferTypeOK /\ Readers /\ Streams /\ OneOwner /\ Fresh /\ FrontAsks /\ \A u \in Transfers : LinkOK(u)
      /\ o \in Sides /\ o # s /\ (\A r \in Sides : r = s \/ r = o) /\ "front" \in Sides /\ "back" \in Sides
  BY <1>0, SideFacts DEF TransferInv, LinkInv
<1>2. /\ mux' \in [Sides -> Muxes] /\ mux'[o] = mux[o] /\ AllSound(mux'[s])
      /\ mux'[s].ended = TRUE /\ mux'[s].open = {}
      /\ \A i \in Ids : Unused(mux[s].ch[i]) /\ i \notin mux[s].open => Unused(mux'[s].ch[i])
      /\ UNCHANGED <<call, chan, next, sent, shut>>
      /\ pending' \subseteq pending /\ (s = "front" => pending' = pending)
      /\ \A u \in Transfers : job'[u] \in {job[u], "none"} /\ (Over(u) => Over(u)')
      /\ ~alive' => ~alive \/ s = "back"
  BY <1>0 DEF Cut
<1>3. wire' \in [Sides -> Seq(Units)] /\ wire'[s] = <<>> /\ wire'[o] = wire[o]
  BY <1>1 DEF Cut, TransferTypeOK
<1>4. Readers' /\ Streams' /\ OneOwner' /\ FrontAsks'
  <2>1. Readers'
    BY <1>1, <1>2 DEF Readers, AllSound
  <2>2. Streams'
    BY <1>1, <1>2, <1>3 DEF Streams
  <2>3. OneOwner'
    BY <1>1, <1>2 DEF OneOwner
  <2>4. FrontAsks'
    <3>1. CASE s = "front"
      BY <1>3, <3>1, EmptyFacts DEF FrontAsks
    <3>2. CASE o = "front"
      BY <1>1, <1>3, <3>2 DEF FrontAsks
    <3> QED BY <1>1, <3>1, <3>2
  <2> QED BY <2>1, <2>2, <2>3, <2>4
<1>5. ASSUME NEW i \in Ids, Untouched(i) PROVE Untouched(i)'
  <2>1. Unused(mux'[s].ch[i]) /\ i \notin mux'[s].open /\ Silent(wire'[s], i)
    BY <1>2, <1>3, <1>5, EmptyFacts DEF Untouched
  <2>2. Unused(mux'[o].ch[i]) /\ i \notin mux'[o].open /\ Silent(wire'[o], i)
    BY <1>1, <1>2, <1>3, <1>5 DEF Untouched
  <2> QED BY <1>1, <2>1, <2>2 DEF Untouched
<1>6. Fresh'
  BY <1>1, <1>2, <1>5 DEF Fresh
<1>7. ASSUME NEW u \in Transfers PROVE LinkOK(u)'
  <2>1. NumberOK(u) /\ UnopenedOK(u) /\ RpcOK(u) /\ OpeningOK(u) /\ FlowOK(u)
    BY <1>1 DEF LinkOK
  <2>2. PICK i : i = chan[u]
    OBVIOUS
  <2>3. i # 0 => i \in Ids
    BY <1>1, <2>2 DEF TransferTypeOK
  <2>4. NumberOK(u)'
    BY <1>2, <2>1 DEF NumberOK
  <2>5. UnopenedOK(u)'
    <3> SUFFICES ASSUME call[u] # "open"
                 PROVE  /\ sent[u] = <<>> /\ u \notin shut /\ job'[u] = "none"
                        /\ i # 0 => Untouched(i)'
                        /\ i # 0 /\ ~mux'["back"].ended => u \in pending'
      BY <1>2, <2>2 DEF UnopenedOK, Untouched
    <3>1. /\ sent[u] = <<>> /\ u \notin shut /\ job[u] = "none" /\ (i # 0 => Untouched(i))
          /\ i # 0 /\ ~mux["back"].ended => u \in pending
      BY <2>1, <2>2 DEF UnopenedOK
    <3>2. i # 0 => Untouched(i)'
      BY <1>5, <2>3, <3>1
    <3>3. i # 0 /\ ~mux'["back"].ended => u \in pending'
      BY <1>1, <1>2, <3>1, SideFacts
    <3> QED BY <1>2, <3>1, <3>2, <3>3
  <2>6. RpcOK(u)'
    <3>1. \A r \in Sides : wire'[r] = <<>> \/ wire'[r] = wire[r]
      BY <1>1, <1>3
    <3>2. \A r \in Sides : /\ RpcOnce(wire[r], u) => RpcOnce(wire'[r], u)
                           /\ Asked(wire'[r], u) => Asked(wire[r], u)
                           /\ Granted(wire'[r], u) => Granted(wire[r], u)
      BY <3>1, EmptyFacts
    <3> QED BY <1>1, <1>2, <2>1, <3>2 DEF RpcOK
  <2>7. ASSUME i # 0 PROVE OpeningOK(u)'
    <3>1. /\ OpensFirst(wire["back"], i)
          /\ u \in pending => Unused(mux["back"].ch[i]) /\ i \notin mux["back"].open
          /\ Opened(wire["back"], i) => u \in pending
          /\ u \in Uploads /\ call[u] = "open" /\ ~mux["back"].ended /\ mux["back"].ch[i].end = "open" =>
               i \in mux["back"].open \/ Opened(wire["back"], i)
          /\ u \in Downloads /\ call[u] = "open" /\ ~mux["front"].ended /\ mux["front"].ch[i].end = "open" =>
               i \in mux["front"].open
          /\ u \in Uploads /\ u \in shut => i \notin mux["front"].open
      BY <2>1, <2>2, <2>7 DEF OpeningOK, Ch
    <3>2. i \in Ids
      BY <2>3, <2>7
    <3>3. /\ OpensFirst(wire'["back"], i)
          /\ u \in pending' => Unused(mux'["back"].ch[i]) /\ i \notin mux'["back"].open
          /\ Opened(wire'["back"], i) => u \in pending'
          /\ u \in Uploads /\ call[u] = "open" /\ ~mux'["back"].ended /\ mux'["back"].ch[i].end = "open" =>
               i \in mux'["back"].open \/ Opened(wire'["back"], i)
          /\ u \in Downloads /\ call[u] = "open" /\ ~mux'["front"].ended /\ mux'["front"].ch[i].end = "open" =>
               i \in mux'["front"].open
          /\ u \in Uploads /\ u \in shut' => i \notin mux'["front"].open
      <4>1. CASE s = "back"
        <5>1. o = "front"
          BY <1>0, <4>1, SideFacts
        <5> QED BY <1>2, <1>3, <3>1, <3>2, <4>1, <5>1, EmptyFacts
      <4>2. CASE s = "front"
        <5>1. o = "back"
          BY <1>0, <4>2, SideFacts
        <5> QED BY <1>2, <1>3, <3>1, <3>2, <4>2, <5>1
      <4> QED BY <4>1, <4>2, SideFacts
    <3>4. Ch("back", u)' = mux'["back"].ch[i] /\ Ch("front", u)' = mux'["front"].ch[i] /\ chan'[u] = i
      BY <1>2, <2>2 DEF Ch
    <3> QED BY <1>2, <3>3, <3>4 DEF OpeningOK
  <2>8. ASSUME i # 0 PROVE FlowOK(u)'
    <3>1. PICK r : r = Reader(u)
      OBVIOUS
    <3>2. r \in Sides /\ Flow(mux[r].ch[i], wire[r], i, sent[u], mux[r].ended, Over(u), Own(u))
      BY <2>1, <2>2, <2>8, <3>1, SideFacts DEF FlowOK, Ch
    <3>3. Flow(mux'[r].ch[i], wire'[r], i, sent[u], mux'[r].ended, Over(u)', Own(u))
      <4>1. CASE r = s
        BY <1>2, <1>3, <2>2, <2>8, <3>1, <4>1
      <4>2. CASE r = o
        <5>1. (Over(u) => Over(u)') /\ (Own(u) => Own(u)) /\ (mux[r].ended => mux[r].ended)
          BY <1>2
        <5>2. Flow(mux[r].ch[i], wire[r], i, sent[u], mux[r].ended, Over(u)', Own(u))
          BY <3>2, <5>1, FlowKnows
        <5> QED BY <1>2, <1>3, <4>2, <5>2
      <4> QED BY <1>1, <3>2, <4>1, <4>2
    <3>4. chan'[u] = i /\ sent'[u] = sent[u] /\ (Own(u)' <=> Own(u))
      BY <1>2, <2>2 DEF Own
    <3>5. (Over(u)' => Over(u)') /\ (Own(u) => Own(u)') /\ (mux'[r].ended => mux'[r].ended)
      BY <3>4
    <3>6. Flow(mux'[r].ch[i], wire'[r], i, sent[u], mux'[r].ended, Over(u)', Own(u)')
      BY <3>3, <3>5, FlowKnows
    <3> QED BY <3>1, <3>4, <3>6 DEF FlowOK, Ch, Reader
  <2>9. i = 0 => OpeningOK(u)' /\ FlowOK(u)'
    BY <1>2, <2>2 DEF OpeningOK, FlowOK
  <2> QED BY <2>4, <2>5, <2>6, <2>7, <2>8, <2>9 DEF LinkOK
<1> QED BY <1>2, <1>3, <1>4, <1>6, <1>7 DEF LinkInv

\* The stream of a side ends, by itself or because a chunk was refused.
LEMMA StreamKeeps ==
  ASSUME TransferInv, NEW s \in Sides, StreamEnds(s)
  PROVE  /\ mux' \in [Sides -> Muxes] /\ wire' \in [Sides -> Seq(Units)] /\ LinkInv'
         /\ mux'[Other(s)] = mux[Other(s)]
         /\ \A j \in Ids : mux'[s].ch[j] \in {mux[s].ch[j], Finish(mux[s].ch[j], "error")}
<1>1. TransferTypeOK /\ LinkInv /\ mux[s] \in Muxes /\ AllSound(mux[s]) /\ mux \in [Sides -> Muxes]
  BY DEF TransferInv, TransferTypeOK, LinkInv, Readers, AllSound
<1>2. PICK m : m = Teardown(mux[s])
  OBVIOUS
<1>3. /\ m \in Muxes /\ m.ended = TRUE /\ m.open = {} /\ AllSound(m)
      /\ \A j \in Ids : m.ch[j] = IF j \in mux[s].open THEN Finish(mux[s].ch[j], "error") ELSE mux[s].ch[j]
  BY <1>1, <1>2, TeardownFacts
<1>4. /\ ~mux[s].ended /\ mux' = [mux EXCEPT ![s] = m] /\ wire' = [wire EXCEPT ![s] = <<>>]
      /\ UNCHANGED <<call, chan, next, sent, shut, pending, job, alive>>
  BY <1>2 DEF StreamEnds, clientVars, managerVars, jobVars
<1>5. mux' \in [Sides -> Muxes] /\ mux'[s] = m /\ mux'[Other(s)] = mux[Other(s)]
  BY <1>1, <1>3, <1>4, SideFacts
<1>6. Cut(s)
  <2>1. \A u \in Transfers : job'[u] \in {job[u], "none"} /\ (Over(u) => Over(u)')
    BY <1>4 DEF Over
  <2> QED BY <1>3, <1>4, <1>5, <2>1 DEF Cut
<1>7. ASSUME NEW u \in Transfers, chan[u] # 0, Reader(u) = s
      PROVE  Flow(mux'[s].ch[chan[u]], <<>>, chan[u], sent[u], TRUE, Over(u)', Own(u))
  <2>1. PICK i, over : i = chan[u] /\ over = Over(u)
    OBVIOUS
  <2>2. /\ i \in Ids /\ Flow(mux[s].ch[i], wire[s], i, sent[u], mux[s].ended, over, Own(u))
        /\ mux[s].ch[i] \in Channels /\ Sound(mux[s].ch[i])
    BY <1>7, <2>1, ChannelFacts
  <2>3. over => Over(u)'
    BY <1>4, <2>1 DEF Over
  <2>4. Flow(m.ch[i], wire[s], i, sent[u], mux[s].ended, over, Own(u))
    <3>1. CASE m.ch[i] = mux[s].ch[i]
      BY <2>2, <3>1
    <3>2. CASE m.ch[i] # mux[s].ch[i]
      <4>1. m.ch[i] = Finish(mux[s].ch[i], "error")
        BY <1>3, <2>2, <3>2
      <4>2. SameHeld(mux[s].ch[i], m.ch[i]) /\ m.ch[i].end = "error"
        BY <2>2, <3>2, <4>1, FinishFacts DEF SameHeld
      <4> QED BY <2>2, <4>2, FlowFails
    <3> QED BY <3>1, <3>2
  <2>5. Flow(m.ch[i], <<>>, i, sent[u], TRUE, over, Own(u))
    BY <2>4, FlowGone
  <2> QED BY <1>5, <2>1, <2>3, <2>5, Zenon DEF Flow
<1>8. mux' \in [Sides -> Muxes] /\ wire' \in [Sides -> Seq(Units)] /\ LinkInv'
  BY <1>6, <1>7, CutKeeps
<1> QED BY <1>3, <1>5, <1>8

\* The daemon dies and its end with it.
LEMMA DeathKeeps ==
  ASSUME TransferInv, DaemonDies
  PROVE  mux' \in [Sides -> Muxes] /\ wire' \in [Sides -> Seq(Units)] /\ LinkInv'
<1>1. TransferTypeOK /\ mux \in [Sides -> Muxes] /\ "back" \in Sides /\ Other("back") = "front"
  BY SideFacts DEF TransferInv, TransferTypeOK
<1>2. PICK m : m = Teardown(NewMux)
  OBVIOUS
<1>3. /\ m \in Muxes /\ m.ended = TRUE /\ m.open = {} /\ AllSound(m)
      /\ \A j \in Ids : m.ch[j] = NewChannel
  <2>1. /\ NewMux \in Muxes /\ AllSound(NewMux) /\ NewMux.open = {}
        /\ \A j \in Ids : NewMux.ch[j] = NewChannel
    BY NewChannelFacts DEF NewMux, Muxes, AllSound
  <2> QED BY <1>2, <2>1, TeardownFacts
<1>4. /\ alive' = FALSE /\ mux' = [mux EXCEPT !["back"] = m] /\ wire' = [wire EXCEPT !["back"] = <<>>]
      /\ pending' = {} /\ job' = [t \in Transfers |-> "none"]
      /\ UNCHANGED <<call, chan, next, sent, shut>>
  BY <1>2 DEF DaemonDies, clientVars
<1>5. mux' \in [Sides -> Muxes] /\ mux'["back"] = m /\ mux'["front"] = mux["front"]
  BY <1>1, <1>3, <1>4, SideFacts
<1>6. Cut("back")
  <2>1. \A u \in Transfers : job'[u] \in {job[u], "none"} /\ (Over(u) => Over(u)')
    BY <1>4 DEF Over
  <2>2. \A i \in Ids : Unused(mux'["back"].ch[i])
    BY <1>3, <1>5, NewChannelFacts
  <2> QED BY <1>1, <1>3, <1>4, <1>5, <2>1, <2>2 DEF Cut
<1>7. ASSUME NEW u \in Transfers, chan[u] # 0, Reader(u) = "back"
      PROVE  Flow(mux'["back"].ch[chan[u]], <<>>, chan[u], sent[u], TRUE, Over(u)', Own(u))
  <2>1. chan[u] \in Ids /\ sent[u] \in Seq(Payload)
    BY <1>1, <1>7 DEF TransferTypeOK
  <2>2. Unused(mux'["back"].ch[chan[u]])
    BY <1>3, <1>5, <2>1, NewChannelFacts
  <2> QED BY <2>1, <2>2, FlowUnused
<1> QED BY <1>1, <1>6, <1>7, CutKeeps

----------------------------------------------------------------------------
(* The files *)

\* What the reader of an upload sees of a step that is not its own: nothing,
\* the end of the channel or a payload, the last two only while it waits.
ReaderSees(ch, ch2) ==
  \/ ch2.got = ch.got /\ (ch2.waiting <=> ch.waiting) /\ ch2.told = ch.told
  \/ ch.waiting /\ ch2.got = ch.got /\ ~ch2.waiting /\ ch2.told # "no"
  \/ ch.waiting /\ ~ch2.waiting /\ ch2.told = "no" /\ \E v : ch2.got = Append(ch.got, v)

\* The end of a channel, as its reader sees it.
LEMMA SeesFinish ==
  ASSUME NEW ch \in Channels, Sound(ch), NEW end \in {"done", "error"}
  PROVE  ReaderSees(ch, Finish(ch, end))
<1>1. CASE ch.end # "open"
  BY <1>1, FinishFacts DEF ReaderSees
<1>2. CASE ch.end = "open"
  <2>1. Finish(ch, end) = [ch EXCEPT !.end = end, !.waiting = FALSE, !.told = IF ch.waiting THEN end ELSE @]
    BY <1>2 DEF Finish
  <2>2. CASE ch.waiting
    BY <2>1, <2>2 DEF ReaderSees, Channels
  <2>3. CASE ~ch.waiting
    BY <2>1, <2>3 DEF ReaderSees, Channels
  <2> QED BY <2>2, <2>3
<1> QED BY <1>1, <1>2

\* A payload, as the reader of its channel sees it.
LEMMA SeesData ==
  ASSUME NEW ch \in Channels, Sound(ch), NEW v \in Payload
  PROVE  ReaderSees(ch, Data(ch, v))
<1>1. CASE ch.end # "open"
  BY <1>1, DataFacts DEF ReaderSees
<1>2. CASE ch.end = "open"
  <2>1. PICK d : d = Data(ch, v)
    OBVIOUS
  <2>2. \/ ch.waiting /\ d.got = Append(ch.got, v) /\ ~d.waiting /\ d.told = "no"
        \/ ~ch.waiting /\ d.got = ch.got /\ ~d.waiting /\ d.told = ch.told
    BY <1>2, <2>1, DataFacts
  <2> QED BY <2>1, <2>2 DEF ReaderSees
<1> QED BY <1>1, <1>2

\* The temporary file is then still what the reader was handed.
LEMMA ReadingStays ==
  ASSUME NEW ch, NEW ch2, NEW copy, NEW t, ReadingOK(ch, copy, t), ReaderSees(ch, ch2),
         ch.got \in Seq(Payload), copy.data \in Seq(Payload)
  PROVE  ReadingOK(ch2, copy, t)
<1>1. PICK n \in Nat, k \in Nat : n = Len(ch.got) /\ k = Len(copy.data)
  OBVIOUS
<1>2. /\ copy.owner = t /\ k \in {n, n - 1} /\ (\A j \in 1..k : copy.data[j] = ch.got[j])
      /\ k = n => ch.waiting \/ ch.told # "no"
      /\ k # n => ~ch.waiting /\ ch.told = "no"
  BY <1>1 DEF ReadingOK
<1>3. CASE ch2.got = ch.got /\ (ch2.waiting <=> ch.waiting) /\ ch2.told = ch.told
  BY <1>1, <1>2, <1>3 DEF ReadingOK
<1>4. CASE ch.waiting /\ ch2.got = ch.got /\ ~ch2.waiting /\ ch2.told # "no"
  BY <1>1, <1>2, <1>4 DEF ReadingOK
<1>5. CASE ch.waiting /\ ~ch2.waiting /\ ch2.told = "no" /\ \E v : ch2.got = Append(ch.got, v)
  <2>1. PICK v : ch2.got = Append(ch.got, v)
    BY <1>5
  <2>2. Len(ch2.got) = n + 1 /\ \A j \in 1..n : ch2.got[j] = ch.got[j]
    BY <1>1, <2>1
  <2>3. k = n
    BY <1>2, <1>5
  <2> QED BY <1>1, <1>2, <1>5, <2>2, <2>3 DEF ReadingOK
<1> QED BY <1>3, <1>4, <1>5 DEF ReaderSees

\* Steps that leave the files alone.
LEMMA FileStays ==
  ASSUME TransferInv, UNCHANGED <<part, target, sent>>, shut \subseteq shut',
         source' = source \/ \A t \in Transfers : job'[t] = "none",
         \A t \in Transfers : opts'[t] = opts[t] \/ call[t] = "idle",
         \A t \in Transfers : t \in pending' => t \in pending \/ sent[t] = <<>>,
         \A t \in Transfers : job'[t] # "none" => alive',
         \A t \in Transfers :
            \/ job'[t] = "none"
            \/ /\ job'[t] = job[t]
               /\ t \in Uploads => ReaderSees(Ch("back", t), Ch("back", t)')
            \/ /\ t \in pending /\ job'[t] = Started(t)
               /\ t \in Uploads => Unused(Ch("back", t)')
  PROVE  FileInv'
<1>1. /\ TransferTypeOK /\ Numbered(target.data, 0) /\ UploadAtomic
      /\ \A t \in Transfers : LinkOK(t) /\ PayloadOK(t) /\ JobOK(t)
  BY DEF TransferInv, LinkInv, FileInv
<1>2. \A t \in Transfers : t \in shut \/ job[t] # "none" => opts'[t] = opts[t]
  BY <1>1 DEF LinkOK, UnopenedOK
<1>3. UploadAtomic'
  <2>1. CASE target \in {Absent, OldFile}
    BY <2>1 DEF UploadAtomic, Absent, OldFile
  <2>2. ASSUME NEW t \in Uploads, target = [owner |-> t, data |-> sent[t]], t \in shut,
               opts[t].sized => Len(sent[t]) = Chunks
        PROVE  UploadAtomic'
    <3>1. opts'[t] = opts[t] /\ t \in shut'
      BY <1>2, <2>2 DEF Transfers
    <3> QED BY <2>2, <3>1 DEF UploadAtomic
  <2> QED BY <1>1, <2>1, <2>2 DEF UploadAtomic
<1>4. ASSUME NEW t \in Transfers PROVE PayloadOK(t)' /\ JobOK(t)'
  <2>1. LinkOK(t) /\ PayloadOK(t) /\ JobOK(t)
    BY <1>1
  <2>2. t \in Uploads <=> t \notin Downloads
    BY TransferAssumption DEF Transfers
  <2>3. CASE job'[t] = "none"
    BY <2>1, <2>3 DEF PayloadOK, JobOK
  <2>4. CASE /\ t \in pending /\ job'[t] = Started(t) /\ job'[t] # "none"
             /\ t \in Uploads => Unused(Ch("back", t)')
    <3>1. CASE t \in Uploads
      <4>1. job'[t] = "creating" /\ Unused(Ch("back", t)') /\ alive'
        BY <2>4, <3>1 DEF Started
      <4>2. PayloadOK(t)'
        BY <2>1, <2>2, <3>1 DEF PayloadOK
      <4>3. JobOK(t)'
        BY <2>2, <3>1, <4>1 DEF JobOK, Unused
      <4> QED BY <4>2, <4>3
    <3>2. CASE t \in Downloads
      <4>1. job'[t] = "opening" /\ alive' /\ sent[t] = <<>>
        BY <2>1, <2>2, <2>4, <3>2 DEF Started, PayloadOK
      <4>2. PayloadOK(t)'
        BY <2>1, <4>1 DEF PayloadOK
      <4>3. JobOK(t)'
        BY <2>2, <3>2, <4>1 DEF JobOK
      <4> QED BY <4>2, <4>3
    <3> QED BY <2>2, <3>1, <3>2
  <2>5. CASE job'[t] = job[t] /\ job'[t] # "none" /\ (t \in Uploads => ReaderSees(Ch("back", t), Ch("back", t)'))
    <3>1. alive' /\ source' = source /\ opts'[t] = opts[t]
      BY <1>2, <2>5
    <3>2. PayloadOK(t)'
      BY <2>1, <2>5, <3>1 DEF PayloadOK
    <3>3. CASE t \in Downloads
      BY <2>1, <2>2, <2>5, <3>1, <3>2, <3>3 DEF JobOK
    <3>4. CASE t \in Uploads
      <4>1. PICK ch, ch2 : ch = Ch("back", t) /\ ch2 = Ch("back", t)'
        OBVIOUS
      <4>2. ReaderSees(ch, ch2)
        BY <2>5, <3>4, <4>1
      <4>3. /\ job[t] \notin {"opening", "sending"}
            /\ job[t] = "creating" => ~ch.waiting /\ ch.got = <<>> /\ ch.told = "no"
            /\ job[t] = "reading" => ReadingOK(ch, part[t], t)
            /\ job[t] = "renaming" =>
                 /\ part[t] = [owner |-> t, data |-> sent[t]] /\ t \in shut
                 /\ opts[t].sized => Len(sent[t]) = Chunks
        BY <2>1, <3>4, <4>1 DEF JobOK
      <4>4. job[t] = "creating" => ~ch2.waiting /\ ch2.got = <<>> /\ ch2.told = "no"
        BY <4>2, <4>3 DEF ReaderSees
      <4>5. job[t] = "reading" => ReadingOK(ch2, part[t], t)
        <5>1. call[t] = "open" /\ chan[t] # 0
          BY <2>1, <2>5 DEF LinkOK, UnopenedOK, NumberOK
        <5>2. ch.got \in Seq(Payload)
          <6>1. ch \in Channels
            BY <4>1, <5>1, ChannelFacts, SideFacts DEF Ch
          <6> QED BY <6>1 DEF Channels
        <5>3. part[t].data \in Seq(Payload)
          BY <1>1, <3>4 DEF TransferTypeOK, Files
        <5> QED BY <4>2, <4>3, <5>2, <5>3, ReadingStays
      <4>6. /\ job'[t] = job[t] /\ part'[t] = part[t] /\ sent'[t] = sent[t] /\ opts'[t] = opts[t]
            /\ (t \in shut => t \in shut') /\ alive' /\ Ch("back", t)' = ch2
        BY <2>5, <3>1, <4>1
      <4> QED BY <2>2, <3>2, <3>4, <4>3, <4>4, <4>5, <4>6 DEF JobOK
    <3> QED BY <2>2, <3>2, <3>3, <3>4
  <2> QED BY <2>3, <2>4, <2>5
<1> QED BY <1>1, <1>3, <1>4 DEF FileInv

\* A transfer with a job has a channel of its own at the daemon.
LEMMA JobChannel ==
  ASSUME TransferInv, NEW t \in Transfers, job[t] # "none"
  PROVE  /\ call[t] = "open" /\ chan[t] # 0 /\ chan[t] \in Ids /\ t \notin pending
         /\ mux["back"].ch[chan[t]] \in Channels /\ Sound(mux["back"].ch[chan[t]])
<1>1. LinkOK(t)
  BY DEF TransferInv, LinkInv
<1>2. call[t] = "open" /\ chan[t] # 0 /\ t \notin pending
  BY <1>1 DEF LinkOK, UnopenedOK, NumberOK
<1> QED BY <1>2, ChannelFacts, SideFacts

\* Nothing happened to the reader.
LEMMA SeesSame ==
  ASSUME NEW ch
  PROVE  ReaderSees(ch, ch)
  BY DEF ReaderSees

\* Steps that leave the jobs, the files and the daemon's channels alone.
LEMMA FileQuiet ==
  ASSUME TransferInv, UNCHANGED <<part, target, sent, source, job, alive>>, shut \subseteq shut',
         \A t \in Transfers : opts'[t] = opts[t] \/ call[t] = "idle",
         \A t \in Transfers : t \in pending' => t \in pending \/ sent[t] = <<>>,
         \A t \in Transfers : job[t] # "none" => chan'[t] = chan[t],
         \A i \in Ids : mux'["back"].ch[i] = mux["back"].ch[i]
  PROVE  FileInv'
<1>1. \A t \in Transfers : job'[t] # "none" => alive'
  BY DEF TransferInv, FileInv, JobOK
<1>2. ASSUME NEW t \in Transfers, job[t] # "none" PROVE ReaderSees(Ch("back", t), Ch("back", t)')
  <2>1. chan[t] \in Ids /\ chan'[t] = chan[t]
    BY <1>2, JobChannel
  <2>2. Ch("back", t)' = Ch("back", t)
    BY <2>1 DEF Ch
  <2> QED BY <2>2, SeesSame
<1>3. \A t \in Transfers :
            \/ job'[t] = "none"
            \/ /\ job'[t] = job[t]
               /\ t \in Uploads => ReaderSees(Ch("back", t), Ch("back", t)')
            \/ /\ t \in pending /\ job'[t] = Started(t)
               /\ t \in Uploads => Unused(Ch("back", t)')
  BY <1>2
<1> QED BY <1>1, <1>3, FileStays

\* A frame starts the job of the transfer whose channel it opens; it gives the
\* other readers a payload or the end.
LEMMA FrameFile ==
  ASSUME TransferInv, NEW s \in Sides, HandleFrame(s)
  PROVE  FileInv'
<1>0. PICK line, m, h : line = Unit(s).line /\ m = HandleLine(mux[s], Known(s), line) /\ h = line.id
  OBVIOUS
<1>1. /\ line \in AllLines /\ line.type # "rpc"
      /\ wire[s][1].line = line /\ wire[s][1].at = "newline" /\ Shorter(wire[s], wire'[s])
      /\ Pruned(m, mux'[s]) /\ mux'[Other(s)] = mux[Other(s)]
  BY <1>0, FrameFacts
<1>2. /\ UNCHANGED <<call, chan, opts, sent, shut, next, part, source, target, alive>>
      /\ pending' \subseteq pending
  BY DEF HandleFrame, clientVars
<1>3. PICK go : go = {t \in pending : /\ s = "back" /\ line.type = "open"
                                      /\ chan[t] = h /\ h \notin mux[s].open}
  OBVIOUS
<1>4. job' = [t \in Transfers |-> IF t \in go THEN Started(t) ELSE job[t]]
  BY <1>0, <1>3 DEF HandleFrame
<1>5. /\ TransferTypeOK /\ OneOwner /\ (\A t \in Transfers : LinkOK(t) /\ JobOK(t))
      /\ mux[s] \in Muxes /\ AllSound(mux[s])
  BY DEF TransferInv, LinkInv, FileInv, TransferTypeOK, Readers, AllSound
<1>6. /\ h \in Ids
      /\ \A j \in Ids : j # h => m.ch[j] = mux[s].ch[j]
      /\ line.type = "open" /\ h \in mux[s].open => m = mux[s]
      /\ line.type = "open" /\ h \in Known(s) /\ h \notin mux[s].open => h \in m.open /\ m.ch[h] = NewChannel
      /\ line.type # "open" /\ h \notin mux[s].open => m = mux[s]
      /\ line.type = "data" /\ h \in mux[s].open => line.v \in Payload /\ m.ch[h] = Data(mux[s].ch[h], line.v)
      /\ line.type = "end" /\ h \in mux[s].open => m.ch[h] = Finish(mux[s].ch[h], "done")
      /\ line.type = "error" /\ h \in mux[s].open => m.ch[h] = Finish(mux[s].ch[h], "error")
      /\ line.type \in {"open", "data", "end", "error"}
  BY <1>0, <1>1, <1>5, LineFacts
<1>7. mux'[s].ch = m.ch
  BY <1>1 DEF Pruned
<1>8. ASSUME NEW t \in Transfers, t \notin go, job[t] # "none", t \in Uploads
      PROVE  ReaderSees(Ch("back", t), Ch("back", t)')
  <2>0. PICK i : i = chan[t]
    OBVIOUS
  <2>1. /\ i # 0 /\ i \in Ids /\ t \notin pending
        /\ mux["back"].ch[i] \in Channels /\ Sound(mux["back"].ch[i])
    BY <1>8, <2>0, JobChannel
  <2>2. Ch("back", t) = mux["back"].ch[i] /\ Ch("back", t)' = mux'["back"].ch[i]
    BY <1>2, <2>0 DEF Ch
  <2>3. CASE s # "back"
    <3>1. Other(s) = "back"
      BY <2>3, SideFacts
    <3> QED BY <1>1, <2>2, <3>1, SeesSame
  <2>4. CASE s = "back" /\ i # h
    BY <1>6, <1>7, <2>1, <2>2, <2>4, SeesSame
  <2>5. CASE s = "back" /\ i = h /\ line.type = "open"
    <3>1. IsOpen(wire["back"], 1, i)
      BY <1>0, <1>1, <2>5 DEF IsOpen
    <3>2. Opened(wire["back"], i)
      BY <1>1, <2>5, <3>1, ShorterLines
    <3>3. t \in pending
      BY <1>5, <2>0, <2>1, <3>2 DEF LinkOK, OpeningOK
    <3> QED BY <2>1, <3>3
  <2>6. CASE s = "back" /\ i = h /\ line.type # "open" /\ h \notin mux[s].open
    BY <1>6, <1>7, <2>2, <2>6, SeesSame
  <2>7. CASE s = "back" /\ i = h /\ line.type # "open" /\ h \in mux[s].open
    <3>1. CASE line.type = "data"
      BY <1>6, <1>7, <2>1, <2>2, <2>7, <3>1, SeesData
    <3>2. CASE line.type = "end"
      BY <1>6, <1>7, <2>1, <2>2, <2>7, <3>2, SeesFinish
    <3>3. CASE line.type = "error"
      BY <1>6, <1>7, <2>1, <2>2, <2>7, <3>3, SeesFinish
    <3> QED BY <1>6, <2>7, <3>1, <3>2, <3>3
  <2> QED BY <2>3, <2>4, <2>5, <2>6, <2>7
<1>9. ASSUME NEW t \in Transfers, t \in go
      PROVE  t \in pending /\ job'[t] = Started(t) /\ Unused(Ch("back", t)') /\ alive
  <2>1. t \in pending /\ s = "back" /\ line.type = "open" /\ chan[t] = h /\ h \notin mux[s].open
    BY <1>3, <1>9
  <2>2. h \in Known(s)
    BY <2>1 DEF Known
  <2>3. m.ch[h] = NewChannel
    BY <1>6, <2>1, <2>2
  <2>4. Ch("back", t)' = NewChannel
    BY <1>2, <1>7, <2>1, <2>3 DEF Ch
  <2>5. alive
    <3>1. ~mux["back"].ended
      BY <1>0, <2>1, FrameFacts
    <3> QED BY <3>1 DEF TransferInv, LinkInv, Streams
  <2> QED BY <1>4, <1>9, <2>1, <2>4, <2>5, NewChannelFacts
<1>10. \A t \in Transfers :
            \/ job'[t] = "none"
            \/ /\ job'[t] = job[t]
               /\ t \in Uploads => ReaderSees(Ch("back", t), Ch("back", t)')
            \/ /\ t \in pending /\ job'[t] = Started(t)
               /\ t \in Uploads => Unused(Ch("back", t)')
  BY <1>4, <1>8, <1>9
<1>11. \A t \in Transfers : job'[t] # "none" => alive'
  BY <1>2, <1>4, <1>5, <1>9 DEF JobOK
<1> QED BY <1>2, <1>10, <1>11, FileStays

\* A step of the job of one transfer.
LEMMA FileClose ==
  ASSUME TransferInv, NEW t \in Transfers, UNCHANGED <<chan, opts, shut, pending, alive>>,
         \A u \in Transfers : u # t => sent'[u] = sent[u] /\ job'[u] = job[u],
         \A u \in Uploads : u # t => part'[u] = part[u],
         \A u \in Downloads : u # t => source'[u] = source[u],
         \A i \in Ids : i # chan[t] => mux'["back"].ch[i] = mux["back"].ch[i],
         Numbered(target'.data, 0), UploadAtomic', PayloadOK(t)', JobOK(t)'
  PROVE  FileInv'
<1>1. OneOwner /\ \A u \in Transfers : PayloadOK(u) /\ JobOK(u)
  BY DEF TransferInv, LinkInv, FileInv
<1>2. ASSUME NEW u \in Transfers, u # t PROVE PayloadOK(u)' /\ JobOK(u)'
  <2>1. sent'[u] = sent[u] /\ job'[u] = job[u] /\ (u \in Uploads => part'[u] = part[u])
        /\ (u \in Downloads => source'[u] = source[u])
    BY <1>2
  <2>2. job[u] # "none" => Ch("back", u)' = Ch("back", u)
    <3>1. job[u] # "none" => chan[u] # 0 /\ chan[u] \in Ids
      BY JobChannel
    <3>2. job[u] # "none" => chan[u] # chan[t]
      BY <1>1, <1>2, <3>1 DEF OneOwner
    <3> QED BY <3>1, <3>2 DEF Ch
  <2>3. PayloadOK(u)'
    BY <1>1, <2>1 DEF PayloadOK
  <2>4. JobOK(u)'
    <3>1. CASE job[u] = "none"
      BY <1>1, <2>1, <3>1 DEF JobOK
    <3>2. CASE job[u] # "none"
      <4>1. PICK ch : ch = Ch("back", u) /\ ch = Ch("back", u)'
        BY <2>2, <3>2
      <4>2. JobOK(u)
        BY <1>1
      <4> QED BY <2>1, <3>2, <4>1, <4>2 DEF JobOK
    <3> QED BY <3>1, <3>2
  <2> QED BY <2>3, <2>4
<1> QED BY <1>2 DEF FileInv

\* A job moves on in memory only, the temporary file may go.
LEMMA JobFile ==
  ASSUME TransferInv, NEW t \in Transfers, UNCHANGED <<chan, opts, shut, pending, alive, sent, source, target, mux>>,
         alive, NEW j, job' = [job EXCEPT ![t] = j], j \notin {"none", "creating", "reading", "opening", "sending"},
         t \in Downloads => j = "done",
         \A u \in Uploads : u # t => part'[u] = part[u],
         j = "renaming" => /\ t \in Uploads => part'[t] = [owner |-> t, data |-> sent[t]]
                           /\ t \in shut /\ (opts[t].sized => Len(sent[t]) = Chunks)
  PROVE  FileInv'
<1>1. /\ TransferTypeOK /\ Numbered(target.data, 0) /\ UploadAtomic /\ LinkOK(t) /\ PayloadOK(t)
  BY DEF TransferInv, FileInv, LinkInv
<1>2. job'[t] = j /\ \A u \in Transfers : u # t => job'[u] = job[u]
  BY <1>1 DEF TransferTypeOK
<1>3. UploadAtomic'
  BY <1>1 DEF UploadAtomic, Absent, OldFile
<1>4. PayloadOK(t)'
  BY <1>1, <1>2 DEF PayloadOK
<1>5. JobOK(t)'
  BY <1>2, TransferAssumption DEF JobOK
<1> QED BY <1>1, <1>2, <1>3, <1>4, <1>5, FileClose

----------------------------------------------------------------------------
(* One step *)

\* The files at the start.
LEMMA AbsentFile == Absent \in Files /\ OldFile \in Files /\ Numbered(OldFile.data, 0) /\ Numbered(Absent.data, 0)
<1>1. <<"old", 1>> \in Payload
  BY DEF Payload
<1>2. << <<"old", 1>> >> \in Seq(Payload) /\ <<>> \in Seq(Payload)
  BY <1>1
<1> QED BY <1>2 DEF Absent, OldFile, Files, Numbered

\* A reader that has written all it was handed asks for more.
LEMMA PullReads ==
  ASSUME NEW ch \in Channels, Sound(ch), ~ch.waiting, ch.told = "no", NEW copy, NEW t, copy.owner = t,
         copy.data = ch.got
  PROVE  ReadingOK(Pull(ch), copy, t)
<1>1. PICK n \in Nat : n = Len(ch.got)
  BY DEF Channels
<1>2. PICK p : p = Pull(ch)
  OBVIOUS
<1>3. CASE /\ ch.queue # <<>> /\ p.got = Append(ch.got, Head(ch.queue)) /\ ~p.waiting /\ p.told = "no"
  <2>1. Len(p.got) = n + 1 /\ \A k \in 1..n : p.got[k] = ch.got[k]
    BY <1>1, <1>3 DEF Channels
  <2> QED BY <1>1, <1>2, <1>3, <2>1 DEF ReadingOK
<1>4. CASE p.got = ch.got /\ (p.waiting \/ p.told # "no")
  BY <1>1, <1>2, <1>4 DEF ReadingOK
<1> QED BY <1>2, <1>3, <1>4, PullFacts

\* runUpload creates its temporary file and asks for the first chunk, or fails.
LEMMA CreateStep ==
  ASSUME TransferInv, NEW t \in Transfers, CreateTmp(t)
  PROVE  TransferInv'
<1>0. PICK i : i = chan[t]
  OBVIOUS
<1>1. alive /\ job[t] = "creating" /\ UNCHANGED <<wire, call, chan, opts, sent, shut, pending, next, source, target, alive>>
  BY DEF CreateTmp, Step, clientVars, managerVars
<1>2. /\ TransferTypeOK /\ Numbered(target.data, 0) /\ UploadAtomic /\ LinkOK(t) /\ PayloadOK(t) /\ JobOK(t)
  BY DEF TransferInv, FileInv, LinkInv
<1>3. t \in Uploads /\ t \notin Downloads
  BY <1>1, <1>2, TransferAssumption DEF JobOK, Transfers
<1>4. /\ call[t] = "open" /\ i # 0 /\ i \in Ids /\ t \notin pending
      /\ mux["back"].ch[i] \in Channels /\ Sound(mux["back"].ch[i])
      /\ ~mux["back"].ch[i].waiting /\ mux["back"].ch[i].got = <<>> /\ mux["back"].ch[i].told = "no"
  BY <1>0, <1>1, <1>2, <1>3, JobChannel DEF JobOK, Ch
<1>5. CASE UNCHANGED <<mux, part>> /\ job' = [job EXCEPT ![t] = "removing"]
  <2>1. mux' \in [Sides -> Muxes] /\ wire' \in [Sides -> Seq(Units)] /\ LinkInv'
    <3>1. \A u \in Transfers : job'[u] = job[u] \/ (job[u] \notin {"none", "done"} /\ job'[u] # "none")
      BY <1>1, <1>2, <1>5 DEF TransferTypeOK
    <3> QED BY <1>1, <1>5, <3>1, JobMoves
  <2>2. FileInv'
    BY <1>1, <1>3, <1>5, JobFile
  <2>3. TransferTypeOK'
    BY <1>1, <1>2, <1>5 DEF TransferTypeOK
  <2> QED BY <2>1, <2>2, <2>3 DEF TransferInv
<1>6. CASE /\ job' = [job EXCEPT ![t] = "reading"] /\ part' = [part EXCEPT ![t] = [owner |-> t, data |-> <<>>]]
           /\ mux' = [mux EXCEPT !["back"].ch[i] = Pull(@)]
  <2>1. /\ \A u \in Transfers : u # t => job'[u] = job[u]
        /\ \A u \in Uploads : u # t => part'[u] = part[u]
        /\ job'[t] = "reading" /\ part'[t] = [owner |-> t, data |-> <<>>]
        /\ job' \in [Transfers -> {"none", "creating", "reading", "renaming", "removing", "done", "failed",
                            "opening", "sending"}]
        /\ part' \in [Uploads -> Files]
    <3>1. [owner |-> t, data |-> <<>>] \in Files
      BY <1>3 DEF Files
    <3> QED BY <1>2, <1>3, <1>6, <3>1 DEF TransferTypeOK
  <2>2. mux' \in [Sides -> Muxes] /\ wire' \in [Sides -> Seq(Units)] /\ LinkInv'
    <3>1. Reader(t) = "back"
      BY <1>3 DEF Reader
    <3> QED BY <1>0, <1>1, <1>3, <1>4, <1>6, <2>1, <3>1, PullKeeps
  <2>3. PullsAt("back", i)
    BY <1>4, <1>6, SideFacts, PullMux
  <2>4. /\ mux'["back"].ch[i] = Pull(mux["back"].ch[i])
        /\ \A j \in Ids : j # i => mux'["back"].ch[j] = mux["back"].ch[j]
    BY <2>3, SideFacts DEF PullsAt
  <2>5. PICK ch : ch = Pull(mux["back"].ch[i])
    OBVIOUS
  <2>6. part'[t].owner = t /\ part'[t].data = <<>> /\ part'[t].data \in Seq(Payload)
    BY <2>1
  <2>7. ReadingOK(ch, part'[t], t)
    BY <1>4, <2>5, <2>6, PullReads
  <2>8. JobOK(t)'
    <3>1. Ch("back", t)' = ch
      BY <1>0, <1>1, <2>4, <2>5 DEF Ch
    <3> QED BY <1>1, <1>3, <2>1, <2>7, <3>1 DEF JobOK
  <2>9. PayloadOK(t)' /\ UploadAtomic'
    BY <1>1, <1>2, <1>3 DEF PayloadOK, UploadAtomic, Absent, OldFile
  <2>10. FileInv'
    BY <1>0, <1>1, <1>2, <2>1, <2>4, <2>8, <2>9, FileClose
  <2>11. TransferTypeOK'
    BY <1>1, <1>2, <2>1, <2>2 DEF TransferTypeOK
  <2> QED BY <2>2, <2>10, <2>11 DEF TransferInv
<1> QED BY <1>0, <1>5, <1>6 DEF CreateTmp, Step, BackPulls

\* Sequences that agree at every position are the same.
LEMMA SameSeq ==
  ASSUME NEW a \in Seq(Payload), NEW b \in Seq(Payload), Len(a) = Len(b), \A j \in 1..Len(a) : a[j] = b[j]
  PROVE  a = b
  OBVIOUS

\* runUpload writes the chunk it was handed, or fails.
LEMMA WriteStep ==
  ASSUME TransferInv, NEW t \in Transfers, WriteChunk(t)
  PROVE  TransferInv'
<1>0. PICK i, ch : i = chan[t] /\ ch = mux["back"].ch[i]
  OBVIOUS
<1>1. /\ alive /\ job[t] = "reading" /\ Len(ch.got) > Len(part[t].data)
      /\ UNCHANGED <<wire, call, chan, opts, sent, shut, pending, next, source, target, alive>>
  BY <1>0 DEF WriteChunk, Step, clientVars, managerVars, Ch
<1>2. /\ TransferTypeOK /\ Numbered(target.data, 0) /\ UploadAtomic /\ LinkOK(t) /\ PayloadOK(t) /\ JobOK(t)
  BY DEF TransferInv, FileInv, LinkInv
<1>3. t \in Uploads /\ t \notin Downloads
  BY <1>1, <1>2, TransferAssumption DEF JobOK, Transfers
<1>4. /\ call[t] = "open" /\ i # 0 /\ i \in Ids /\ t \notin pending /\ ch \in Channels /\ Sound(ch)
      /\ ReadingOK(ch, part[t], t)
  BY <1>0, <1>1, <1>2, <1>3, JobChannel DEF JobOK, Ch
<1>5. CASE UNCHANGED <<mux, part>> /\ job' = [job EXCEPT ![t] = "removing"]
  <2>1. mux' \in [Sides -> Muxes] /\ wire' \in [Sides -> Seq(Units)] /\ LinkInv'
    <3>1. \A u \in Transfers : job'[u] = job[u] \/ (job[u] \notin {"none", "done"} /\ job'[u] # "none")
      BY <1>1, <1>2, <1>5 DEF TransferTypeOK
    <3> QED BY <1>1, <1>5, <3>1, JobMoves
  <2>2. FileInv'
    BY <1>1, <1>3, <1>5, JobFile
  <2>3. TransferTypeOK'
    BY <1>1, <1>2, <1>5 DEF TransferTypeOK
  <2> QED BY <2>1, <2>2, <2>3 DEF TransferInv
<1>6. CASE /\ job' = [job EXCEPT ![t] = "reading"]
           /\ part' = [part EXCEPT ![t].data = Append(@, Last(ch.got))]
           /\ mux' = [mux EXCEPT !["back"].ch[i] = Pull(@)]
  <2>1. part[t] \in Files /\ part[t].data \in Seq(Payload) /\ ch.got \in Seq(Payload)
    BY <1>2, <1>3, <1>4 DEF TransferTypeOK, Files, Channels
  <2>2. PICK n \in Nat, k \in Nat : n = Len(ch.got) /\ k = Len(part[t].data)
    BY <2>1
  <2>3. /\ n > k /\ part[t].owner = t /\ k \in {n, n - 1} /\ (\A j \in 1..k : part[t].data[j] = ch.got[j])
        /\ ~ch.waiting /\ ch.told = "no"
    BY <1>1, <1>4, <2>2 DEF ReadingOK
  <2>4. Append(part[t].data, Last(ch.got)) = ch.got
    <3>1. n = k + 1 /\ Last(ch.got) = ch.got[n] /\ ch.got[n] \in Payload
      BY <2>1, <2>2, <2>3 DEF Last
    <3>2. PICK a : a = Append(part[t].data, ch.got[n])
      OBVIOUS
    <3>3. a \in Seq(Payload) /\ Len(a) = k + 1 /\ (\A j \in 1..k : a[j] = part[t].data[j]) /\ a[k + 1] = ch.got[n]
      BY <2>1, <2>2, <3>1, <3>2
    <3>4. \A j \in 1..n : a[j] = ch.got[j]
      BY <2>3, <3>1, <3>3
    <3>5. Len(a) = Len(ch.got) /\ \A j \in 1..Len(a) : a[j] = ch.got[j]
      BY <2>2, <3>1, <3>3, <3>4
    <3>6. a = ch.got
      BY <2>1, <3>3, <3>5, SameSeq
    <3> QED BY <3>1, <3>2, <3>6
  <2>5. part'[t].owner = t /\ part'[t].data = ch.got /\ part' \in [Uploads -> Files]
        /\ \A u \in Uploads : u # t => part'[u] = part[u]
    <3>1. part' = [part EXCEPT ![t] = [part[t] EXCEPT !.data = ch.got]] /\ part \in [Uploads -> Files]
      BY <1>2, <1>3, <1>6, <2>4 DEF TransferTypeOK
    <3>2. [part[t] EXCEPT !.data = ch.got] \in Files
          /\ [part[t] EXCEPT !.data = ch.got].owner = t /\ [part[t] EXCEPT !.data = ch.got].data = ch.got
      BY <2>1, <2>3 DEF Files
    <3> QED BY <1>3, <3>1, <3>2
  <2>6. /\ \A u \in Transfers : u # t => job'[u] = job[u]
        /\ job'[t] = "reading"
        /\ job' \in [Transfers -> {"none", "creating", "reading", "renaming", "removing", "done", "failed",
                            "opening", "sending"}]
    BY <1>2, <1>6 DEF TransferTypeOK
  <2>7. mux' \in [Sides -> Muxes] /\ wire' \in [Sides -> Seq(Units)] /\ LinkInv'
    <3>1. Reader(t) = "back"
      BY <1>3 DEF Reader
    <3> QED BY <1>0, <1>1, <1>3, <1>4, <1>6, <2>3, <2>6, <3>1, PullKeeps
  <2>8. PullsAt("back", i)
    BY <1>0, <1>4, <1>6, <2>3, SideFacts, PullMux
  <2>9. /\ mux'["back"].ch[i] = Pull(ch)
        /\ \A j \in Ids : j # i => mux'["back"].ch[j] = mux["back"].ch[j]
    BY <1>0, <2>8, SideFacts DEF PullsAt
  <2>10. ReadingOK(mux'["back"].ch[i], part'[t], t)
    BY <1>4, <2>3, <2>5, <2>9, PullReads
  <2>11. JobOK(t)'
    BY <1>0, <1>1, <1>3, <2>6, <2>10 DEF JobOK, Ch
  <2>12. PayloadOK(t)' /\ UploadAtomic'
    BY <1>1, <1>2, <1>3 DEF PayloadOK, UploadAtomic, Absent, OldFile
  <2>13. FileInv'
    BY <1>0, <1>1, <1>2, <2>5, <2>6, <2>9, <2>11, <2>12, FileClose
  <2>14. TransferTypeOK'
    BY <1>1, <1>2, <2>5, <2>6, <2>7 DEF TransferTypeOK
  <2> QED BY <2>7, <2>13, <2>14 DEF TransferInv
<1>7. \/ UNCHANGED <<mux, part>> /\ job' = [job EXCEPT ![t] = "removing"]
      \/ /\ job' = [job EXCEPT ![t] = "reading"]
         /\ part' = [part EXCEPT ![t].data = Append(@, Last(ch.got))]
         /\ mux' = [mux EXCEPT !["back"].ch[i] = Pull(@)]
  BY <1>0 DEF WriteChunk, Step, BackPulls, Ch
<1> QED BY <1>5, <1>6, <1>7

\* The iteration of the reader ended: what it collected is what was sent,
\* unless the channel failed.
LEMMA EndStep ==
  ASSUME TransferInv, NEW t \in Transfers, EndUpload(t)
  PROVE  TransferInv'
<1>0. PICK i, ch, j : /\ i = chan[t] /\ ch = mux["back"].ch[i]
                      /\ j = IF ch.told = "done" /\ SizeFits(t) THEN "renaming" ELSE "removing"
  OBVIOUS
<1>1. /\ alive /\ job[t] = "reading" /\ ch.told # "no" /\ Len(ch.got) = Len(part[t].data)
      /\ job' = [job EXCEPT ![t] = j]
      /\ UNCHANGED <<mux, wire, call, chan, opts, sent, shut, pending, next, part, source, target, alive>>
  BY <1>0 DEF EndUpload, Step, clientVars, managerVars, Ch
<1>2. TransferTypeOK /\ LinkOK(t) /\ JobOK(t)
  BY DEF TransferInv, FileInv, LinkInv
<1>3. t \in Uploads /\ t \notin Downloads
  BY <1>1, <1>2, TransferAssumption DEF JobOK, Transfers
<1>4. /\ call[t] = "open" /\ i # 0 /\ i \in Ids /\ ch \in Channels /\ Sound(ch)
      /\ ReadingOK(ch, part[t], t)
  BY <1>0, <1>1, <1>2, <1>3, JobChannel DEF JobOK, Ch
<1>5. ASSUME ch.told = "done", SizeFits(t)
      PROVE  /\ part[t] = [owner |-> t, data |-> sent[t]] /\ t \in shut
             /\ opts[t].sized => Len(sent[t]) = Chunks
  <2>1. ch.queue = <<>> /\ ch.end = "done"
    BY <1>4, <1>5 DEF Sound
  <2>2. Flow(ch, wire["back"], i, sent[t], mux["back"].ended, Over(t), Own(t)) /\ sent[t] \in Seq(Payload)
    BY <1>0, <1>3, <1>4, ChannelFacts DEF Reader
  <2>3. ~Own(t) /\ (Over(t) <=> t \in shut)
    BY <1>3 DEF Own, Over
  <2>4. Held(ch) = Len(sent[t]) /\ t \in shut /\ \A k \in 1..Len(ch.got) : ch.got[k] = sent[t][k]
    BY <2>1, <2>2, <2>3 DEF Flow
  <2>5. part[t] \in Files /\ part[t].data \in Seq(Payload) /\ ch.got \in Seq(Payload)
    BY <1>2, <1>3, <1>4 DEF TransferTypeOK, Files, Channels
  <2>6. PICK n \in Nat : n = Len(ch.got)
    BY <2>5
  <2>7. Len(sent[t]) = n
    BY <2>1, <2>4, <2>6 DEF Held
  <2>8. ch.got = sent[t]
    BY <2>2, <2>4, <2>5, <2>6, <2>7
  <2>9. part[t].data = ch.got
    <3>1. Len(part[t].data) = Len(ch.got) /\ \A k \in 1..Len(part[t].data) : part[t].data[k] = ch.got[k]
      BY <1>1, <1>4 DEF ReadingOK
    <3> QED BY <2>5, <3>1, SameSeq
  <2>10. part[t] = [owner |-> t, data |-> sent[t]]
    BY <1>4, <2>5, <2>8, <2>9 DEF Files, ReadingOK
  <2> QED BY <1>5, <2>4, <2>8, <2>9, <2>10 DEF SizeFits
<1>6. mux' \in [Sides -> Muxes] /\ wire' \in [Sides -> Seq(Units)] /\ LinkInv'
  <2>1. \A u \in Transfers : job'[u] = job[u] \/ (job[u] \notin {"none", "done"} /\ job'[u] # "none")
    BY <1>0, <1>1, <1>2 DEF TransferTypeOK
  <2> QED BY <1>1, <2>1, JobMoves
<1>7. FileInv'
  <2>1. j \in {"renaming", "removing"} /\ (j = "renaming" => ch.told = "done" /\ SizeFits(t))
    BY <1>0
  <2>2. j = "renaming" => /\ t \in Uploads => part'[t] = [owner |-> t, data |-> sent[t]]
                          /\ t \in shut /\ (opts[t].sized => Len(sent[t]) = Chunks)
    BY <1>1, <1>5, <2>1
  <2> QED BY <1>1, <1>3, <2>1, <2>2, JobFile
<1>8. TransferTypeOK'
  BY <1>0, <1>1, <1>2 DEF TransferTypeOK
<1> QED BY <1>6, <1>7, <1>8 DEF TransferInv

\* The temporary file takes the place of the target, or the rename fails.
LEMMA RenameStep ==
  ASSUME TransferInv, NEW t \in Transfers, RenameTmp(t)
  PROVE  TransferInv'
<1>1. /\ alive /\ job[t] = "renaming"
      /\ UNCHANGED <<mux, wire, call, chan, opts, sent, shut, pending, next, source, alive>>
  BY DEF RenameTmp, Step, clientVars, managerVars
<1>2. TransferTypeOK /\ LinkOK(t) /\ JobOK(t) /\ PayloadOK(t)
  BY DEF TransferInv, FileInv, LinkInv
<1>3. t \in Uploads /\ t \notin Downloads
  BY <1>1, <1>2, TransferAssumption DEF JobOK, Transfers
<1>4. CASE job' = [job EXCEPT ![t] = "removing"] /\ UNCHANGED <<part, target>>
  <2>1. mux' \in [Sides -> Muxes] /\ wire' \in [Sides -> Seq(Units)] /\ LinkInv'
    <3>1. \A u \in Transfers : job'[u] = job[u] \/ (job[u] \notin {"none", "done"} /\ job'[u] # "none")
      BY <1>1, <1>2, <1>4 DEF TransferTypeOK
    <3> QED BY <1>1, <1>4, <3>1, JobMoves
  <2>2. FileInv'
    BY <1>1, <1>3, <1>4, JobFile
  <2>3. TransferTypeOK'
    BY <1>1, <1>2, <1>4 DEF TransferTypeOK
  <2> QED BY <2>1, <2>2, <2>3 DEF TransferInv
<1>5. CASE job' = [job EXCEPT ![t] = "done"] /\ target' = part[t] /\ part' = [part EXCEPT ![t] = Absent]
  <2>1. mux' \in [Sides -> Muxes] /\ wire' \in [Sides -> Seq(Units)] /\ LinkInv'
    <3>1. \A u \in Transfers : job'[u] = job[u] \/ (job[u] \notin {"none", "done"} /\ job'[u] # "none")
      BY <1>1, <1>2, <1>5 DEF TransferTypeOK
    <3> QED BY <1>1, <1>5, <3>1, JobMoves
  <2>2. /\ target' = [owner |-> t, data |-> sent[t]] /\ t \in shut
        /\ opts[t].sized => Len(sent[t]) = Chunks
    BY <1>1, <1>2, <1>3, <1>5 DEF JobOK
  <2>3. UploadAtomic' /\ Numbered(target'.data, 0)
    <3>1. Numbered(sent[t], 0) /\ target'.data = sent[t]
      BY <1>2, <2>2 DEF PayloadOK
    <3> QED BY <1>1, <1>3, <2>2, <3>1 DEF UploadAtomic
  <2>4. /\ \A u \in Transfers : u # t => job'[u] = job[u]
        /\ job'[t] = "done"
        /\ \A u \in Uploads : u # t => part'[u] = part[u]
        /\ part' \in [Uploads -> Files]
        /\ job' \in [Transfers -> {"none", "creating", "reading", "renaming", "removing", "done", "failed",
                            "opening", "sending"}]
    BY <1>2, <1>5, AbsentFile DEF TransferTypeOK
  <2>5. PayloadOK(t)' /\ JobOK(t)'
    BY <1>1, <1>2, <1>3, <2>4 DEF PayloadOK, JobOK
  <2>6. FileInv'
    BY <1>1, <2>3, <2>4, <2>5, FileClose
  <2>7. TransferTypeOK'
    <3>1. target' \in Files
      BY <1>2, <1>3, <1>5 DEF TransferTypeOK
    <3> QED BY <1>1, <1>2, <2>1, <2>4, <3>1 DEF TransferTypeOK
  <2> QED BY <2>1, <2>6, <2>7 DEF TransferInv
<1> QED BY <1>4, <1>5 DEF RenameTmp, Step

\* A failed upload removes its temporary file.
LEMMA RemoveStep ==
  ASSUME TransferInv, NEW t \in Transfers, RemoveTmp(t)
  PROVE  TransferInv'
<1>1. /\ alive /\ job[t] = "removing" /\ job' = [job EXCEPT ![t] = "failed"] /\ part' = [part EXCEPT ![t] = Absent]
      /\ UNCHANGED <<mux, wire, call, chan, opts, sent, shut, pending, next, source, target, alive>>
  BY DEF RemoveTmp, Step, clientVars, managerVars
<1>2. TransferTypeOK /\ JobOK(t)
  BY DEF TransferInv, FileInv
<1>3. t \in Uploads /\ t \notin Downloads
  BY <1>1, <1>2, TransferAssumption DEF JobOK, Transfers
<1>4. mux' \in [Sides -> Muxes] /\ wire' \in [Sides -> Seq(Units)] /\ LinkInv'
  <2>1. \A u \in Transfers : job'[u] = job[u] \/ (job[u] \notin {"none", "done"} /\ job'[u] # "none")
    BY <1>1, <1>2 DEF TransferTypeOK
  <2> QED BY <1>1, <2>1, JobMoves
<1>5. FileInv'
  <2>1. \A u \in Uploads : u # t => part'[u] = part[u]
    BY <1>1, <1>2 DEF TransferTypeOK
  <2> QED BY <1>1, <1>3, <2>1, JobFile
<1>6. TransferTypeOK'
  BY <1>1, <1>2, AbsentFile DEF TransferTypeOK
<1> QED BY <1>4, <1>5, <1>6 DEF TransferInv

\* runDownload opens the file as it is now.
LEMMA SourceStep ==
  ASSUME TransferInv, NEW t \in Transfers, OpenSource(t)
  PROVE  TransferInv'
<1>1. /\ alive /\ job[t] = "opening" /\ job' = [job EXCEPT ![t] = "sending"]
      /\ source' = [source EXCEPT ![t] = target.data]
      /\ UNCHANGED <<mux, wire, call, chan, opts, sent, shut, pending, next, part, target, alive>>
  BY DEF OpenSource, Step, clientVars, managerVars
<1>2. TransferTypeOK /\ JobOK(t) /\ PayloadOK(t) /\ Numbered(target.data, 0) /\ UploadAtomic
  BY DEF TransferInv, FileInv
<1>3. t \in Downloads /\ t \notin Uploads
  BY <1>1, <1>2, TransferAssumption DEF JobOK, Transfers
<1>4. mux' \in [Sides -> Muxes] /\ wire' \in [Sides -> Seq(Units)] /\ LinkInv'
  <2>1. \A u \in Transfers : job'[u] = job[u] \/ (job[u] \notin {"none", "done"} /\ job'[u] # "none")
    BY <1>1, <1>2 DEF TransferTypeOK
  <2> QED BY <1>1, <2>1, JobMoves
<1>5. /\ \A u \in Transfers : u # t => job'[u] = job[u]
      /\ job'[t] = "sending" /\ source'[t] = target.data
      /\ \A u \in Downloads : u # t => source'[u] = source[u]
      /\ source' \in [Downloads -> Seq(Payload)]
      /\ job' \in [Transfers -> {"none", "creating", "reading", "renaming", "removing", "done", "failed",
                          "opening", "sending"}]
  <2>1. target.data \in Seq(Payload)
    BY <1>2 DEF TransferTypeOK, Files
  <2> QED BY <1>1, <1>2, <1>3, <2>1 DEF TransferTypeOK
<1>6. PayloadOK(t)' /\ JobOK(t)' /\ UploadAtomic'
  <2>1. sent[t] = <<>> /\ Len(<<>>) = 0 /\ t \notin pending
    BY <1>1, <1>2, <1>3, JobChannel DEF PayloadOK
  <2>2. PayloadOK(t)'
    BY <1>1, <1>2, <1>5, <2>1 DEF PayloadOK
  <2>3. JobOK(t)'
    BY <1>1, <1>3, <1>5 DEF JobOK
  <2>4. UploadAtomic'
    BY <1>1, <1>2 DEF UploadAtomic, Absent, OldFile
  <2> QED BY <2>2, <2>3, <2>4
<1>7. FileInv'
  BY <1>1, <1>2, <1>5, <1>6, FileClose
<1>8. TransferTypeOK'
  BY <1>1, <1>2, <1>4, <1>5 DEF TransferTypeOK
<1> QED BY <1>4, <1>7, <1>8 DEF TransferInv

\* A number behind the last one.
LEMMA NumberedFacts ==
  ASSUME NEW s \in Seq(Payload), NEW n \in Nat, Numbered(s, n)
  PROVE  /\ \A v \in Payload : v[2] = n + Len(s) + 1 => Numbered(Append(s, v), n)
         /\ s # <<>> => /\ Head(s) \in Payload /\ Head(s)[2] = n + 1 /\ Tail(s) \in Seq(Payload)
                        /\ Numbered(Tail(s), n + 1)
<1>0. PICK l \in Nat : l = Len(s)
  OBVIOUS
<1>1. ASSUME NEW v \in Payload, v[2] = n + Len(s) + 1 PROVE Numbered(Append(s, v), n)
  <2>1. PICK a : a = Append(s, v)
    OBVIOUS
  <2>2. Len(a) = l + 1 /\ (\A k \in 1..l : a[k] = s[k]) /\ a[l + 1] = v
    BY <1>0, <2>1
  <2>3. \A k \in 1..(l + 1) : a[k][2] = n + k
    <3>1. \A k \in 1..l : s[k][2] = n + k
      BY <1>0 DEF Numbered
    <3>2. v[2] = n + (l + 1)
      BY <1>0, <1>1
    <3>3. \A k \in 1..(l + 1) : k \in 1..l \/ k = l + 1
      BY <1>0
    <3> QED BY <2>2, <3>1, <3>2, <3>3
  <2> QED BY <2>1, <2>2, <2>3 DEF Numbered
<1>2. ASSUME s # <<>>
      PROVE  Head(s) \in Payload /\ Head(s)[2] = n + 1 /\ Tail(s) \in Seq(Payload) /\ Numbered(Tail(s), n + 1)
  <2>1. PICK a : a = Tail(s)
    OBVIOUS
  <2>2. /\ Head(s) = s[1] /\ Head(s) \in Payload /\ 1 \in 1..Len(s)
        /\ a \in Seq(Payload) /\ Len(a) = l - 1 /\ (\A k \in 1..(l - 1) : a[k] = s[k + 1])
    BY <1>0, <1>2, <2>1
  <2>3. \A k \in 1..(l - 1) : s[k + 1][2] = n + (k + 1)
    BY <1>0 DEF Numbered
  <2>4. \A k \in 1..Len(a) : a[k][2] = (n + 1) + k
    BY <1>0, <2>2, <2>3
  <2> QED BY <2>1, <2>2, <2>4 DEF Numbered
<1> QED BY <1>1, <1>2

\* runDownload sends the next chunk.
LEMMA SendStep ==
  ASSUME TransferInv, NEW t \in Transfers, SendChunk(t)
  PROVE  TransferInv'
<1>1. /\ t \in Downloads /\ alive /\ job[t] = "sending" /\ job' = [job EXCEPT ![t] = "sending"] /\ source[t] # <<>>
      /\ source' = [source EXCEPT ![t] = Tail(@)] /\ sent' = [sent EXCEPT ![t] = Append(@, Head(source[t]))]
      /\ UNCHANGED <<mux, call, chan, opts, shut, pending, next, part, target, alive>>
  BY DEF SendChunk, Step, managerVars
<1>2. TransferTypeOK /\ JobOK(t) /\ PayloadOK(t) /\ Numbered(target.data, 0) /\ UploadAtomic
  BY DEF TransferInv, FileInv
<1>3. t \notin Uploads /\ t \notin pending
  BY <1>1, JobChannel, TransferAssumption
<1>4. mux' \in [Sides -> Muxes] /\ wire' \in [Sides -> Seq(Units)] /\ LinkInv'
  BY ChunkKeeps
<1>a. sent[t] \in Seq(Payload)
  BY <1>2 DEF TransferTypeOK
<1>5. PICK n, v : n \in Nat /\ n = Len(sent[t]) /\ v = Head(source[t])
  BY <1>a
<1>6. /\ source[t] \in Seq(Payload) /\ sent[t] \in Seq(Payload)
      /\ Numbered(sent[t], 0) /\ Numbered(source[t], n)
  BY <1>1, <1>2, <1>5 DEF TransferTypeOK, PayloadOK
<1>7. v \in Payload /\ v[2] = n + 1 /\ Tail(source[t]) \in Seq(Payload) /\ Numbered(Tail(source[t]), n + 1)
  BY <1>1, <1>5, <1>6, NumberedFacts
<1>8. Numbered(Append(sent[t], v), 0) /\ Append(sent[t], v) \in Seq(Payload) /\ Len(Append(sent[t], v)) = n + 1
  <2>1. v[2] = 0 + Len(sent[t]) + 1
    BY <1>5, <1>7
  <2> QED BY <1>5, <1>6, <1>7, <2>1, NumberedFacts
<1>9. /\ job' = job
      /\ source'[t] = Tail(source[t]) /\ sent'[t] = Append(sent[t], v)
      /\ \A u \in Transfers : u # t => sent'[u] = sent[u]
      /\ \A u \in Downloads : u # t => source'[u] = source[u]
      /\ source' \in [Downloads -> Seq(Payload)] /\ sent' \in [Transfers -> Seq(Payload)]
  BY <1>1, <1>2, <1>5, <1>7, <1>8 DEF TransferTypeOK
<1>10. PayloadOK(t)' /\ JobOK(t)'
  BY <1>1, <1>2, <1>3, <1>7, <1>8, <1>9 DEF PayloadOK, JobOK
<1>11. UploadAtomic'
  <2>1. \A u \in Uploads : sent'[u] = sent[u]
    BY <1>3, <1>9 DEF Transfers
  <2> QED BY <1>1, <1>2, <2>1 DEF UploadAtomic, Absent, OldFile
<1>12. FileInv'
  BY <1>1, <1>2, <1>9, <1>10, <1>11, FileClose
<1>13. TransferTypeOK'
  BY <1>1, <1>2, <1>4, <1>9 DEF TransferTypeOK
<1> QED BY <1>4, <1>12, <1>13 DEF TransferInv

\* runDownload ends.
LEMMA DownloadEndStep ==
  ASSUME TransferInv, NEW t \in Transfers, EndDownload(t)
  PROVE  TransferInv'
<1>1. /\ t \in Downloads /\ alive /\ job[t] = "sending" /\ job' = [job EXCEPT ![t] = "done"]
      /\ UNCHANGED <<call, chan, opts, sent, shut, pending, next, part, source, target, alive>>
  BY DEF EndDownload, Step, clientVars, managerVars
<1>2. TransferTypeOK /\ JobOK(t) /\ PayloadOK(t) /\ Numbered(target.data, 0) /\ UploadAtomic
  BY DEF TransferInv, FileInv
<1>3. t \notin Uploads /\ t \notin pending /\ chan[t] # 0
  BY <1>1, JobChannel, TransferAssumption
<1>4. mux' \in [Sides -> Muxes] /\ wire' \in [Sides -> Seq(Units)] /\ LinkInv'
  BY DownloadEndKeeps
<1>5. /\ \A u \in Transfers : u # t => job'[u] = job[u]
      /\ job'[t] = "done"
      /\ job' \in [Transfers -> {"none", "creating", "reading", "renaming", "removing", "done", "failed",
                          "opening", "sending"}]
  BY <1>1, <1>2 DEF TransferTypeOK
<1>6. \A i \in Ids : i # chan[t] => mux'["back"].ch[i] = mux["back"].ch[i]
  <2>1. CASE ~OpenAt("back", t)
    BY <2>1 DEF EndDownload
  <2>2. CASE OpenAt("back", t)
    <3>1. PICK m : m = Closed(mux["back"], chan[t]) /\ mux' = [mux EXCEPT !["back"] = m]
      BY <2>2 DEF EndDownload
    <3>2. /\ mux["back"] \in Muxes /\ AllSound(mux["back"]) /\ chan[t] \in Ids /\ "back" \in Sides
          /\ mux \in [Sides -> Muxes]
      BY <1>2, <1>3, ChannelFacts, SideFacts DEF TransferTypeOK
    <3>3. \A i \in Ids : i # chan[t] => m.ch[i] = mux["back"].ch[i]
      BY <3>1, <3>2, ClosedFacts
    <3> QED BY <3>1, <3>2, <3>3
  <2> QED BY <2>1, <2>2
<1>7. PayloadOK(t)' /\ JobOK(t)' /\ UploadAtomic'
  BY <1>1, <1>2, <1>3, <1>5 DEF PayloadOK, JobOK, UploadAtomic, Absent, OldFile
<1>8. FileInv'
  BY <1>1, <1>2, <1>5, <1>6, <1>7, FileClose
<1>9. TransferTypeOK'
  BY <1>1, <1>2, <1>4, <1>5 DEF TransferTypeOK
<1> QED BY <1>4, <1>8, <1>9 DEF TransferInv

\* The frontend calls transfer.open.
LEMMA RequestStep ==
  ASSUME TransferInv, NEW t \in Transfers, RequestOpen(t)
  PROVE  TransferInv'
<1>1. /\ call[t] = "idle" /\ call' = [call EXCEPT ![t] = "calling"] /\ wire' = Sent("front", RpcLine(t, <<>>))
      /\ UNCHANGED <<mux, chan, sent, shut, pending, next, job, part, source, target, alive>>
  BY DEF RequestOpen, Send, managerVars, jobVars
<1>2. TransferTypeOK
  BY DEF TransferInv
<1>3. PICK o \in [sized : BOOLEAN, overwrite : BOOLEAN] : opts' = [opts EXCEPT ![t] = o]
  BY DEF RequestOpen
<1>4. wire' \in [Sides -> Seq(Units)] /\ LinkInv'
  BY <1>1, OpenCallKeeps
<1>5. FileInv'
  <2>1. \A u \in Transfers : opts'[u] = opts[u] \/ call[u] = "idle"
    BY <1>1, <1>2, <1>3 DEF TransferTypeOK
  <2> QED BY <1>1, <2>1, FileQuiet
<1>6. TransferTypeOK'
  BY <1>1, <1>2, <1>3, <1>4 DEF TransferTypeOK
<1> QED BY <1>4, <1>5, <1>6 DEF TransferInv

\* The frontend opens the channel of the answer.
LEMMA OpenStep ==
  ASSUME TransferInv, NEW t \in Transfers, OpenChannel(t)
  PROVE  TransferInv'
<1>1. UNCHANGED <<chan, opts, sent, shut, pending, next, job, part, source, target, alive>>
  BY DEF OpenChannel, managerVars, jobVars
<1>2. /\ mux' \in [Sides -> Muxes] /\ wire' \in [Sides -> Seq(Units)] /\ LinkInv'
      /\ call' = [call EXCEPT ![t] = "open"] /\ mux'["back"] = mux["back"]
  BY OpenChannelKeeps
<1>3. FileInv'
  BY <1>1, <1>2, FileQuiet
<1>4. TransferTypeOK'
  BY <1>1, <1>2 DEF TransferTypeOK, TransferInv
<1> QED BY <1>2, <1>3, <1>4 DEF TransferInv

\* The frontend writes: the upload cannot have been published yet.
LEMMA ClientWriteStep ==
  ASSUME TransferInv, NEW t \in Transfers, ClientWrite(t)
  PROVE  TransferInv'
<1>1. PICK v : v = <<t, Len(sent[t]) + 1>>
  OBVIOUS
<1>2. /\ t \in Uploads /\ sent' = [sent EXCEPT ![t] = Append(@, v)]
      /\ UNCHANGED <<mux, call, chan, opts, shut, pending, next, job, part, source, target, alive>>
  BY <1>1 DEF ClientWrite, managerVars, jobVars
<1>3. mux' \in [Sides -> Muxes] /\ wire' \in [Sides -> Seq(Units)] /\ LinkInv' /\ t \notin shut
  BY WriteKeeps
<1>4. TransferTypeOK /\ JobOK(t) /\ PayloadOK(t) /\ Numbered(target.data, 0) /\ UploadAtomic
  BY DEF TransferInv, FileInv
<1>5. sent[t] \in Seq(Payload) /\ Numbered(sent[t], 0) /\ t \notin Downloads
  BY <1>2, <1>4, TransferAssumption DEF TransferTypeOK, PayloadOK
<1>6. v \in Payload /\ v[2] = 0 + Len(sent[t]) + 1
  BY <1>1, <1>2, <1>5 DEF Payload
<1>7. Append(sent[t], v) \in Seq(Payload) /\ Numbered(Append(sent[t], v), 0)
  BY <1>5, <1>6, NumberedFacts
<1>8. /\ sent'[t] = Append(sent[t], v) /\ sent' \in [Transfers -> Seq(Payload)]
      /\ \A u \in Transfers : u # t => sent'[u] = sent[u]
  BY <1>2, <1>4, <1>7 DEF TransferTypeOK
<1>9. PayloadOK(t)'
  BY <1>2, <1>4, <1>5, <1>7, <1>8 DEF PayloadOK
<1>10. JobOK(t)'
  <2>1. job[t] # "renaming"
    BY <1>2, <1>3, <1>4 DEF JobOK
  <2>2. PICK ch : ch = Ch("back", t) /\ ch = Ch("back", t)'
    BY <1>2 DEF Ch
  <2> QED BY <1>2, <1>4, <1>5, <2>1, <2>2 DEF JobOK
<1>11. UploadAtomic'
  <2>1. \A u \in Uploads : u \in shut => sent'[u] = sent[u]
    BY <1>3, <1>8 DEF Transfers
  <2> QED BY <1>2, <1>4, <2>1 DEF UploadAtomic, Absent, OldFile
<1>12. FileInv'
  BY <1>2, <1>4, <1>8, <1>9, <1>10, <1>11, FileClose
<1>13. TransferTypeOK'
  BY <1>2, <1>3, <1>4, <1>8 DEF TransferTypeOK
<1> QED BY <1>3, <1>12, <1>13 DEF TransferInv

\* The frontend closes a channel.
LEMMA ClientCloseStep ==
  ASSUME TransferInv, NEW t \in Transfers, ClientClose(t)
  PROVE  TransferInv'
<1>1. /\ shut' = shut \union {t}
      /\ UNCHANGED <<call, chan, opts, sent, pending, next, job, part, source, target, alive>>
  BY DEF ClientClose, managerVars, jobVars
<1>2. mux' \in [Sides -> Muxes] /\ wire' \in [Sides -> Seq(Units)] /\ LinkInv' /\ mux'["back"] = mux["back"]
  BY CloseKeeps
<1>3. FileInv'
  BY <1>1, <1>2, FileQuiet
<1>4. TransferTypeOK'
  BY <1>1, <1>2 DEF TransferTypeOK, TransferInv
<1> QED BY <1>2, <1>3, <1>4 DEF TransferInv

\* The frontend reads from the channel of a download.
LEMMA ClientPullStep ==
  ASSUME TransferInv, NEW t \in Transfers, ClientPull(t)
  PROVE  TransferInv'
<1>0. PICK i : i = chan[t]
  OBVIOUS
<1>1. /\ t \in Downloads /\ call[t] = "open" /\ ~mux["front"].ch[i].waiting /\ mux["front"].ch[i].told = "no"
      /\ mux' = [mux EXCEPT !["front"].ch[i] = Pull(@)]
      /\ UNCHANGED <<wire, call, chan, opts, sent, shut, pending, next, job, part, source, target, alive>>
  BY <1>0 DEF ClientPull, clientVars, managerVars, jobVars, Ch
<1>2. i # 0 /\ i \in Ids
  <2>1. TransferTypeOK /\ NumberOK(t)
    BY DEF TransferInv, LinkInv, LinkOK
  <2> QED BY <1>0, <1>1, <2>1 DEF NumberOK, TransferTypeOK
<1>3. mux' \in [Sides -> Muxes] /\ wire' \in [Sides -> Seq(Units)] /\ LinkInv'
  <2>1. Reader(t) = "front"
    BY <1>1, TransferAssumption DEF Reader
  <2> QED BY <1>0, <1>1, <1>2, <2>1, PullKeeps
<1>4. mux'["back"] = mux["back"]
  <2>1. PullsAt("front", i)
    BY <1>1, <1>2, SideFacts, PullMux
  <2> QED BY <2>1, SideFacts DEF PullsAt
<1>5. FileInv'
  BY <1>1, <1>4, FileQuiet
<1>6. TransferTypeOK'
  BY <1>1, <1>3 DEF TransferTypeOK, TransferInv
<1> QED BY <1>3, <1>5, <1>6 DEF TransferInv

\* transfer.open refuses, waits for the directory, or reserves a channel.
LEMMA AnswerStep ==
  ASSUME TransferInv, NEW t \in Transfers, OpenStat(t) \/ OpenMkdir(t)
  PROVE  TransferInv'
<1>1. /\ call[t] \in {"stat", "mkdir"} /\ UNCHANGED <<mux, opts, sent, shut, job, part, source, target, alive>>
      /\ \/ Reserve(t)
         \/ call[t] = "stat" /\ Refuse(t)
         \/ call[t] = "stat" /\ call' = [call EXCEPT ![t] = "mkdir"] /\ UNCHANGED <<wire, chan, pending, next>>
  BY DEF OpenStat, OpenMkdir, jobVars
<1>2. TransferTypeOK /\ LinkOK(t)
  BY DEF TransferInv, LinkInv
<1>3. sent[t] = <<>> /\ job[t] = "none"
  BY <1>1, <1>2 DEF LinkOK, UnopenedOK
<1>4. CASE Reserve(t)
  <2>1. wire' \in [Sides -> Seq(Units)] /\ LinkInv'
    BY <1>1, <1>4, ReserveKeeps
  <2>2. /\ next \in Ids /\ chan' = [chan EXCEPT ![t] = next] /\ next' = next + 1
        /\ pending' = pending \union {t} /\ call' = [call EXCEPT ![t] = "answered"]
    BY <1>4 DEF Reserve
  <2>3. FileInv'
    <3>1. \A u \in Transfers : job[u] # "none" => chan'[u] = chan[u]
      BY <1>2, <1>3, <2>2 DEF TransferTypeOK
    <3>2. \A u \in Transfers : u \in pending' => u \in pending \/ sent[u] = <<>>
      BY <1>3, <2>2
    <3> QED BY <1>1, <3>1, <3>2, FileQuiet
  <2>4. TransferTypeOK'
    BY <1>1, <1>2, <2>1, <2>2 DEF TransferTypeOK
  <2> QED BY <2>1, <2>3, <2>4 DEF TransferInv
<1>5. CASE /\ call[t] = "stat"
           /\ Refuse(t) \/ (call' = [call EXCEPT ![t] = "mkdir"] /\ UNCHANGED <<wire, chan, pending, next>>)
  <2>1. PICK c \in {"mkdir", "answered"} :
          /\ call' = [call EXCEPT ![t] = c] /\ UNCHANGED <<chan, pending, next>>
          /\ wire' = wire \/ (wire' = Sent("back", RpcLine(t, <<>>)) /\ c = "answered")
    BY <1>5 DEF Refuse, Send
  <2>2. wire' \in [Sides -> Seq(Units)] /\ LinkInv'
    BY <1>1, <1>5, <2>1, OpenCallKeeps
  <2>3. FileInv'
    BY <1>1, <2>1, FileQuiet
  <2>4. TransferTypeOK'
    BY <1>1, <1>2, <2>1, <2>2 DEF TransferTypeOK
  <2> QED BY <2>2, <2>3, <2>4 DEF TransferInv
<1> QED BY <1>1, <1>4, <1>5

\* A side reads a chunk, or handles its next unit.
LEMMA PumpStep ==
  ASSUME TransferInv, NEW s \in Sides, Pump(s)
  PROVE  TransferInv'
<1>0. TransferTypeOK
  BY DEF TransferInv
<1>1. CASE ReadChunk(s)
  <2>1. UNCHANGED <<mux, wire, call, chan, opts, sent, shut, pending, next, job, part, source, target, alive>>
    BY <1>1 DEF ReadChunk, clientVars, managerVars, jobVars
  <2>2. mux' \in [Sides -> Muxes] /\ wire' \in [Sides -> Seq(Units)] /\ LinkInv'
    BY <2>1, JobMoves
  <2>3. FileInv'
    BY <2>1, FileQuiet
  <2>4. TransferTypeOK'
    BY <1>0, <2>1 DEF TransferTypeOK
  <2> QED BY <2>2, <2>3, <2>4 DEF TransferInv
<1>2. CASE HandleFragment(s) \/ HandleRpc(s)
  <2>1. /\ InChunk(s) /\ Handled(s, mux[s]) /\ wire' = [wire EXCEPT ![s] = Tail(@)]
        /\ Unit(s).at # "newline" \/ Unit(s).line.type = "rpc"
        /\ UNCHANGED <<chan, opts, sent, shut, pending, next, job, part, source, target, alive>>
    BY <1>2 DEF HandleFragment, HandleRpc, clientVars, managerVars, jobVars
  <2>2. \A i \in Ids : IdAside(i)
    BY <2>1, TakeAside
  <2>3. FileInv'
    <3>1. \A i \in Ids : mux'["back"].ch[i] = mux["back"].ch[i]
      BY <2>2, SideFacts DEF IdAside
    <3> QED BY <2>1, <3>1, FileQuiet
  <2>4. /\ mux' \in [Sides -> Muxes] /\ wire' \in [Sides -> Seq(Units)] /\ LinkInv'
        /\ call' = call \/ \E t \in Transfers, c \in {"stat", "failed", "ready"} : call' = [call EXCEPT ![t] = c]
    <3>1. CASE HandleFragment(s)
      BY <3>1, FragmentKeeps DEF HandleFragment, clientVars
    <3>2. CASE HandleRpc(s)
      BY <3>2, RpcKeeps
    <3> QED BY <1>2, <3>1, <3>2
  <2>5. TransferTypeOK'
    BY <1>0, <2>1, <2>4 DEF TransferTypeOK
  <2> QED BY <2>3, <2>4, <2>5 DEF TransferInv
<1>3. CASE HandleFrame(s)
  <2>1. mux' \in [Sides -> Muxes] /\ wire' \in [Sides -> Seq(Units)] /\ LinkInv'
    BY <1>3, FrameKeeps
  <2>2. FileInv'
    BY <1>3, FrameFile
  <2>3. /\ UNCHANGED <<call, chan, opts, sent, shut, next, part, source, target, alive>>
        /\ pending' \subseteq Transfers
        /\ \E go : job' = [t \in Transfers |-> IF t \in go THEN Started(t) ELSE job[t]]
    BY <1>0, <1>3 DEF HandleFrame, clientVars, TransferTypeOK
  <2>4. TransferTypeOK'
    BY <1>0, <2>1, <2>3 DEF TransferTypeOK, Started
  <2> QED BY <2>1, <2>2, <2>4 DEF TransferInv
<1> QED BY <1>1, <1>2, <1>3 DEF Pump

\* A stream ends.
LEMMA EndsStep ==
  ASSUME TransferInv, NEW s \in Sides, StreamEnds(s)
  PROVE  TransferInv'
<1>1. UNCHANGED <<call, chan, opts, sent, shut, pending, next, job, part, source, target, alive>>
  BY DEF StreamEnds, clientVars, managerVars, jobVars
<1>2. /\ mux' \in [Sides -> Muxes] /\ wire' \in [Sides -> Seq(Units)] /\ LinkInv'
      /\ mux'[Other(s)] = mux[Other(s)]
      /\ \A j \in Ids : mux'[s].ch[j] \in {mux[s].ch[j], Finish(mux[s].ch[j], "error")}
  BY StreamKeeps
<1>3. FileInv'
  <2>1. \A t \in Transfers : job'[t] # "none" => alive'
    BY <1>1 DEF TransferInv, FileInv, JobOK
  <2>2. ASSUME NEW t \in Transfers, job[t] # "none" PROVE ReaderSees(Ch("back", t), Ch("back", t)')
    <3>0. PICK i : i = chan[t]
      OBVIOUS
    <3>1. i \in Ids /\ mux["back"].ch[i] \in Channels /\ Sound(mux["back"].ch[i])
      BY <2>2, <3>0, JobChannel
    <3>2. Ch("back", t) = mux["back"].ch[i] /\ Ch("back", t)' = mux'["back"].ch[i]
      BY <1>1, <3>0 DEF Ch
    <3>3. mux'["back"].ch[i] \in {mux["back"].ch[i], Finish(mux["back"].ch[i], "error")}
      BY <1>2, <3>1, SideFacts
    <3> QED BY <3>1, <3>2, <3>3, SeesSame, SeesFinish
  <2>3. \A t \in Transfers :
              \/ job'[t] = "none"
              \/ /\ job'[t] = job[t]
                 /\ t \in Uploads => ReaderSees(Ch("back", t), Ch("back", t)')
              \/ /\ t \in pending /\ job'[t] = Started(t)
                 /\ t \in Uploads => Unused(Ch("back", t)')
    BY <1>1, <2>2
  <2> QED BY <1>1, <2>1, <2>3, FileStays
<1>4. TransferTypeOK'
  BY <1>1, <1>2 DEF TransferTypeOK, TransferInv
<1> QED BY <1>2, <1>3, <1>4 DEF TransferInv

\* The daemon dies.
LEMMA DeathStep ==
  ASSUME TransferInv, DaemonDies
  PROVE  TransferInv'
<1>1. /\ UNCHANGED <<call, chan, opts, sent, shut, next, part, target>> /\ pending' = {}
      /\ job' = [t \in Transfers |-> "none"] /\ source' = [t \in Downloads |-> <<>>] /\ alive' = FALSE
  BY DEF DaemonDies, clientVars
<1>2. mux' \in [Sides -> Muxes] /\ wire' \in [Sides -> Seq(Units)] /\ LinkInv'
  BY DeathKeeps
<1>3. FileInv'
  <2>1. \A t \in Transfers : job'[t] = "none"
    BY <1>1
  <2> QED BY <1>1, <2>1, FileStays
<1>4. TransferTypeOK'
  <2>1. source' \in [Downloads -> Seq(Payload)]
    BY <1>1
  <2> QED BY <1>1, <1>2, <2>1 DEF TransferTypeOK, TransferInv
<1> QED BY <1>2, <1>3, <1>4 DEF TransferInv

\* At the start nothing was asked, opened or sent.
LEMMA InitTransfer ==
  ASSUME TransferInit
  PROVE  TransferInv
<1>1. /\ NewMux \in Muxes /\ NewMux.ended = FALSE /\ NewMux.open = {}
      /\ \A i \in Ids : NewMux.ch[i] = NewChannel
  BY NewChannelFacts DEF NewMux, Muxes
<1>2. \A s \in Sides : mux[s] = NewMux /\ wire[s] = <<>>
  BY DEF TransferInit
<1>3. \A t \in Transfers : /\ call[t] = "idle" /\ chan[t] = 0 /\ sent[t] = <<>> /\ job[t] = "none"
  BY DEF TransferInit
<1>4. pending = {} /\ next = 1 /\ shut = {} /\ target \in {Absent, OldFile} /\ alive = TRUE
  BY DEF TransferInit
<1>5. TransferTypeOK
  <2>1. wire \in [Sides -> Seq(Units)] /\ sent \in [Transfers -> Seq(Payload)] /\ source \in [Downloads -> Seq(Payload)]
    BY DEF TransferInit
  <2>2. mux \in [Sides -> Muxes] /\ part \in [Uploads -> Files] /\ target \in Files
    BY <1>1, AbsentFile DEF TransferInit
  <2> QED BY <2>1, <2>2 DEF TransferInit, TransferTypeOK
<1>6. LinkInv
  <2>1. Readers
    BY <1>1, <1>2, NewChannelFacts DEF Readers
  <2>2. Streams
    BY <1>1, <1>2, <1>4, SideFacts DEF Streams
  <2>3. OneOwner
    BY <1>3 DEF OneOwner
  <2>4. \A i \in Ids : Untouched(i)
    BY <1>1, <1>2, NewChannelFacts, EmptyFacts DEF Untouched
  <2>5. Fresh
    BY <2>4 DEF Fresh
  <2>6. FrontAsks
    BY <1>2, EmptyFacts, SideFacts DEF FrontAsks
  <2>7. ASSUME NEW t \in Transfers PROVE LinkOK(t)
    <3>1. NumberOK(t) /\ UnopenedOK(t) /\ OpeningOK(t) /\ FlowOK(t)
      BY <1>3, <1>4 DEF NumberOK, UnopenedOK, OpeningOK, FlowOK
    <3>2. RpcOK(t)
      BY <1>2, EmptyFacts, SideFacts DEF RpcOK
    <3> QED BY <3>1, <3>2 DEF LinkOK
  <2> QED BY <2>1, <2>2, <2>3, <2>5, <2>6, <2>7 DEF LinkInv
<1>7. FileInv
  <2>1. Numbered(target.data, 0)
    BY <1>4, AbsentFile
  <2>2. UploadAtomic
    BY <1>4 DEF UploadAtomic
  <2>3. ASSUME NEW t \in Transfers PROVE PayloadOK(t) /\ JobOK(t)
    BY <1>3, <1>4 DEF PayloadOK, JobOK, Numbered
  <2> QED BY <2>1, <2>2, <2>3 DEF FileInv
<1> QED BY <1>5, <1>6, <1>7 DEF TransferInv

\* Every step keeps the invariant.
LEMMA TransferStep ==
  ASSUME TransferInv, TransferNext \/ UNCHANGED transferVars
  PROVE  TransferInv'
<1>1. CASE UNCHANGED transferVars
  <2>1. UNCHANGED <<mux, wire, call, chan, opts, sent, shut, pending, next, job, part, source, target, alive>>
    BY <1>1 DEF transferVars, clientVars, managerVars, jobVars
  <2>2. LinkInv'
    BY <2>1, JobMoves
  <2>3. FileInv'
    BY <2>1, FileQuiet
  <2>4. TransferTypeOK'
    BY <2>1 DEF TransferTypeOK, TransferInv
  <2> QED BY <2>2, <2>3, <2>4 DEF TransferInv
<1>2. ASSUME NEW t \in Transfers,
             RequestOpen(t) \/ OpenChannel(t) \/ ClientWrite(t) \/ ClientClose(t) \/ ClientPull(t)
      PROVE  TransferInv'
  BY <1>2, RequestStep, OpenStep, ClientWriteStep, ClientCloseStep, ClientPullStep
<1>3. ASSUME NEW t \in Transfers, OpenStat(t) \/ OpenMkdir(t) PROVE TransferInv'
  BY <1>3, AnswerStep
<1>4. ASSUME NEW t \in Transfers, JobStep(t) PROVE TransferInv'
  BY <1>4, CreateStep, WriteStep, EndStep, RenameStep, RemoveStep, SourceStep, SendStep, DownloadEndStep
     DEF JobStep
<1>5. ASSUME NEW s \in Sides, Pump(s) \/ StreamEnds(s) \/ FramingFails(s) PROVE TransferInv'
  BY <1>5, PumpStep, EndsStep DEF FramingFails
<1>6. CASE DaemonDies
  BY <1>6, DeathStep
<1> QED BY <1>1, <1>2, <1>3, <1>4, <1>5, <1>6 DEF TransferNext

\* What the two ends, the wires between them and the files say about every
\* transfer holds in every state.
THEOREM TransferInvariant == TransferSpec => []TransferInv
<1>1. TransferInit => TransferInv
  BY InitTransfer
<1>2. TransferInv /\ [TransferNext]_transferVars => TransferInv'
  BY TransferStep
<1> QED BY <1>1, <1>2, PTL DEF TransferSpec

\* transfer.ts: a partial upload never takes the place of the target.
THEOREM UploadNeverPartial == TransferSpec => []UploadAtomic
<1>1. TransferInv => UploadAtomic
  BY DEF TransferInv, FileInv
<1> QED BY <1>1, TransferInvariant, PTL

\* What a reader has is a prefix of what was sent.
LEMMA FlowPrefix ==
  ASSUME NEW ch \in Channels, NEW s \in Seq(Payload), NEW w, NEW i, NEW ended, NEW over, NEW own,
         Flow(ch, w, i, s, ended, over, own)
  PROVE  IsPrefix(ch.got \o ch.queue, s)
<1>1. PICK g \in Nat, q \in Nat : g = Len(ch.got) /\ q = Len(ch.queue)
  BY DEF Channels
<1>2. PICK a : a = ch.got \o ch.queue
  OBVIOUS
<1>3. PICK n \in Nat : n = Len(s)
  OBVIOUS
<1>4. /\ a \in Seq(Payload) /\ Len(a) = g + q
      /\ \A k \in 1..g : a[k] = ch.got[k]
      /\ \A k \in 1..q : a[g + k] = ch.queue[k]
  BY <1>1, <1>2 DEF Channels
<1>5. g + q <= n /\ (\A k \in 1..g : ch.got[k] = s[k]) /\ (\A k \in 1..q : ch.queue[k] = s[g + k])
  BY <1>1, <1>3 DEF Flow, Held
<1>6. \A k \in 1..(g + q) : a[k] = s[k]
  <2> SUFFICES ASSUME NEW k \in 1..(g + q) PROVE a[k] = s[k]
    OBVIOUS
  <2>1. CASE k <= g
    BY <1>4, <1>5, <2>1
  <2>2. CASE k > g
    <3>1. k - g \in 1..q /\ g + (k - g) = k
      BY <2>2
    <3> QED BY <1>4, <1>5, <3>1
  <2> QED BY <2>1, <2>2
<1>7. PICK b, c : b = SubSeq(a, 1, g + q) /\ c = SubSeq(s, 1, g + q)
  OBVIOUS
<1>8. /\ b \in Seq(Payload) /\ Len(b) = g + q /\ (\A k \in 1..(g + q) : b[k] = a[k])
      /\ c \in Seq(Payload) /\ Len(c) = g + q /\ (\A k \in 1..(g + q) : c[k] = s[k])
  BY <1>3, <1>4, <1>5, <1>7
<1>9. b = c
  BY <1>6, <1>8, SameSeq
<1> QED BY <1>2, <1>3, <1>4, <1>5, <1>7, <1>9 DEF IsPrefix

\* mux.ts: the reader of a channel has what was written, in order, and is told
\* a clean end only when it has all of it.
THEOREM CleanEndComplete == TransferSpec => []CleanEndIsComplete
<1>1. TransferInv => CleanEndIsComplete
  <2> SUFFICES ASSUME TransferInv, NEW t \in Transfers, chan[t] # 0
               PROVE  LET r == Ch(IF t \in Uploads THEN "back" ELSE "front", t) IN
                      /\ IsPrefix(r.got \o r.queue, sent[t])
                      /\ r.told = "done" /\ ~(t \in Downloads /\ t \in shut) => r.got = sent[t]
    BY DEF CleanEndIsComplete
  <2>1. PICK i, ch : i = chan[t] /\ ch = mux[Reader(t)].ch[i]
    OBVIOUS
  <2>2. /\ Flow(ch, wire[Reader(t)], i, sent[t], mux[Reader(t)].ended, Over(t), Own(t))
        /\ sent[t] \in Seq(Payload) /\ ch \in Channels /\ Sound(ch)
    BY <2>1, ChannelFacts, SideFacts
  <2>3. IsPrefix(ch.got \o ch.queue, sent[t])
    BY <2>2, FlowPrefix
  <2>4. ASSUME ch.told = "done", ~(t \in Downloads /\ t \in shut) PROVE ch.got = sent[t]
    <3>1. ch.queue = <<>> /\ ch.end = "done" /\ ~Own(t)
      BY <2>2, <2>4 DEF Sound, Own
    <3>2. Held(ch) = Len(sent[t]) /\ \A k \in 1..Len(ch.got) : ch.got[k] = sent[t][k]
      BY <2>2, <3>1 DEF Flow
    <3>3. ch.got \in Seq(Payload) /\ Len(ch.got) = Len(sent[t])
      BY <2>2, <3>1, <3>2 DEF Held, Channels
    <3> QED BY <2>2, <3>2, <3>3, SameSeq
  <2>5. Ch(IF t \in Uploads THEN "back" ELSE "front", t) = ch
    BY <2>1 DEF Ch, Reader
  <2> QED BY <2>3, <2>4, <2>5
<1> QED BY <1>1, TransferInvariant, PTL
=============================================================================
