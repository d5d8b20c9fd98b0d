-------------------------- MODULE SshProcessProofs --------------------------
(***************************************************************************)
(* Proofs about SshProcess, for every amount of output and every way the    *)
(* child may end.                                                          *)
(***************************************************************************)
EXTENDS SshProcess, FiniteSetTheorems, TLAPS

----------------------------------------------------------------------------
(* The inductive invariant *)

\* TypeOK, without the counters.
WordsOK ==
  /\ wrapper \in {"none", "setup", "launched", "waiting", "draining", "ended", "failed", "dead"}
  /\ leader \in {"none", "live", "gone"}
  /\ fate \in Fates \union {"none"}
  /\ chan \in {"none", "open", "eof", "cut"}
  /\ out \in Seq({"start", "fail", "end", "data"})
  /\ launched \in {"pending", "yes", "no"} /\ started \in {"pending", "yes", "no"}
  /\ first \in {"none", "end", "fail", "status", "closed"}
  /\ run \in {"env", "exec", "race", "drain", "grace", "cut", "sweep", "reread",
              "rollback", "remove", "settled"}
  /\ outcome \in {"none", "exit", "signal", "cancelled", "rejected"}
  /\ term \in {"idle", "launch", "start", "settle", "TERM", "probe", "KILL", "last"}
  /\ wait \in [Waiters -> {"idle", "check", "probe", "true", "threw"}]

CountsOK == written \in 0..MaxOut /\ emitted \in 0..written /\ received \in Nat

FlagsOK ==
  /\ kids \in BOOLEAN /\ status \in BOOLEAN /\ link \in BOOLEAN /\ pumped \in BOOLEAN
  /\ outErr \in BOOLEAN /\ pgid \in BOOLEAN /\ failed \in BOOLEAN /\ ended \in BOOLEAN
  /\ cancelled \in BOOLEAN /\ spawnFailed \in BOOLEAN /\ expired \in BOOLEAN
  /\ requested \in BOOLEAN /\ failure \in BOOLEAN /\ sig \in BOOLEAN /\ quiet \in BOOLEAN
  /\ spared \in BOOLEAN /\ blind \in BOOLEAN

\* The output frames of a channel that are not pumped yet.
DataAt(q) == {i \in DOMAIN q : q[i] = "data"}
Unpumped  == Cardinality(DataAt(out))

\* END is the last frame, and of a wrapper whose group is gone and encoded.
EndLast ==
  /\ \A i \in DOMAIN out : out[i] = "end" => i = Len(out) /\ wrapper = "ended"
  /\ ended => wrapper = "ended" /\ out = <<>>
  /\ wrapper = "ended" => leader = "gone" /\ ~kids /\ emitted = written
  /\ wrapper \in {"none", "setup"} => leader = "none" /\ ~kids /\ written = 0 /\ received = 0
  /\ wrapper = "draining" => leader = "gone"

\* Frames may be lost with the channel, but then END is lost with them.
FramesCounted ==
  /\ received + Unpumped <= emitted
  /\ chan = "open" \/ ended \/ (\E i \in DOMAIN out : out[i] = "end") =>
       received + Unpumped = emitted

\* Whatever tells of an exit came after the exit.
ExitKnown ==
  /\ leader = "gone" => fate \in Fates
  /\ status => leader = "gone"
  /\ first = "status" \/ run \in {"grace", "cut"} => status
  /\ first = "end" \/ run = "drain" => ended
  /\ run = "cut" => expired
  /\ sig \/ term # "idle" => requested
  /\ outcome \in {"exit", "signal"} /\ ~expired => ended

\* The deferreds follow the channel: no start without a launched wrapper whose
\* group was published.
StartKnown ==
  /\ run \in {"env", "exec"} <=> launched = "pending"
  /\ run = "settled" <=> outcome # "none"
  /\ launched # "yes" => chan = "none" /\ out = <<>> /\ wrapper = "none" /\ started # "yes"
  /\ started = "yes" => pgid
  /\ spawnFailed => started = "no"
  /\ term = "settle" => started = "no"

\* The catch block leaves a published group only quiescent or to a roll-back
\* that has thrown.
RolledBackOrQuiet ==
  /\ wait["run"] = "true" => quiet
  /\ run \in {"rollback", "remove"} \/ outcome \in {"cancelled", "rejected"} => started # "pending"
  /\ run = "remove" \/ outcome \in {"cancelled", "rejected"} =>
       (started = "yes" => quiet \/ wait["run"] = "threw")

ProcessIInv ==
  /\ WordsOK /\ FlagsOK /\ CountsOK
  /\ EndLast
  /\ FramesCounted
  /\ ExitKnown
  /\ OutcomeFaithful
  /\ StartKnown
  /\ RolledBackOrQuiet

----------------------------------------------------------------------------
(* Counting output frames *)

Frames == {"start", "fail", "end", "data"}

\* The count is a number, and 0 for an empty channel.
LEMMA DataCount ==
  /\ \A q \in Seq(Frames) : IsFiniteSet(DataAt(q)) /\ Cardinality(DataAt(q)) \in Nat
  /\ Cardinality(DataAt(<<>>)) = 0
<1>1. ASSUME NEW q \in Seq(Frames)
      PROVE  IsFiniteSet(DataAt(q)) /\ Cardinality(DataAt(q)) \in Nat
  <2>1. DataAt(q) \subseteq 1..Len(q) /\ Len(q) \in Nat
    BY DEF DataAt
  <2>2. IsFiniteSet(1..Len(q))
    BY <2>1, FS_Interval
  <2>3. IsFiniteSet(DataAt(q))
    BY <2>1, <2>2, FS_Subset
  <2>4. QED
    BY <2>3, FS_CardinalityType
<1>2. DataAt(<<>>) = {}
  BY DEF DataAt
<1>3. QED
  BY <1>1, <1>2, FS_EmptySet

\* A frame put on the channel.
LEMMA DataAppended ==
  ASSUME NEW q \in Seq(Frames), NEW x \in Frames
  PROVE  /\ x = "data" => Cardinality(DataAt(Append(q, x))) = Cardinality(DataAt(q)) + 1
         /\ x # "data" => Cardinality(DataAt(Append(q, x))) = Cardinality(DataAt(q))
<1>1. x # "data" => DataAt(Append(q, x)) = DataAt(q)
  BY DEF DataAt
<1>2. x = "data" => DataAt(Append(q, x)) = DataAt(q) \union {Len(q) + 1}
  BY DEF DataAt
<1>3. Len(q) + 1 \notin DataAt(q)
  BY DEF DataAt
<1>4. QED
  BY <1>1, <1>2, <1>3, DataCount, FS_AddElement

\* A frame taken from the channel.
LEMMA DataPumped ==
  ASSUME NEW q \in Seq(Frames), q # <<>>
  PROVE  /\ Head(q) = "data" => Cardinality(DataAt(q)) = Cardinality(DataAt(Tail(q))) + 1
         /\ Head(q) # "data" => Cardinality(DataAt(q)) = Cardinality(DataAt(Tail(q)))
<1> DEFINE S == DataAt(q) \ {1}
           T == DataAt(Tail(q))
           f == [i \in S |-> i - 1]
<1>1. Tail(q) \in Seq(Frames) /\ Len(q) \in Nat /\ Len(q) > 0 /\ Len(Tail(q)) = Len(q) - 1
      /\ \A i \in 1..(Len(q) - 1) : Tail(q)[i] = q[i + 1]
  OBVIOUS
<1>2. S \subseteq 2..Len(q) /\ T \subseteq 1..(Len(q) - 1)
  BY <1>1 DEF DataAt
<1>3. \A i \in S : i - 1 \in T
  BY <1>1, <1>2 DEF DataAt
<1>4. \A j \in T : j + 1 \in S
  BY <1>1, <1>2 DEF DataAt
<1>5. f \in Bijection(S, T)
  <2>1. f \in [S -> T]
    BY <1>3
  <2>2. \A a, b \in S : f[a] = f[b] => a = b
    BY <1>2
  <2>3. \A t \in T : \E a \in S : f[a] = t
    BY <1>2, <1>4
  <2>4. QED
    BY <2>1, <2>2, <2>3 DEF Bijection, Injection, Surjection, IsInjective
<1>6. IsFiniteSet(DataAt(q)) /\ IsFiniteSet(S)
  BY DataCount, FS_Subset
<1>7. Cardinality(S) = Cardinality(T)
  <2>1. ExistsBijection(S, T)
    BY <1>5 DEF ExistsBijection
  <2>2. QED
    BY <1>6, <2>1, FS_Bijection
<1>8. Head(q) = "data" <=> 1 \in DataAt(q)
  BY <1>1 DEF DataAt
<1>9. CASE Head(q) = "data"
  <2>1. Cardinality(S) = Cardinality(DataAt(q)) - 1
    BY <1>6, <1>8, <1>9, FS_RemoveElement
  <2>2. QED
    BY <1>7, <1>9, <2>1, DataCount
<1>10. CASE Head(q) # "data"
  <2>1. S = DataAt(q)
    BY <1>8, <1>10
  <2>2. QED
    BY <1>7, <1>10, <2>1
<1>11. QED
  BY <1>9, <1>10

----------------------------------------------------------------------------
(* The initial state *)

\* Nothing was started yet.
LEMMA InitProcess == Init => ProcessIInv
<1> SUFFICES ASSUME Init PROVE ProcessIInv
  OBVIOUS
<1>1. WordsOK
  BY DEF Init, WordsOK, Waiters
<1>2. FlagsOK
  BY DEF Init, FlagsOK
<1>3. CountsOK
  BY ProcessAssumption DEF Init, CountsOK
<1>4. EndLast
  BY DEF Init, EndLast
<1>5. FramesCounted
  BY DataCount DEF Init, FramesCounted, Unpumped
<1>6. ExitKnown /\ OutcomeFaithful
  BY DEF Init, ExitKnown, OutcomeFaithful
<1>7. StartKnown /\ RolledBackOrQuiet
  BY DEF Init, StartKnown, RolledBackOrQuiet, Waiters
<1>8. QED
  BY <1>1, <1>2, <1>3, <1>4, <1>5, <1>6, <1>7 DEF ProcessIInv

----------------------------------------------------------------------------
(* The host *)

\* The count of a channel that does not change.
LEMMA UnpumpedSame == out' = out => Unpumped' = Unpumped
BY DEF Unpumped

\* What an emitted frame does to the channel.
LEMMA Emitted ==
  ASSUME ProcessIInv, NEW x \in Frames, Emit(x)
  PROVE  /\ out' \in Seq(Frames)
         /\ out' = IF chan = "open" THEN Append(out, x) ELSE out
         /\ \A i \in DOMAIN out' : out'[i] = "end" =>
              (i = Len(out') /\ x = "end") \/ (i \in DOMAIN out /\ out[i] = "end")
         /\ x = "data" /\ chan = "open" => Unpumped' = Unpumped + 1
         /\ ~(x = "data" /\ chan = "open") => Unpumped' = Unpumped
<1>1. out \in Seq(Frames)
  BY DEF ProcessIInv, WordsOK, Frames
<1>2. out' = IF chan = "open" THEN Append(out, x) ELSE out
  BY DEF Emit
<1>3. out' \in Seq(Frames)
  BY <1>1, <1>2
<1>4. \A i \in DOMAIN out' : out'[i] = "end" =>
        (i = Len(out') /\ x = "end") \/ (i \in DOMAIN out /\ out[i] = "end")
  BY <1>1, <1>2
<1>5. /\ x = "data" /\ chan = "open" => Unpumped' = Unpumped + 1
      /\ ~(x = "data" /\ chan = "open") => Unpumped' = Unpumped
  BY <1>1, <1>2, DataAppended DEF Unpumped
<1>6. QED
  BY <1>2, <1>3, <1>4, <1>5

HandleVars == <<link, pumpVars, eventVars, runVars, termVars, wait>>

\* What the handle knows stays true when the host moves on.
LEMMA HandleKeeps ==
  ASSUME ProcessIInv, UNCHANGED HandleVars, wrapper # "none",
         leader = "gone" => leader' = "gone" /\ fate' = fate,
         leader' = "gone" => fate' \in Fates,
         status => status', status' => leader' = "gone"
  PROVE  ExitKnown' /\ OutcomeFaithful' /\ StartKnown' /\ RolledBackOrQuiet'
<1> USE DEF ProcessIInv
<1>1. /\ launched' = launched /\ started' = started /\ pgid' = pgid /\ ended' = ended /\ first' = first
      /\ run' = run /\ outcome' = outcome /\ spawnFailed' = spawnFailed /\ expired' = expired
      /\ term' = term /\ requested' = requested /\ sig' = sig /\ quiet' = quiet /\ wait' = wait
  BY DEF HandleVars, eventVars, runVars, termVars
<1>2. launched = "yes"
  BY DEF StartKnown
<1>3. ExitKnown'
  BY <1>1 DEF ExitKnown
<1>4. OutcomeFaithful'
  BY <1>1 DEF OutcomeFaithful
<1>5. StartKnown'
  BY <1>1, <1>2 DEF StartKnown
<1>6. RolledBackOrQuiet'
  BY <1>1 DEF RolledBackOrQuiet
<1>7. QED
  BY <1>3, <1>4, <1>5, <1>6

\* The wrapper gives up, or is killed.
LEMMA WrapperGivesUp ==
  ASSUME ProcessIInv, WrapperFails \/ WrapperDies
  PROVE  ProcessIInv'
<1> USE DEF ProcessIInv
<1>1. /\ wrapper \in {"setup", "launched", "waiting", "draining"} /\ wrapper' \in {"failed", "dead"}
      /\ chan' = IF chan = "open" THEN "eof" ELSE chan
      /\ UNCHANGED <<leader, kids, fate, status, written, emitted>> /\ UNCHANGED HandleVars
  BY DEF WrapperFails, WrapperDies, ChannelEof, HandleVars
<1>2. UNCHANGED <<received, ended>>
  BY <1>1 DEF HandleVars, pumpVars, eventVars
<1>3. /\ out' \in Seq(Frames) /\ Unpumped' = Unpumped
      /\ \A i \in DOMAIN out' : out'[i] = "end" => i \in DOMAIN out /\ out[i] = "end"
  <2>1. CASE WrapperFails
    BY <2>1, Emitted DEF WrapperFails, Frames
  <2>2. CASE WrapperDies
    BY <2>2, UnpumpedSame DEF WrapperDies, WordsOK, Frames
  <2>3. QED
    BY <2>1, <2>2
<1>4. WordsOK' /\ FlagsOK' /\ CountsOK'
  BY <1>1, <1>3 DEF WordsOK, FlagsOK, CountsOK, Frames, HandleVars, pumpVars, eventVars, runVars, termVars
<1>5. ~ended /\ \A i \in DOMAIN out : out[i] # "end"
  BY <1>1 DEF EndLast
<1>6. EndLast'
  BY <1>1, <1>2, <1>3, <1>5 DEF EndLast
<1>7. FramesCounted'
  BY <1>1, <1>2, <1>3, <1>5 DEF FramesCounted
<1>8. ExitKnown' /\ OutcomeFaithful' /\ StartKnown' /\ RolledBackOrQuiet'
  BY <1>1, HandleKeeps DEF ExitKnown
<1>9. QED
  BY <1>4, <1>6, <1>7, <1>8

\* The wrapper launches the child, publishes its group and reaps it.
LEMMA WrapperAdvances ==
  ASSUME ProcessIInv, WrapperLaunches \/ WrapperStarts \/ WrapperReaps
  PROVE  ProcessIInv'
<1> USE DEF ProcessIInv
<1>1. /\ \/ wrapper = "setup" /\ wrapper' = "launched" /\ leader' = "live" /\ status' = status
         \/ wrapper = "launched" /\ wrapper' = "waiting" /\ leader' = leader /\ status' = status
         \/ wrapper = "waiting" /\ wrapper' = "draining" /\ leader' = leader /\ leader = "gone"
            /\ status' = TRUE
      /\ UNCHANGED <<chan, kids, fate, written, emitted>> /\ UNCHANGED HandleVars
  BY DEF WrapperLaunches, WrapperStarts, WrapperReaps, HandleVars, chanVars
<1>2. UNCHANGED <<received, ended>>
  BY <1>1 DEF HandleVars, pumpVars, eventVars
<1>3. /\ out' \in Seq(Frames) /\ Unpumped' = Unpumped
      /\ \A i \in DOMAIN out' : out'[i] = "end" => i \in DOMAIN out /\ out[i] = "end"
  <2>1. CASE WrapperStarts
    BY <2>1, Emitted DEF WrapperStarts, Frames
  <2>2. CASE WrapperLaunches \/ WrapperReaps
    BY <2>2, UnpumpedSame DEF WrapperLaunches, WrapperReaps, chanVars, WordsOK, Frames
  <2>3. QED
    BY <2>1, <2>2
<1>4. WordsOK' /\ CountsOK'
  BY <1>1, <1>3 DEF WordsOK, CountsOK, Frames, HandleVars, pumpVars, eventVars, runVars, termVars
<1>5. FlagsOK'
  <2>1. kids' \in BOOLEAN /\ status' \in BOOLEAN
    BY <1>1 DEF FlagsOK
  <2>2. QED
    BY <1>1, <2>1 DEF FlagsOK, HandleVars, pumpVars, eventVars, runVars, termVars
<1>6. ~ended /\ \A i \in DOMAIN out : out[i] # "end"
  BY <1>1 DEF EndLast
<1>7. EndLast'
  BY <1>1, <1>2, <1>3, <1>6 DEF EndLast
<1>8. FramesCounted'
  BY <1>1, <1>2, <1>3, <1>6 DEF FramesCounted
<1>9. leader = "gone" => leader' = "gone"
  BY <1>1 DEF EndLast
<1>10. ExitKnown' /\ OutcomeFaithful' /\ StartKnown' /\ RolledBackOrQuiet'
  BY <1>1, <1>9, HandleKeeps DEF ExitKnown
<1>11. QED
  BY <1>4, <1>5, <1>7, <1>8, <1>10

\* END: the group is gone, its output encoded, and the frame closes the channel.
LEMMA WrapperSaysEnd ==
  ASSUME ProcessIInv, WrapperEnds
  PROVE  ProcessIInv'
<1> USE DEF ProcessIInv
<1>1. /\ wrapper = "draining" /\ wrapper' = "ended" /\ ~kids /\ emitted = written
      /\ chan' = IF chan = "open" THEN "eof" ELSE chan
      /\ UNCHANGED <<leader, kids, fate, status, written, emitted>> /\ UNCHANGED HandleVars
  BY DEF WrapperEnds, ChannelEof, HandleVars
<1>2. UNCHANGED <<received, ended>>
  BY <1>1 DEF HandleVars, pumpVars, eventVars
<1>3. /\ out' \in Seq(Frames) /\ Unpumped' = Unpumped
      /\ out' = IF chan = "open" THEN Append(out, "end") ELSE out
      /\ \A i \in DOMAIN out' : out'[i] = "end" => i = Len(out') \/ (i \in DOMAIN out /\ out[i] = "end")
  BY Emitted DEF WrapperEnds, Frames
<1>4. WordsOK' /\ FlagsOK' /\ CountsOK'
  BY <1>1, <1>3 DEF WordsOK, FlagsOK, CountsOK, Frames, HandleVars, pumpVars, eventVars, runVars, termVars
<1>5. ~ended /\ \A i \in DOMAIN out : out[i] # "end"
  BY <1>1 DEF EndLast
<1>6. EndLast'
  BY <1>1, <1>2, <1>3, <1>5 DEF EndLast
<1>7. FramesCounted'
  <2>1. CASE chan = "open"
    BY <1>1, <1>2, <1>3, <2>1 DEF FramesCounted
  <2>2. CASE chan # "open"
    BY <1>1, <1>2, <1>3, <1>5, <2>2 DEF FramesCounted
  <2>3. QED
    BY <2>1, <2>2
<1>8. ExitKnown' /\ OutcomeFaithful' /\ StartKnown' /\ RolledBackOrQuiet'
  BY <1>1, HandleKeeps DEF ExitKnown
<1>9. QED
  BY <1>4, <1>6, <1>7, <1>8

\* Output is written and encoded.
LEMMA OutputFlows ==
  ASSUME ProcessIInv, errWritten \in Nat, GroupWrites \/ EncoderFlushes
  PROVE  ProcessIInv'
<1> USE DEF ProcessIInv
<1>1. /\ UNCHANGED <<wrapper, leader, kids, fate, status, chan>> /\ UNCHANGED HandleVars
      /\ \/ GroupLive /\ written < MaxOut /\ written' = written + 1 /\ emitted' = emitted /\ out' = out
         \/ emitted < written /\ emitted' = emitted + 1 /\ written' = written /\ Emit("data")
  <2>1. GroupWrites => written < MaxOut
    BY ProcessAssumption DEF GroupWrites, CountsOK
  <2>2. QED
    BY <2>1 DEF GroupWrites, EncoderFlushes, HandleVars, chanVars
<1>2. UNCHANGED <<received, ended>>
  BY <1>1 DEF HandleVars, pumpVars, eventVars
<1>3. wrapper \notin {"none", "setup", "ended"}
  BY <1>1 DEF EndLast, GroupLive, CountsOK
<1>4. ~ended /\ \A i \in DOMAIN out : out[i] # "end"
  BY <1>3 DEF EndLast
<1>5. /\ out' \in Seq(Frames)
      /\ \A i \in DOMAIN out' : out'[i] # "end"
  <2>1. CASE out' = out
    BY <1>4, <2>1 DEF WordsOK, Frames
  <2>2. CASE Emit("data")
    BY <1>4, <2>2, Emitted DEF Frames
  <2>3. QED
    BY <1>1, <2>1, <2>2
<1>6. CountsOK'
  BY <1>1, <1>2, ProcessAssumption DEF CountsOK
<1>7. WordsOK' /\ FlagsOK'
  BY <1>1, <1>5 DEF WordsOK, FlagsOK, Frames, HandleVars, pumpVars, eventVars, runVars, termVars
<1>8. EndLast'
  BY <1>1, <1>2, <1>3, <1>4, <1>5 DEF EndLast
<1>9. FramesCounted'
  <2>1. Unpumped \in Nat /\ received \in Nat /\ emitted \in Nat
    BY DataCount, ProcessAssumption DEF Unpumped, WordsOK, CountsOK, Frames
  <2>2. CASE out' = out /\ emitted' = emitted
    BY <1>1, <1>2, <2>2, UnpumpedSame DEF FramesCounted
  <2>3. CASE Emit("data") /\ emitted' = emitted + 1 /\ chan = "open"
    <3>1. Unpumped' = Unpumped + 1
      BY <2>3, Emitted DEF Frames
    <3>2. received + Unpumped = emitted
      BY <2>3 DEF FramesCounted
    <3>3. received' + Unpumped' = emitted'
      BY <1>2, <2>1, <2>3, <3>1, <3>2
    <3>4. received' + Unpumped' <= emitted'
      BY <1>2, <2>1, <2>3, <3>1, <3>2
    <3>5. QED
      BY <3>3, <3>4 DEF FramesCounted
  <2>4. CASE Emit("data") /\ emitted' = emitted + 1 /\ chan # "open"
    <3>1. Unpumped' = Unpumped
      BY <2>4, Emitted DEF Frames
    <3>2. received' + Unpumped' <= emitted'
      BY <1>2, <2>1, <2>4, <3>1 DEF FramesCounted
    <3>3. chan' # "open" /\ ~ended' /\ ~ \E i \in DOMAIN out' : out'[i] = "end"
      BY <1>1, <1>2, <1>4, <1>5, <2>4
    <3>4. QED
      BY <3>2, <3>3 DEF FramesCounted
  <2>5. QED
    BY <1>1, <2>2, <2>3, <2>4
<1>10. ExitKnown' /\ OutcomeFaithful' /\ StartKnown' /\ RolledBackOrQuiet'
  BY <1>1, <1>3, HandleKeeps DEF ExitKnown
<1>11. QED
  BY <1>6, <1>7, <1>8, <1>9, <1>10

\* Members of the group come and go.
LEMMA GroupChanges ==
  ASSUME ProcessIInv, LeaderForks \/ LeaderExits \/ KidsExit
  PROVE  ProcessIInv'
<1> USE DEF ProcessIInv
<1>1. /\ UNCHANGED <<wrapper, status, written, emitted, chan, out>> /\ UNCHANGED HandleVars
      /\ \/ leader = "live" /\ leader' = leader /\ fate' = fate /\ kids' = TRUE
         \/ leader = "live" /\ leader' = "gone" /\ fate' \in Fates /\ kids' = kids
         \/ kids /\ kids' = FALSE /\ leader' = leader /\ fate' = fate
  BY FatesAssumption DEF LeaderForks, LeaderExits, KidsExit, HandleVars, chanVars
<1>2. UNCHANGED <<received, ended>>
  BY <1>1 DEF HandleVars, pumpVars, eventVars
<1>3. wrapper \notin {"none", "setup", "ended"}
  BY <1>1 DEF EndLast
<1>4. WordsOK' /\ CountsOK'
  BY <1>1 DEF WordsOK, CountsOK, HandleVars, pumpVars, eventVars, runVars, termVars
<1>5. FlagsOK'
  <2>1. kids' \in BOOLEAN /\ status' \in BOOLEAN
    BY <1>1 DEF FlagsOK
  <2>2. QED
    BY <1>1, <2>1 DEF FlagsOK, HandleVars, pumpVars, eventVars, runVars, termVars
<1>6. EndLast'
  BY <1>1, <1>2, <1>3 DEF EndLast
<1>7. FramesCounted'
  BY <1>1, <1>2, UnpumpedSame DEF FramesCounted
<1>8. status => leader' = "gone"
  BY <1>1 DEF ExitKnown
<1>9. ExitKnown' /\ OutcomeFaithful' /\ StartKnown' /\ RolledBackOrQuiet'
  BY <1>1, <1>3, <1>8, HandleKeeps DEF ExitKnown
<1>10. QED
  BY <1>4, <1>5, <1>6, <1>7, <1>9

----------------------------------------------------------------------------
(* The channel *)

\* A channel that is cut, or left alone, while members of the group may die.
LEMMA CutFrames ==
  ASSUME ProcessIInv, UNCHANGED <<wrapper, written, emitted, received, ended>>,
         chan' = chan \/ (chan = "open" /\ chan' = "cut"),
         out' = out \/ (out' = <<>> /\ chan' # "open"),
         leader' = leader \/ (leader = "live" /\ leader' = "gone"), kids' => kids
  PROVE  /\ chan' \in {"none", "open", "eof", "cut"}
         /\ out' \in Seq({"start", "fail", "end", "data"})
         /\ CountsOK' /\ EndLast' /\ FramesCounted'
<1> USE DEF ProcessIInv
<1>1. chan' \in {"none", "open", "eof", "cut"}
  BY DEF WordsOK
<1>2. out' \in Seq({"start", "fail", "end", "data"})
  <2>1. CASE out' = out
    BY <2>1 DEF WordsOK
  <2>2. CASE out' = <<>>
    BY <2>2
  <2>3. QED
    BY <2>1, <2>2
<1>3. CountsOK'
  BY DEF CountsOK
<1>4. EndLast'
  <2>1. CASE out' = out
    BY <2>1 DEF EndLast
  <2>2. CASE out' = <<>>
    BY <2>2 DEF EndLast
  <2>3. QED
    BY <2>1, <2>2
<1>5. FramesCounted'
  <2>1. CASE out' = out
    BY <2>1, UnpumpedSame DEF FramesCounted
  <2>2. CASE out' # out
    <3>1. Unpumped' = 0 /\ Unpumped \in Nat /\ received \in Nat /\ emitted \in Nat
      BY <2>2, DataCount, ProcessAssumption DEF Unpumped, WordsOK, CountsOK, Frames
    <3>2. received' + Unpumped' <= emitted'
      BY <3>1 DEF FramesCounted
    <3>3. ~ended /\ out' = <<>> /\ chan' # "open"
      BY <2>2 DEF EndLast
    <3>4. QED
      BY <3>2, <3>3 DEF FramesCounted
  <2>3. QED
    BY <2>1, <2>2
<1>6. QED
  BY <1>1, <1>2, <1>3, <1>4, <1>5

\* The connection is lost.
LEMMA LosesConnection ==
  ASSUME ProcessIInv, ConnectionLost
  PROVE  ProcessIInv'
<1> USE DEF ProcessIInv
<1>1. /\ link' = FALSE /\ chan' = (IF chan = "open" THEN "cut" ELSE chan) /\ out' \in {out, <<>>}
      /\ UNCHANGED remoteVars /\ UNCHANGED pumpVars /\ UNCHANGED eventVars
      /\ UNCHANGED runVars /\ UNCHANGED termVars /\ UNCHANGED wait
  BY DEF ConnectionLost
<1>2. UNCHANGED <<wrapper, leader, kids, fate, status, written, emitted, received, ended>>
  BY <1>1 DEF remoteVars, pumpVars, eventVars
<1>3. /\ chan' \in {"none", "open", "eof", "cut"}
      /\ out' \in Seq({"start", "fail", "end", "data"})
      /\ CountsOK' /\ EndLast' /\ FramesCounted'
  BY <1>1, <1>2, CutFrames
<1>4. WordsOK'
  BY <1>1, <1>2, <1>3 DEF WordsOK, eventVars, runVars, termVars
<1>5. FlagsOK'
  <2>1. link' \in BOOLEAN
    BY <1>1
  <2>2. QED
    BY <1>1, <1>2, <2>1 DEF FlagsOK, pumpVars, eventVars, runVars, termVars
<1>6. ExitKnown' /\ OutcomeFaithful'
  BY <1>1, <1>2 DEF ExitKnown, OutcomeFaithful, eventVars, runVars, termVars
<1>7. StartKnown' /\ RolledBackOrQuiet'
  BY <1>1, <1>2 DEF StartKnown, RolledBackOrQuiet, eventVars, runVars, termVars
<1>8. QED
  BY <1>3, <1>4, <1>5, <1>6, <1>7

\* A frame is pumped: END is known only when nothing is left behind it.
LEMMA PumpsFrame ==
  ASSUME ProcessIInv, Pump
  PROVE  ProcessIInv'
<1> USE DEF ProcessIInv
<1>1. /\ out \in Seq(Frames) /\ out # <<>> /\ Head(out) \in Frames /\ Len(out) \in Nat /\ Len(out) > 0
      /\ Tail(out) \in Seq(Frames) /\ Len(Tail(out)) = Len(out) - 1
      /\ Head(out) = out[1]
      /\ \A i \in DOMAIN Tail(out) : i + 1 \in DOMAIN out /\ Tail(out)[i] = out[i + 1]
  BY DEF Pump, WordsOK, Frames
<1>2. /\ out' = Tail(out)
      /\ received' = IF Head(out) = "data" THEN received + 1 ELSE received
      /\ started' = IF Head(out) = "start" /\ started = "pending" THEN "yes" ELSE started
      /\ pgid' = (pgid \/ Head(out) = "start")
      /\ failed' = (failed \/ Head(out) = "fail")
      /\ ended' = (ended \/ Head(out) = "end")
      /\ first' = first \/ (run = "race" /\ first' \in {"fail", "end"} /\ first' = Head(out))
      /\ UNCHANGED <<wrapper, leader, kids, fate, status, written, emitted, link, chan, pumped, outErr,
                     launched, wait>>
      /\ UNCHANGED runVars /\ UNCHANGED termVars
  BY DEF Pump, Settles, remoteVars
<1>3. launched = "yes"
  BY <1>1 DEF StartKnown
<1>4. ~ended
  BY <1>1 DEF EndLast
<1>5. Head(out) = "end" => wrapper = "ended" /\ Tail(out) = <<>>
  BY <1>1 DEF EndLast
<1>6. Unpumped \in Nat /\ Cardinality(DataAt(Tail(out))) \in Nat
  BY <1>1, DataCount DEF Unpumped
<1>7. CountsOK'
  BY <1>2 DEF CountsOK
<1>8. WordsOK'
  BY <1>1, <1>2 DEF WordsOK, Frames, runVars, termVars
<1>9. FlagsOK'
  <2>1. pgid' \in BOOLEAN /\ failed' \in BOOLEAN /\ ended' \in BOOLEAN
    BY <1>2
  <2>2. QED
    BY <1>2, <2>1 DEF FlagsOK, runVars, termVars
<1>10. EndLast'
  <2>1. \A i \in DOMAIN out' : out'[i] = "end" => i = Len(out') /\ wrapper' = "ended"
    BY <1>1, <1>2 DEF EndLast
  <2>2. ended' => wrapper' = "ended" /\ out' = <<>>
    BY <1>2, <1>4, <1>5
  <2>3. wrapper \in {"none", "setup"} => Head(out) # "data"
    BY <1>1, <1>6, DataPumped DEF EndLast, FramesCounted, CountsOK, Unpumped
  <2>4. QED
    BY <1>2, <2>1, <2>2, <2>3 DEF EndLast
<1>11. FramesCounted'
  <2>1. received' + Unpumped' = received + Unpumped
    <3>1. Unpumped' = Cardinality(DataAt(Tail(out)))
      BY <1>2 DEF Unpumped
    <3>2. CASE Head(out) = "data"
      BY <1>1, <1>2, <1>6, <3>1, <3>2, DataPumped DEF Unpumped, CountsOK
    <3>3. CASE Head(out) # "data"
      BY <1>1, <1>2, <1>6, <3>1, <3>3, DataPumped DEF Unpumped, CountsOK
    <3>4. QED
      BY <3>2, <3>3
  <2>2. chan' = "open" \/ ended' \/ (\E i \in DOMAIN out' : out'[i] = "end") =>
          chan = "open" \/ (\E i \in DOMAIN out : out[i] = "end")
    <3>1. (\E i \in DOMAIN out' : out'[i] = "end") => \E i \in DOMAIN out : out[i] = "end"
      BY <1>1, <1>2
    <3>2. ended' => \E i \in DOMAIN out : out[i] = "end"
      <4>1. ended' => Head(out) = "end"
        BY <1>2, <1>4
      <4>2. 1 \in DOMAIN out /\ Head(out) = out[1]
        BY <1>1
      <4>3. QED
        BY <4>1, <4>2
    <3>3. chan' = chan
      BY <1>2
    <3>4. QED
      BY <3>1, <3>2, <3>3
  <2>3. QED
    BY <1>2, <2>1, <2>2 DEF FramesCounted
<1>12. ExitKnown' /\ OutcomeFaithful'
  BY <1>2, <1>4 DEF ExitKnown, OutcomeFaithful, runVars, termVars
<1>13. StartKnown'
  BY <1>2, <1>3 DEF StartKnown, runVars, termVars
<1>14. RolledBackOrQuiet'
  BY <1>2 DEF RolledBackOrQuiet, runVars, termVars
<1>15. QED
  BY <1>8, <1>9, <1>10, <1>11, <1>12, <1>13, <1>14, <1>7

\* What the host did and the channel carries does not change.
StillVars == <<remoteVars, chanVars, pumpVars, ended>>

\* Steps of the handle leave the counts of the frames alone.
LEMMA StillKeeps ==
  ASSUME ProcessIInv, UNCHANGED StillVars
  PROVE  CountsOK' /\ EndLast' /\ FramesCounted'
<1> USE DEF ProcessIInv
<1>1. UNCHANGED <<wrapper, leader, kids, fate, status, written, emitted, chan, out, received, ended>>
  BY DEF StillVars, remoteVars, chanVars, pumpVars
<1>2. CountsOK'
  BY <1>1 DEF CountsOK
<1>3. EndLast'
  BY <1>1 DEF EndLast
<1>4. FramesCounted'
  BY <1>1, UnpumpedSame DEF FramesCounted
<1>5. QED
  BY <1>2, <1>3, <1>4

\* The pumps end; the end of the channel or the status file settles the race.
LEMMA RaceEvents ==
  ASSUME ProcessIInv, StreamFails \/ PumpsEnd \/ ChannelClosed \/ StatusPolled
  PROVE  ProcessIInv'
<1> USE DEF ProcessIInv
<1>1. /\ UNCHANGED remoteVars /\ UNCHANGED chanVars /\ UNCHANGED runVars /\ UNCHANGED termVars
      /\ UNCHANGED <<launched, started, pgid, failed, ended, received, wait>>
      /\ pumped' = pumped \/ pumped' = TRUE
      /\ outErr' = outErr \/ outErr' = TRUE \/ outErr' = FALSE
      /\ first' = first \/ (first' = "closed") \/ (first' = "status" /\ status)
  BY DEF StreamFails, PumpsEnd, ChannelClosed, StatusPolled, Settles, pumpVars, eventVars
<1>2. UNCHANGED <<wrapper, leader, kids, fate, status, written, emitted, chan, out>>
  BY <1>1 DEF remoteVars, chanVars
<1>3. CountsOK'
  BY <1>1, <1>2 DEF CountsOK
<1>4. EndLast'
  BY <1>1, <1>2 DEF EndLast
<1>5. FramesCounted'
  BY <1>1, <1>2, UnpumpedSame DEF FramesCounted
<1>6. WordsOK'
  BY <1>1, <1>2 DEF WordsOK, runVars, termVars
<1>7. FlagsOK'
  <2>1. pumped' \in BOOLEAN /\ outErr' \in BOOLEAN
    BY <1>1 DEF FlagsOK
  <2>2. QED
    BY <1>1, <1>2, <2>1 DEF FlagsOK, chanVars, runVars, termVars
<1>8. ExitKnown' /\ OutcomeFaithful'
  BY <1>1, <1>2 DEF ExitKnown, OutcomeFaithful, runVars, termVars
<1>9. StartKnown' /\ RolledBackOrQuiet'
  BY <1>1, <1>2 DEF StartKnown, RolledBackOrQuiet, runVars, termVars
<1>10. QED
  BY <1>3, <1>4, <1>5, <1>6, <1>7, <1>8, <1>9

----------------------------------------------------------------------------
(* run() *)

\* The catch block, whatever it was entered from.
LEMMA CaughtKeeps ==
  ASSUME ProcessIInv, Caught, UNCHANGED <<remoteVars, chanVars, pumpVars>>,
         expired' = expired \/ expired' = TRUE,
         run \notin {"rollback", "remove", "settled"}
  PROVE  ProcessIInv'
<1> USE DEF ProcessIInv
<1>1. /\ UNCHANGED <<wrapper, leader, kids, fate, status, written, emitted, link, chan, out,
                     received, pumped, outErr, pgid, failed, ended, sig, quiet, spared, blind, outcome>>
      /\ first' = "none" /\ outcome = "none"
  BY DEF Caught, remoteVars, chanVars, pumpVars, StartKnown
<1>2. /\ cancelled' = (requested /\ started = "pending" /\ ~ended)
      /\ spawnFailed' = (started = "pending" /\ ~ended /\ ~failed)
      /\ started' = IF started = "pending" THEN "no" ELSE started
      /\ launched' = IF launched = "pending" THEN "no" ELSE launched
  BY DEF Caught, Catch
<1>3. /\ \/ pgid /\ ~quiet /\ run' = "rollback" /\ wait' = [wait EXCEPT !["run"] = "check"]
         \/ ~(pgid /\ ~quiet) /\ run' = "remove" /\ wait' = wait
      /\ \/ term' = term /\ requested' = requested /\ failure' = failure
         \/ term' = "launch" /\ requested' = TRUE /\ failure' = FALSE
  BY DEF Caught, Catch, BeginTermination
<1>4. CountsOK' /\ EndLast' /\ FramesCounted'
  <2>1. UNCHANGED StillVars
    BY <1>1 DEF StillVars
  <2>2. QED
    BY <2>1, StillKeeps
<1>5. wait' \in [Waiters -> {"idle", "check", "probe", "true", "threw"}]
  BY <1>3 DEF WordsOK
<1>6. WordsOK'
  BY <1>1, <1>2, <1>3, <1>5 DEF WordsOK
<1>7. FlagsOK'
  <2>1. cancelled' \in BOOLEAN /\ spawnFailed' \in BOOLEAN
    BY <1>2
  <2>2. expired' \in BOOLEAN /\ requested' \in BOOLEAN /\ failure' \in BOOLEAN
    BY <1>3 DEF FlagsOK
  <2>3. QED
    BY <1>1, <2>1, <2>2 DEF FlagsOK
<1>8. ExitKnown' /\ OutcomeFaithful'
  BY <1>1, <1>3 DEF ExitKnown, OutcomeFaithful
<1>9. StartKnown'
  BY <1>1, <1>2, <1>3 DEF StartKnown
<1>10. RolledBackOrQuiet'
  <2>1. wait'["run"] = "check" \/ wait'["run"] = wait["run"]
    BY <1>3 DEF WordsOK, Waiters
  <2>2. started' # "pending" /\ (started' = "yes" => started = "yes" /\ pgid)
    BY <1>2 DEF StartKnown, WordsOK
  <2>3. run' = "remove" /\ started' = "yes" => quiet'
    BY <1>1, <1>3, <2>2
  <2>4. QED
    BY <1>1, <2>1, <2>2, <2>3 DEF RolledBackOrQuiet
<1>11. QED
  BY <1>4, <1>6, <1>7, <1>8, <1>9, <1>10

\* `done` is settled with an exit fact, or the output error is caught.
LEMMA FinishKeeps ==
  ASSUME ProcessIInv, Finish, UNCHANGED <<remoteVars, chanVars, pumpVars>>,
         expired' = expired \/ expired' = TRUE, expired' \/ ended, leader = "gone",
         run \in {"drain", "cut", "sweep", "reread"}
  PROVE  ProcessIInv'
<1> USE DEF ProcessIInv
<1>1. CASE outErr
  BY <1>1, CaughtKeeps DEF Finish
<1>2. CASE ~outErr
  <2>1. /\ outcome' = Verdict /\ run' = "settled"
        /\ UNCHANGED eventVars /\ UNCHANGED termVars /\ UNCHANGED <<cancelled, spawnFailed, wait>>
    BY <1>2 DEF Finish
  <2>2. UNCHANGED <<wrapper, leader, kids, fate, status, written, emitted, link, chan, out,
                    received, pumped, outErr>>
    BY DEF remoteVars, chanVars, pumpVars
  <2>3. CountsOK' /\ EndLast' /\ FramesCounted'
    <3>1. UNCHANGED StillVars
      BY <2>1 DEF StillVars, eventVars
    <3>2. QED
      BY <3>1, StillKeeps
  <2>4. /\ outcome' \in {"exit", "signal"}
        /\ outcome' = "exit" => fate \in {"exit", "odd"}
        /\ outcome' = "signal" => fate \in {"signal", "high"} \/ (fate = "odd" /\ sig)
    BY <2>1 DEF Verdict, StatusText, ExitKnown, Fates
  <2>5. WordsOK'
    BY <2>1, <2>2, <2>4 DEF WordsOK, eventVars, termVars
  <2>6. FlagsOK'
    <3>1. expired' \in BOOLEAN
      BY DEF FlagsOK
    <3>2. QED
      BY <2>1, <2>2, <3>1 DEF FlagsOK, eventVars, termVars
  <2>7. ExitKnown' /\ OutcomeFaithful'
    BY <2>1, <2>2, <2>4 DEF ExitKnown, OutcomeFaithful, eventVars, termVars
  <2>8. StartKnown'
    BY <2>1, <2>2, <2>4 DEF StartKnown, eventVars, termVars
  <2>9. RolledBackOrQuiet'
    BY <2>1, <2>4 DEF RolledBackOrQuiet, eventVars, termVars
  <2>10. QED
    BY <2>3, <2>5, <2>6, <2>7, <2>8, <2>9
<1>3. QED
  BY <1>1, <1>2

\* run() goes on between the race and the end, on what it was told.
LEMMA RunMoves ==
  ASSUME ProcessIInv,
         UNCHANGED <<remoteVars, link, pumpVars, launched, started, pgid, failed, ended,
                     outcome, cancelled, spawnFailed, termVars, wait>>,
         chan' = chan \/ (chan = "open" /\ chan' = "cut"),
         out' = out \/ (out' = <<>> /\ chan' # "open"),
         first' = first \/ first' = "none", expired' = expired \/ expired' = TRUE,
         run \in {"race", "grace", "sweep", "rollback"},
         run' \in {"drain", "grace", "cut", "sweep", "reread", "remove"},
         run' = "drain" => ended, run' \in {"grace", "cut"} => status,
         run' = "cut" => expired',
         run' = "remove" => run = "rollback" /\ wait["run"] \in {"true", "threw"}
  PROVE  ProcessIInv'
<1> USE DEF ProcessIInv
<1>1. UNCHANGED <<wrapper, leader, kids, fate, status, written, emitted, received, pumped, outErr>>
  BY DEF remoteVars, pumpVars
<1>2. /\ chan' \in {"none", "open", "eof", "cut"}
      /\ out' \in Seq({"start", "fail", "end", "data"})
      /\ CountsOK' /\ EndLast' /\ FramesCounted'
  BY <1>1, CutFrames
<1>3. outcome = "none" /\ launched # "pending"
  BY DEF StartKnown
<1>4. WordsOK'
  BY <1>1, <1>2 DEF WordsOK, termVars
<1>5. FlagsOK'
  <2>1. expired' \in BOOLEAN
    BY DEF FlagsOK
  <2>2. QED
    BY <1>1, <2>1 DEF FlagsOK, termVars
<1>6. ExitKnown' /\ OutcomeFaithful'
  BY <1>1, <1>3 DEF ExitKnown, OutcomeFaithful, termVars
<1>7. StartKnown'
  BY <1>1, <1>3 DEF StartKnown, termVars
<1>8. RolledBackOrQuiet'
  BY <1>3 DEF RolledBackOrQuiet, termVars
<1>9. QED
  BY <1>2, <1>4, <1>5, <1>6, <1>7, <1>8

\* The environment is read and the exec channel opened, or the start fails.
LEMMA RunBegins ==
  ASSUME ProcessIInv, RunEnvironment \/ RunExec
  PROVE  ProcessIInv'
<1> USE DEF ProcessIInv
<1>1. CASE Caught /\ UNCHANGED <<chan, wrapper>>
  <2>1. UNCHANGED <<remoteVars, chanVars, pumpVars>> /\ expired' = expired /\ run \in {"env", "exec"}
    BY <1>1 DEF RunEnvironment, RunExec, remoteVars, chanVars
  <2>2. QED
    BY <1>1, <2>1, CaughtKeeps
<1>2. CASE /\ run = "env" /\ run' = "exec"
           /\ UNCHANGED <<eventVars, outcome, cancelled, spawnFailed, termVars, wait>>
           /\ UNCHANGED <<remoteVars, link, chan, out, pumpVars, expired>>
  <2>1. CountsOK' /\ EndLast' /\ FramesCounted'
    <3>1. UNCHANGED StillVars
      BY <1>2 DEF StillVars, eventVars, chanVars
    <3>2. QED
      BY <3>1, StillKeeps
  <2>2. WordsOK' /\ FlagsOK'
    BY <1>2 DEF WordsOK, FlagsOK, remoteVars, pumpVars, eventVars, termVars
  <2>3. ExitKnown' /\ OutcomeFaithful'
    BY <1>2 DEF ExitKnown, OutcomeFaithful, remoteVars, eventVars, termVars
  <2>4. StartKnown' /\ RolledBackOrQuiet'
    BY <1>2 DEF StartKnown, RolledBackOrQuiet, remoteVars, eventVars, termVars
  <2>5. QED
    BY <2>1, <2>2, <2>3, <2>4
<1>3. CASE /\ run = "exec" /\ run' = "race" /\ launched' = "yes" /\ chan' = "open" /\ wrapper' = "setup"
           /\ UNCHANGED <<started, pgid, failed, ended, first, outcome, cancelled,
                          spawnFailed, termVars, wait>>
           /\ UNCHANGED <<leader, kids, fate, status, written, emitted, link, out, pumpVars, expired>>
  <2>1. wrapper = "none" /\ out = <<>> /\ ~ended /\ outcome = "none" /\ first # "end"
    BY <1>3 DEF StartKnown, EndLast, ExitKnown
  <2>2. leader = "none" /\ ~kids /\ written = 0 /\ received = 0 /\ received' = received
    BY <1>3, <2>1 DEF EndLast, pumpVars
  <2>3. CountsOK'
    BY <1>3, <2>2 DEF CountsOK
  <2>4. EndLast'
    BY <1>3, <2>1, <2>2 DEF EndLast
  <2>5. FramesCounted'
    <3>1. Unpumped = 0 /\ emitted = 0 /\ Unpumped' = Unpumped
      BY <1>3, <2>1, <2>2, DataCount, UnpumpedSame DEF CountsOK, Unpumped
    <3>2. QED
      BY <1>3, <2>2, <3>1 DEF FramesCounted
  <2>6. WordsOK' /\ FlagsOK'
    BY <1>3 DEF WordsOK, FlagsOK, pumpVars, termVars
  <2>7. ExitKnown' /\ OutcomeFaithful'
    BY <1>3 DEF ExitKnown, OutcomeFaithful, termVars
  <2>8. StartKnown' /\ RolledBackOrQuiet'
    BY <1>3, <2>1 DEF StartKnown, RolledBackOrQuiet, termVars
  <2>9. QED
    BY <2>3, <2>4, <2>5, <2>6, <2>7, <2>8
<1>4. QED
  BY <1>1, <1>2, <1>3 DEF RunEnvironment, RunExec, remoteVars

\* The race is settled, and the grace that follows the status file is over.
LEMMA RunHears ==
  ASSUME ProcessIInv, RaceSettled \/ GraceEnds \/ GraceExpires
  PROVE  ProcessIInv'
<1> USE DEF ProcessIInv
<1>1. CASE RaceSettled
  <2>1. CASE Caught
    BY <1>1, <2>1, CaughtKeeps DEF RaceSettled
  <2>2. CASE ~Caught
    <3>1. /\ run = "race" /\ first \in {"end", "status", "closed"} /\ first' = "none"
          /\ run' = CASE first = "end" -> "drain" [] first = "status" -> "grace"
                      [] first = "closed" -> "sweep"
          /\ UNCHANGED <<remoteVars, link, pumpVars, launched, started, pgid, failed, ended,
                         outcome, cancelled, spawnFailed, termVars, wait>>
          /\ UNCHANGED <<chan, out, expired>>
      BY <1>1, <2>2 DEF RaceSettled, chanVars
    <3>2. \/ run' = "drain" /\ ended
          \/ run' = "grace" /\ status
          \/ run' = "sweep"
      BY <3>1 DEF ExitKnown
    <3>3. QED
      BY <3>1, <3>2, RunMoves
  <2>3. QED
    BY <2>1, <2>2
<1>2. CASE GraceEnds
  BY <1>2, RunMoves DEF GraceEnds, chanVars, eventVars
<1>3. CASE GraceExpires
  <2>1. status
    BY <1>3 DEF GraceExpires, ExitKnown
  <2>2. /\ chan' = chan \/ (chan = "open" /\ chan' = "cut")
        /\ out' = out \/ (out' = <<>> /\ chan' # "open")
        /\ link' = link
    BY <1>3 DEF GraceExpires, CutChannel
  <2>3. QED
    BY <1>3, <2>1, <2>2, RunMoves DEF GraceExpires, eventVars
<1>4. QED
  BY <1>1, <1>2, <1>3

\* An exit fact is taken from END, from the status file, or from nowhere.
LEMMA RunFinishes ==
  ASSUME ProcessIInv, PumpsGiven \/ SweepDone \/ Reread
  PROVE  ProcessIInv'
<1> USE DEF ProcessIInv
<1>1. ended \/ status => leader = "gone"
  BY DEF EndLast, ExitKnown
<1>2. CASE PumpsGiven
  <2>1. run = "drain" => ended
    BY DEF ExitKnown
  <2>2. run = "cut" => status /\ expired
    BY DEF ExitKnown
  <2>3. QED
    BY <1>1, <1>2, <2>1, <2>2, FinishKeeps DEF PumpsGiven
<1>3. CASE SweepDone
  <2>1. CASE Caught
    BY <1>3, <2>1, CaughtKeeps DEF SweepDone
  <2>2. CASE ended /\ Finish
    BY <1>1, <1>3, <2>2, FinishKeeps DEF SweepDone
  <2>3. CASE run' = "reread" /\ UNCHANGED <<eventVars, outcome, cancelled, spawnFailed, termVars, wait>>
    BY <1>3, <2>3, RunMoves DEF SweepDone, eventVars, chanVars
  <2>4. QED
    BY <1>3, <2>1, <2>2, <2>3 DEF SweepDone
<1>4. CASE Reread
  <2>1. CASE link /\ status
    BY <1>1, <1>4, <2>1, FinishKeeps DEF Reread
  <2>2. CASE ~(link /\ status)
    BY <1>4, <2>2, CaughtKeeps DEF Reread
  <2>3. QED
    BY <2>1, <2>2
<1>5. QED
  BY <1>2, <1>3, <1>4

\* The roll-back is over and the state directory removed.
LEMMA RunGivesUp ==
  ASSUME ProcessIInv, RolledBack \/ Removed
  PROVE  ProcessIInv'
<1> USE DEF ProcessIInv
<1>1. CASE RolledBack
  BY <1>1, RunMoves DEF RolledBack, eventVars, chanVars
<1>2. CASE Removed
  <2>1. /\ run = "remove" /\ run' = "settled" /\ cancelled' = FALSE
        /\ outcome' \in {"cancelled", "rejected"}
        /\ UNCHANGED <<spawnFailed, expired, wait>>
        /\ UNCHANGED remoteVars /\ UNCHANGED chanVars /\ UNCHANGED pumpVars
        /\ UNCHANGED eventVars /\ UNCHANGED termVars
    BY <1>2 DEF Removed
  <2>2. CountsOK' /\ EndLast' /\ FramesCounted'
    <3>1. UNCHANGED StillVars
      BY <2>1 DEF StillVars, eventVars
    <3>2. QED
      BY <3>1, StillKeeps
  <2>3. WordsOK'
    BY <2>1 DEF WordsOK, remoteVars, chanVars, eventVars, termVars
  <2>4. FlagsOK'
    <3>1. cancelled' \in BOOLEAN
      BY <2>1
    <3>2. QED
      BY <2>1, <3>1 DEF FlagsOK, remoteVars, chanVars, pumpVars, eventVars, termVars
  <2>5. ExitKnown' /\ OutcomeFaithful'
    BY <2>1 DEF ExitKnown, OutcomeFaithful, remoteVars, eventVars, termVars
  <2>6. StartKnown' /\ RolledBackOrQuiet'
    BY <2>1 DEF StartKnown, RolledBackOrQuiet, remoteVars, chanVars, eventVars, termVars
  <2>7. QED
    BY <2>2, <2>3, <2>4, <2>5, <2>6
<1>3. QED
  BY <1>1, <1>2

----------------------------------------------------------------------------
(* terminate() and waitForExit() *)

\* An attempt may cut the channel and kill members of the group.
LEMMA TermKeeps ==
  ASSUME ProcessIInv,
         UNCHANGED <<wrapper, status, written, emitted, link, pumpVars, eventVars, runVars, wait>>,
         leader' = leader \/ (leader = "live" /\ leader' = "gone"), kids' = kids \/ kids' = FALSE,
         fate' = IF leader' # leader THEN "signal" ELSE fate,
         chan' = chan \/ (chan = "open" /\ chan' = "cut"),
         out' = out \/ (out' = <<>> /\ chan' # "open"),
         term' \in {"idle", "launch", "start", "settle", "TERM", "probe", "KILL", "last"},
         requested' = requested \/ requested' = TRUE, failure' \in BOOLEAN,
         sig' = sig \/ sig' = TRUE, quiet' = quiet \/ quiet' = TRUE, spared' \in BOOLEAN, blind' \in BOOLEAN,
         sig' \/ term' # "idle" => requested', term' = "settle" => started = "no"
  PROVE  ProcessIInv'
<1> USE DEF ProcessIInv
<1>1. /\ UNCHANGED <<received, pumped, outErr, launched, started, pgid, failed, ended, first>>
      /\ UNCHANGED <<run, outcome, cancelled, spawnFailed, expired>>
  BY DEF pumpVars, eventVars, runVars
<1>2. kids' => kids
  OBVIOUS
<1>3. /\ chan' \in {"none", "open", "eof", "cut"}
      /\ out' \in Seq({"start", "fail", "end", "data"})
      /\ CountsOK' /\ EndLast' /\ FramesCounted'
  BY <1>1, <1>2, CutFrames
<1>4. WordsOK'
  BY <1>1, <1>3 DEF WordsOK, Fates
<1>5. FlagsOK'
  <2>1. kids' \in BOOLEAN /\ requested' \in BOOLEAN /\ sig' \in BOOLEAN /\ quiet' \in BOOLEAN
    BY DEF FlagsOK
  <2>2. QED
    BY <1>1, <2>1 DEF FlagsOK
<1>6. ExitKnown'
  BY <1>1 DEF ExitKnown, Fates
<1>7. OutcomeFaithful'
  BY <1>1 DEF OutcomeFaithful
<1>8. StartKnown'
  BY <1>1 DEF StartKnown
<1>9. RolledBackOrQuiet'
  BY <1>1 DEF RolledBackOrQuiet
<1>10. QED
  BY <1>3, <1>4, <1>5, <1>6, <1>7, <1>8, <1>9

\* Every step of a termination attempt, and its beginning.
LEMMA Terminates ==
  ASSUME ProcessIInv, Terminate \/ TermStep
  PROVE  ProcessIInv'
<1> USE DEF ProcessIInv
<1>1. /\ term # "idle" => requested
      /\ sig => requested
      /\ failure \in BOOLEAN /\ spared \in BOOLEAN /\ blind \in BOOLEAN
  BY DEF ExitKnown, FlagsOK
<1>2. CASE Terminate
  BY <1>1, <1>2, TermKeeps DEF Terminate, BeginTermination, remoteVars, chanVars
<1>3. CASE TermLaunched
  BY <1>1, <1>3, TermKeeps DEF TermLaunched, Quiesce, remoteVars, chanVars
<1>4. CASE TermStarted
  BY <1>1, <1>4, TermKeeps DEF TermStarted, Quiesce, CutChannel, remoteVars, chanVars
<1>5. CASE TermSettled
  BY <1>1, <1>5, TermKeeps DEF TermSettled, Quiesce, remoteVars, chanVars
<1>6. CASE TermSignals
  BY <1>1, <1>6, TermKeeps DEF TermSignals
<1>7. CASE TermProbes
  <2>1. blind' \in BOOLEAN /\ failure' \in BOOLEAN
    BY <1>1, <1>7 DEF TermProbes, Quiesce, ProbeBlind
  <2>2. QED
    BY <1>1, <1>7, <2>1, TermKeeps DEF TermProbes, Quiesce, remoteVars, chanVars
<1>8. CASE TermKills
  BY <1>1, <1>8, TermKeeps DEF TermKills, CutChannel
<1>9. CASE TermEnds
  <2>1. blind' \in BOOLEAN /\ failure' \in BOOLEAN
    BY <1>1, <1>9 DEF TermEnds, Quiesce, ProbeBlind
  <2>2. QED
    BY <1>1, <1>9, <2>1, TermKeeps DEF TermEnds, Quiesce, remoteVars, chanVars
<1>10. QED
  BY <1>2, <1>3, <1>4, <1>5, <1>6, <1>7, <1>8, <1>9 DEF TermStep

\* A step of a waitForExit call: one that returns leaves the group quiescent.
LEMMA WaitKeeps ==
  ASSUME ProcessIInv, NEW w \in Waiters, WaitChecks(w) \/ WaitProbes(w) \/ WaitStops(w)
  PROVE  ProcessIInv'
<1> USE DEF ProcessIInv
<1>1. /\ UNCHANGED remoteVars /\ UNCHANGED chanVars /\ UNCHANGED pumpVars /\ UNCHANGED eventVars
      /\ UNCHANGED runVars /\ UNCHANGED <<term, requested, sig, spared>>
      /\ wait[w] \in {"check", "probe"}
      /\ \/ wait' = [wait EXCEPT ![w] = "check"]
         \/ wait' = [wait EXCEPT ![w] = "probe"]
         \/ wait' = [wait EXCEPT ![w] = IF w = "run" THEN "threw" ELSE "check"]
         \/ wait' = [wait EXCEPT ![w] = IF w = "run" THEN "true" ELSE "check"] /\ quiet'
      /\ quiet => quiet'
  <2>1. CASE WaitChecks(w)
    <3>1. \/ wait' = [wait EXCEPT ![w] = IF w = "run" THEN "true" ELSE "check"] /\ quiet'
          \/ wait' = [wait EXCEPT ![w] = IF w = "run" THEN "threw" ELSE "check"] /\ quiet' = quiet
          \/ wait' = [wait EXCEPT ![w] = "probe"] /\ quiet' = quiet
      BY <2>1 DEF WaitChecks, WaitReturns, WaitOver
    <3>2. UNCHANGED term
      BY <2>1 DEF WaitChecks, WaitReturns
    <3>3. QED
      BY <2>1, <3>1, <3>2 DEF WaitChecks
  <2>2. CASE WaitProbes(w)
    <3>1. \/ wait' = [wait EXCEPT ![w] = IF w = "run" THEN "true" ELSE "check"] /\ quiet'
          \/ wait' = [wait EXCEPT ![w] = "check"] /\ quiet' = quiet
      BY <2>2 DEF WaitProbes, WaitReturns, WaitOver
    <3>2. UNCHANGED term
      BY <2>2 DEF WaitProbes, WaitReturns
    <3>3. QED
      BY <2>2, <3>1, <3>2 DEF WaitProbes
  <2>3. CASE WaitStops(w)
    BY <2>3 DEF WaitStops, WaitOver, chanVars, termVars
  <2>4. QED
    BY <2>1, <2>2, <2>3
<1>2. quiet' \in BOOLEAN /\ failure' \in BOOLEAN /\ blind' \in BOOLEAN
  <2>0. blind' = blind \/ blind' = TRUE
    BY DEF WaitChecks, WaitProbes, WaitStops, ProbeBlind, termVars
  <2>1. \/ UNCHANGED <<quiet, failure>>
        \/ \E b \in BOOLEAN : quiet' = (quiet \/ b) /\ failure' = (failure /\ ~b)
    BY DEF WaitChecks, WaitProbes, WaitStops, WaitReturns, termVars
  <2>2. QED
    BY <2>0, <2>1 DEF FlagsOK
<1>3. CountsOK' /\ EndLast' /\ FramesCounted'
  <2>1. UNCHANGED StillVars
    BY <1>1 DEF StillVars, eventVars
  <2>2. QED
    BY <2>1, StillKeeps
<1>4. wait' \in [Waiters -> {"idle", "check", "probe", "true", "threw"}]
  BY <1>1 DEF WordsOK
<1>5. WordsOK'
  BY <1>1, <1>4 DEF WordsOK, remoteVars, chanVars, eventVars, runVars
<1>6. FlagsOK'
  BY <1>1, <1>2 DEF FlagsOK, remoteVars, chanVars, pumpVars, eventVars, runVars
<1>7. ExitKnown' /\ OutcomeFaithful'
  BY <1>1 DEF ExitKnown, OutcomeFaithful, remoteVars, eventVars, runVars
<1>8. StartKnown'
  BY <1>1 DEF StartKnown, remoteVars, chanVars, eventVars, runVars
<1>9. RolledBackOrQuiet'
  <2>1. /\ wait'["run"] = "true" => quiet' \/ wait["run"] = "true"
        /\ wait["run"] = "threw" => wait'["run"] = "threw"
    BY <1>1 DEF WordsOK, Waiters
  <2>2. QED
    BY <1>1, <2>1 DEF RolledBackOrQuiet, eventVars, runVars
<1>10. QED
  BY <1>3, <1>5, <1>6, <1>7, <1>8, <1>9

----------------------------------------------------------------------------
(* Every step *)

\* The invariant is inductive.
LEMMA StepProcess == ProcessIInv /\ errWritten \in Nat /\ [Next]_vars => ProcessIInv'
<1> SUFFICES ASSUME ProcessIInv, errWritten \in Nat, [Next]_vars PROVE ProcessIInv'
  OBVIOUS
<1>1. CASE HostStep /\ ~GroupWritesErr /\ ~ErrEncoderFlushes
  BY <1>1, WrapperGivesUp, WrapperAdvances, WrapperSaysEnd, OutputFlows, GroupChanges
     DEF HostStep, WrapperStep, GroupStep
<1>2. CASE ConnectionLost
  BY <1>2, LosesConnection
<1>3. CASE Pump \/ StreamFails \/ PumpsEnd \/ ChannelClosed \/ StatusPolled
  BY <1>3, PumpsFrame, RaceEvents
<1>4. CASE RunStep
  BY <1>4, RunBegins, RunHears, RunFinishes, RunGivesUp DEF RunStep
<1>5. CASE Terminate \/ TermStep
  BY <1>5, Terminates
<1>6. CASE \E w \in Waiters : WaitStep(w) \/ WaitStops(w)
  BY <1>6, WaitKeeps DEF WaitStep
<1>7. CASE GroupWritesErr \/ ErrEncoderFlushes \/ PumpErr \/ UNCHANGED vars
  <2>1. /\ UNCHANGED remoteVars /\ UNCHANGED chanVars /\ UNCHANGED pumpVars /\ UNCHANGED eventVars
        /\ UNCHANGED runVars /\ UNCHANGED termVars /\ UNCHANGED wait
        /\ out' = out /\ chan' = chan
    BY <1>7 DEF vars, GroupWritesErr, ErrEncoderFlushes, PumpErr, chanVars
  <2>2. CountsOK' /\ EndLast' /\ FramesCounted'
    <3>1. UNCHANGED StillVars
      BY <2>1 DEF StillVars, eventVars
    <3>2. QED
      BY <3>1, StillKeeps
  <2>3. WordsOK' /\ FlagsOK'
    BY <2>1 DEF ProcessIInv, WordsOK, FlagsOK, remoteVars, chanVars, pumpVars, eventVars, runVars, termVars
  <2>4. ExitKnown' /\ OutcomeFaithful'
    BY <2>1 DEF ProcessIInv, ExitKnown, OutcomeFaithful, remoteVars, eventVars, runVars, termVars
  <2>5. StartKnown' /\ RolledBackOrQuiet'
    BY <2>1 DEF ProcessIInv, StartKnown, RolledBackOrQuiet, remoteVars, chanVars, eventVars, runVars, termVars
  <2>6. QED
    BY <2>2, <2>3, <2>4, <2>5 DEF ProcessIInv
<1>8. QED
  BY <1>1, <1>2, <1>3, <1>4, <1>5, <1>6, <1>7 DEF Next

----------------------------------------------------------------------------
(* Stderr *)

\* The frames of stderr are somewhere between the group and the handle.
ErrCounts ==
  /\ errWritten \in Nat /\ errEmitted \in Nat /\ err \in Nat /\ errReceived \in Nat
  /\ errEmitted <= errWritten /\ errReceived + err <= errEmitted
  /\ written + errWritten <= MaxOut

\* The wrapper ends behind the frames of its group.
ErrEnds ==
  /\ wrapper = "ended" => errEmitted = errWritten
  /\ wrapper \in {"none", "setup"} => errWritten = 0

\* Nothing has cut the channel off.
Undisturbed == link /\ ~expired /\ ~requested

\* No frame is lost on a channel that nothing has cut off.
ErrKept ==
  Undisturbed =>
    /\ wrapper \in {"setup", "launched", "waiting", "draining"} => chan = "open"
    /\ wrapper \in {"setup", "launched", "waiting", "draining", "ended"} =>
         errReceived + err = errEmitted

\* Pumps end on an empty channel that gets no more frames.
PumpsDone == pumped => out = <<>> /\ err = 0 /\ chan \in {"eof", "cut"}

ErrInv == ErrCounts /\ ErrEnds /\ ErrKept /\ PumpsDone

\* Nothing is written yet.
LEMMA InitErr == Init => ErrInv
<1> SUFFICES ASSUME Init PROVE ErrInv
  OBVIOUS
<1>1. ErrCounts /\ ErrEnds
  BY ProcessAssumption DEF Init, ErrCounts, ErrEnds
<1>2. ErrKept /\ PumpsDone
  BY DEF Init, ErrKept, PumpsDone
<1>3. QED
  BY <1>1, <1>2 DEF ErrInv

\* Steps that do not concern stderr, or cut it off.
LEMMA ErrStill ==
  ASSUME ErrInv, UNCHANGED <<wrapper, written, errRest, pumped>>,
         Undisturbed' => Undisturbed,
         \/ UNCHANGED chanVars /\ UNCHANGED err
         \/ /\ chan' = chan \/ (chan = "open" /\ chan' = "cut")
            /\ out' \in {out, <<>>} /\ err' \in {err, 0} /\ ~Undisturbed'
  PROVE  ErrInv'
<1> USE DEF ErrInv
<1>1. /\ UNCHANGED <<wrapper, written, pumped, errWritten, errEmitted, errReceived>>
      /\ err' = err \/ err' = 0
      /\ out' = out \/ out' = <<>>
      /\ chan' = chan \/ (chan = "open" /\ chan' = "cut")
      /\ Undisturbed' => chan' = chan /\ out' = out /\ err' = err
  BY DEF errRest, chanVars
<1>2. ErrCounts'
  BY <1>1 DEF ErrCounts
<1>3. ErrEnds'
  BY <1>1 DEF ErrEnds
<1>4. ErrKept'
  BY <1>1 DEF ErrKept
<1>5. PumpsDone'
  BY <1>1 DEF PumpsDone
<1>6. QED
  BY <1>2, <1>3, <1>4, <1>5

\* The wrapper goes on or ends.
LEMMA WrapperErr ==
  ASSUME ErrInv, \/ WrapperLaunches \/ WrapperStarts \/ WrapperReaps \/ WrapperEnds
                 \/ WrapperFails \/ WrapperDies
  PROVE  ErrInv'
<1> USE DEF ErrInv
<1>1. /\ UNCHANGED <<errWritten, errEmitted, err, errReceived, written, pumped>>
      /\ UNCHANGED <<link, expired, requested>>
      /\ wrapper \in {"setup", "launched", "waiting", "draining"}
      /\ chan = "open" \/ (chan' = chan /\ out' = out)
  BY DEF WrapperLaunches, WrapperStarts, WrapperReaps, WrapperEnds, WrapperFails, WrapperDies,
         Emit, ChannelEof, errVars, errRest, chanVars, pumpVars, runVars, termVars
<1>2. /\ \/ wrapper' \in {"launched", "waiting", "draining"} /\ chan' = chan
         \/ wrapper' = "ended" /\ errEmitted = errWritten
         \/ wrapper' \in {"failed", "dead"}
  BY DEF WrapperLaunches, WrapperStarts, WrapperReaps, WrapperEnds, WrapperFails, WrapperDies, chanVars
<1>3. ErrCounts'
  BY <1>1 DEF ErrCounts
<1>4. ErrEnds'
  BY <1>1, <1>2 DEF ErrEnds
<1>5. ErrKept'
  BY <1>1, <1>2 DEF ErrKept, Undisturbed
<1>6. PumpsDone'
  BY <1>1 DEF PumpsDone
<1>7. QED
  BY <1>3, <1>4, <1>5, <1>6

\* Output of either stream is written and encoded, by a wrapper that has launched
\* and not ended.
LEMMA OutputErr ==
  ASSUME ProcessIInv, ErrInv,
         GroupWrites \/ GroupWritesErr \/ EncoderFlushes \/ ErrEncoderFlushes
  PROVE  ErrInv'
<1> USE DEF ErrInv
<1>1. /\ UNCHANGED <<wrapper, errReceived, pumped, chan, link, expired, requested>>
      /\ chan = "open" \/ (out' = out /\ err' = err)
      /\ \/ /\ GroupLive /\ written + errWritten < MaxOut
            /\ written' = written + 1 /\ UNCHANGED <<errWritten, errEmitted, err>>
         \/ /\ GroupLive /\ written + errWritten < MaxOut
            /\ errWritten' = errWritten + 1 /\ UNCHANGED <<written, errEmitted, err>>
         \/ UNCHANGED <<written, errWritten, errEmitted, err>>
         \/ /\ errEmitted < errWritten /\ errEmitted' = errEmitted + 1
            /\ UNCHANGED <<written, errWritten>>
            /\ err' = IF chan = "open" THEN err + 1 ELSE err
  BY DEF GroupWrites, GroupWritesErr, EncoderFlushes, ErrEncoderFlushes, Emit, remoteVars, errVars,
         errRest, chanVars, pumpVars, runVars, termVars
<1>2. GroupLive => wrapper \notin {"none", "setup", "ended"}
  BY DEF ProcessIInv, EndLast, GroupLive
<1>3. written \in Nat /\ MaxOut \in Nat
  BY ProcessAssumption DEF ProcessIInv, CountsOK
<1>4. ErrCounts'
  BY <1>1, <1>3 DEF ErrCounts
<1>5. errEmitted < errWritten => wrapper \notin {"none", "setup", "ended"}
  BY DEF ErrCounts, ErrEnds
<1>6. ErrEnds'
  BY <1>1, <1>2, <1>5 DEF ErrEnds
<1>7. ErrKept'
  BY <1>1, <1>5 DEF ErrKept, ErrCounts, Undisturbed
<1>8. PumpsDone'
  BY <1>1 DEF PumpsDone
<1>9. QED
  BY <1>4, <1>6, <1>7, <1>8

\* Frames are pumped and the pumps end.
LEMMA PumpsErr ==
  ASSUME ErrInv, Pump \/ PumpErr \/ PumpsEnd
  PROVE  ErrInv'
<1> USE DEF ErrInv
<1>1. /\ UNCHANGED <<wrapper, written, errWritten, errEmitted, chan, link, expired, requested>>
      /\ \/ out # <<>> /\ UNCHANGED <<errReceived, err, pumped>>
         \/ err > 0 /\ err' = err - 1 /\ errReceived' = errReceived + 1 /\ UNCHANGED <<out, pumped>>
         \/ out = <<>> /\ err = 0 /\ chan \in {"eof", "cut"} /\ UNCHANGED <<errReceived, err, out>>
  BY DEF Pump, PumpErr, PumpsEnd, remoteVars, errVars, errRest, chanVars, pumpVars, runVars, termVars
<1>2. ErrCounts'
  <2>1. CASE UNCHANGED <<errReceived, err>>
    BY <1>1, <2>1 DEF ErrCounts
  <2>2. CASE err > 0 /\ err' = err - 1 /\ errReceived' = errReceived + 1
    <3>1. err' \in Nat /\ errReceived' \in Nat /\ errReceived' + err' = errReceived + err
      BY <2>2 DEF ErrCounts
    <3>2. QED
      BY <1>1, <3>1 DEF ErrCounts
  <2>3. QED
    BY <1>1, <2>1, <2>2
<1>3. ErrEnds'
  BY <1>1 DEF ErrEnds
<1>4. ErrKept'
  BY <1>1 DEF ErrKept, ErrCounts, Undisturbed
<1>5. PumpsDone'
  <2>1. CASE out # <<>> \/ err > 0
    <3>1. ~pumped /\ pumped' = pumped
      BY <1>1, <2>1 DEF PumpsDone, ErrCounts
    <3>2. QED
      BY <3>1 DEF PumpsDone
  <2>2. CASE out = <<>> /\ err = 0
    BY <1>1, <2>2 DEF PumpsDone
  <2>3. QED
    BY <2>1, <2>2 DEF ErrCounts
<1>6. QED
  BY <1>2, <1>3, <1>4, <1>5

\* Steps of run().
LEMMA RunErr ==
  ASSUME ProcessIInv, ErrInv, RunStep
  PROVE  ErrInv'
<1>1. /\ pumped' = pumped /\ link' = link /\ written' = written /\ UNCHANGED errRest
      /\ requested => requested'
      /\ expired => expired'
  <2>1. Caught => (requested => requested')
    BY DEF Caught, Catch, BeginTermination
  <2>2. Finish => (requested => requested')
    BY <2>1 DEF Finish, termVars
  <2>3. CASE RunEnvironment \/ RunExec \/ RaceSettled
    BY <2>1, <2>3 DEF RunEnvironment, RunExec, RaceSettled, errVars, pumpVars, chanVars, remoteVars,
                      termVars, runVars
  <2>4. CASE GraceEnds \/ GraceExpires \/ RolledBack \/ Removed
    BY <2>4 DEF GraceEnds, GraceExpires, RolledBack, Removed, CutChannel, errVars, pumpVars, chanVars,
                remoteVars, termVars, runVars
  <2>5. CASE PumpsGiven \/ SweepDone \/ Reread
    BY <2>1, <2>2, <2>5 DEF PumpsGiven, SweepDone, Reread, errVars, pumpVars, chanVars, remoteVars,
                            termVars, runVars
  <2>6. QED
    BY <2>3, <2>4, <2>5 DEF RunStep
<1>2. Undisturbed' => Undisturbed
  BY <1>1 DEF Undisturbed
<1>3. CASE wrapper' = wrapper
  <2>1. \/ UNCHANGED chanVars /\ UNCHANGED err
        \/ /\ chan' = chan \/ (chan = "open" /\ chan' = "cut")
           /\ out' \in {out, <<>>} /\ err' \in {err, 0} /\ ~Undisturbed'
    <3>1. CASE RunExec
      <4>1. wrapper = "none" \/ chan' = chan
        BY <3>1 DEF RunExec, ProcessIInv, StartKnown, WordsOK
      <4>2. QED
        BY <1>3, <3>1, <4>1 DEF RunExec, chanVars, errVars
    <3>2. CASE GraceExpires
      BY <3>2 DEF GraceExpires, CutChannel, Undisturbed
    <3>3. CASE RunEnvironment \/ RaceSettled \/ GraceEnds \/ PumpsGiven \/ SweepDone \/ Reread
               \/ RolledBack \/ Removed
      BY <3>3 DEF RunEnvironment, RaceSettled, GraceEnds, PumpsGiven, SweepDone, Reread, RolledBack,
                  Removed, chanVars, errVars
    <3>4. QED
      BY <3>1, <3>2, <3>3 DEF RunStep
  <2>2. QED
    BY <1>1, <1>2, <1>3, <2>1, ErrStill
<1>4. CASE wrapper' # wrapper
  <2>1. run = "exec" /\ wrapper' = "setup" /\ chan' = "open" /\ UNCHANGED <<err, out>>
    BY <1>4 DEF RunStep, RunEnvironment, RunExec, RaceSettled, GraceEnds, GraceExpires, PumpsGiven,
                SweepDone, Reread, RolledBack, Removed, remoteVars, errVars
  <2>2. wrapper = "none" /\ chan = "none"
    BY <2>1 DEF ProcessIInv, StartKnown, WordsOK
  <2>3. errWritten = 0 /\ errEmitted = 0 /\ err = 0 /\ errReceived = 0 /\ ~pumped
    BY <2>2 DEF ErrInv, ErrCounts, ErrEnds, PumpsDone
  <2>4. ErrCounts'
    BY <1>1, <2>1 DEF ErrInv, ErrCounts, errRest
  <2>5. ErrEnds' /\ ErrKept' /\ PumpsDone'
    BY <1>1, <2>1, <2>3 DEF ErrEnds, ErrKept, PumpsDone, errRest
  <2>6. QED
    BY <2>4, <2>5 DEF ErrInv
<1>5. QED
  BY <1>3, <1>4

\* Steps of terminate() and waitForExit().
LEMMA TermErr ==
  ASSUME ProcessIInv, ErrInv,
         Terminate \/ TermStep \/ \E w \in Waiters : WaitStep(w) \/ WaitStops(w)
  PROVE  ErrInv'
<1>1. /\ UNCHANGED <<wrapper, written, errRest, pumped, link, expired>>
      /\ requested => requested'
      /\ \/ UNCHANGED chanVars /\ UNCHANGED err
         \/ /\ term # "idle" /\ requested' = requested
            /\ chan' = chan \/ (chan = "open" /\ chan' = "cut")
            /\ out' \in {out, <<>>} /\ err' \in {err, 0}
  <2>1. CASE Terminate
    BY <2>1 DEF Terminate, BeginTermination, remoteVars, chanVars, pumpVars, runVars, errVars
  <2>2. CASE TermLaunched \/ TermSettled \/ TermProbes \/ TermEnds
    BY <2>2 DEF TermLaunched, TermSettled, TermProbes, TermEnds, remoteVars, chanVars, pumpVars,
                runVars, errVars
  <2>3. CASE TermStarted
    BY <2>3 DEF TermStarted, CutChannel, remoteVars, chanVars, pumpVars, runVars, errVars
  <2>4. CASE TermSignals
    BY <2>4 DEF TermSignals, chanVars, pumpVars, runVars, errVars
  <2>5. CASE TermKills
    BY <2>5 DEF TermKills, CutChannel, pumpVars, runVars, errVars
  <2>6. CASE \E w \in Waiters : WaitStep(w) \/ WaitStops(w)
    <3>1. PICK w \in Waiters : WaitStep(w) \/ WaitStops(w)
      BY <2>6
    <3>2. UNCHANGED <<remoteVars, pumpVars, runVars, requested, errRest, err, link, chan, out>>
      <4>1. CASE WaitChecks(w)
        BY <4>1 DEF WaitChecks, chanVars, errVars
      <4>2. CASE WaitProbes(w)
        BY <4>2 DEF WaitProbes, chanVars, errVars
      <4>3. CASE WaitStops(w)
        BY <4>3 DEF WaitStops, termVars, errVars
      <4>4. QED
        BY <3>1, <4>1, <4>2, <4>3 DEF WaitStep
    <3>3. QED
      BY <3>2 DEF remoteVars, pumpVars, runVars, chanVars
  <2>7. QED
    BY <2>1, <2>2, <2>3, <2>4, <2>5, <2>6 DEF TermStep
<1>2. term # "idle" => requested
  BY DEF ProcessIInv, ExitKnown
<1>3. Undisturbed' => Undisturbed
  BY <1>1 DEF Undisturbed
<1>4. \/ UNCHANGED chanVars /\ UNCHANGED err
      \/ /\ chan' = chan \/ (chan = "open" /\ chan' = "cut")
         /\ out' \in {out, <<>>} /\ err' \in {err, 0} /\ ~Undisturbed'
  BY <1>1, <1>2 DEF Undisturbed
<1>5. QED
  BY <1>1, <1>3, <1>4, ErrStill

\* The invariant of stderr is inductive beside the other.
LEMMA StepErr == ProcessIInv /\ ErrInv /\ [Next]_vars => ErrInv'
<1> SUFFICES ASSUME ProcessIInv, ErrInv, [Next]_vars PROVE ErrInv'
  OBVIOUS
<1>1. CASE HostStep
  <2>1. CASE LeaderForks \/ LeaderExits \/ KidsExit
    <3>1. /\ UNCHANGED <<wrapper, written, errRest, pumped>> /\ UNCHANGED chanVars /\ UNCHANGED err
          /\ Undisturbed' => Undisturbed
      BY <2>1 DEF LeaderForks, LeaderExits, KidsExit, errVars, pumpVars, runVars, termVars, chanVars,
                  Undisturbed
    <3>2. QED
      BY <3>1, ErrStill
  <2>2. QED
    BY <1>1, <2>1, WrapperErr, OutputErr DEF HostStep, WrapperStep, GroupStep
<1>2. CASE ConnectionLost
  <2>1. /\ UNCHANGED <<wrapper, written, errRest, pumped>> /\ ~Undisturbed'
        /\ chan' = chan \/ (chan = "open" /\ chan' = "cut")
        /\ out' \in {out, <<>>} /\ err' \in {err, 0}
    BY <1>2 DEF ConnectionLost, remoteVars, pumpVars, Undisturbed
  <2>2. QED
    BY <2>1, ErrStill
<1>3. CASE Pump \/ PumpErr \/ PumpsEnd
  BY <1>3, PumpsErr
<1>4. CASE StreamFails \/ ChannelClosed \/ StatusPolled \/ UNCHANGED vars
  <2>1. /\ UNCHANGED <<wrapper, written, errRest, pumped>> /\ UNCHANGED chanVars /\ UNCHANGED err
        /\ Undisturbed' => Undisturbed
    BY <1>4 DEF StreamFails, ChannelClosed, StatusPolled, vars, remoteVars, errVars, pumpVars, runVars,
                termVars, chanVars, Undisturbed
  <2>2. QED
    BY <2>1, ErrStill
<1>5. CASE RunStep
  BY <1>5, RunErr
<1>6. CASE Terminate \/ TermStep \/ \E w \in Waiters : WaitStep(w) \/ WaitStops(w)
  BY <1>6, TermErr
<1>7. QED
  BY <1>1, <1>2, <1>3, <1>4, <1>5, <1>6 DEF Next

----------------------------------------------------------------------------
(* Theorems *)

\* The inductive invariants hold of every behaviour of process.ts and its
\* wrapper, for every amount of output and every end of the child.
THEOREM ProcessInvariant == Spec => [](ProcessIInv /\ ErrInv)
<1>1. Init => ProcessIInv /\ ErrInv
  BY InitProcess, InitErr
<1>2. (ProcessIInv /\ ErrInv) /\ [Next]_vars => (ProcessIInv /\ ErrInv)'
  <2>1. ErrInv => errWritten \in Nat
    BY DEF ErrInv, ErrCounts
  <2>2. QED
    BY <2>1, StepProcess, StepErr
<1>3. QED
  BY <1>1, <1>2, PTL DEF Spec

\* What a finished command reports, outcome and output, is what it did, however
\* END, the status file, the channel and a termination raced and whatever was
\* lost of either stream (process.ts monitor, run; wrapper.ts).  That is: an exit
\* status above 128 may be reported as a signal, and stderr is whole only if the
\* connection held.
THEOREM ProcessSafe == Spec => []ProcessInv
<1>1. ProcessIInv /\ ErrInv => ProcessInv
  <2> SUFFICES ASSUME ProcessIInv, ErrInv PROVE ProcessInv
    OBVIOUS
  <2> USE DEF ProcessIInv
  <2>1. Unpumped \in Nat /\ emitted \in Nat /\ received \in Nat
    BY DataCount, ProcessAssumption DEF Unpumped, WordsOK, CountsOK, Frames
  <2>2. received \in 0..emitted
    BY <2>1 DEF FramesCounted
  <2>3. run = "settled" => launched # "pending"
    BY DEF StartKnown
  <2>4. (run = "settled") = (outcome # "none")
    BY DEF StartKnown
  <2>5. TypeOK
    <3>1. errEmitted \in 0..errWritten /\ errWritten \in 0..MaxOut /\ err \in Nat
          /\ errReceived \in 0..errEmitted
      BY ProcessAssumption DEF ErrInv, ErrCounts, CountsOK
    <3>2. QED
      BY <2>2, <2>3, <2>4, <3>1 DEF TypeOK, WordsOK, CountsOK
  <2>6. ended => ~kids /\ emitted = written /\ received = written
    <3>1. ended => out = <<>> /\ ~kids /\ emitted = written
      BY DEF EndLast
    <3>2. out = <<>> => Unpumped = 0
      BY DataCount DEF Unpumped
    <3>3. ended => received + Unpumped = emitted
      BY DEF FramesCounted
    <3>4. QED
      BY <2>1, <3>1, <3>2, <3>3
  <2>7. OutputComplete
    <3>1. outcome \in {"exit", "signal"} /\ ~expired => ended
      BY DEF ExitKnown
    <3>2. ended => wrapper = "ended" /\ errEmitted = errWritten
      BY DEF EndLast, ErrInv, ErrEnds
    <3>3. ended /\ pumped /\ ~expired /\ ~requested /\ link => errReceived = errWritten
      BY <3>2 DEF ErrInv, ErrCounts, ErrKept, PumpsDone, Undisturbed
    <3>4. QED
      BY <2>6, <3>1, <3>2, <3>3 DEF OutputComplete
  <2>8. QED
    BY <2>5, <2>7 DEF ProcessInv
<1>2. QED
  BY <1>1, ProcessInvariant, PTL

\* A command that fails after its group was published leaves nothing running
\* behind, unless the roll-back reported that it could not or the group was
\* declared quiescent (process.ts run, catch).
THEOREM ProcessRollback == Spec => []RollbackLeavesNothing
<1>1. ProcessIInv => RollbackLeavesNothing
  BY DEF ProcessIInv, RolledBackOrQuiet, RollbackLeavesNothing
<1>2. QED
  BY <1>1, ProcessInvariant, PTL

\* A group that was announced is declared quiescent over a live connection only
\* when no member of it is alive, or by a probe that ended without an answer
\* (process.ts markQuiescent, probeGroup).
THEOREM ProcessQuiescence == Spec => QuiescenceProven
<1> DEFINE Proven == quiet' /\ ~quiet /\ started = "yes" /\ link => ~GroupLive \/ blind'
<1>1. ProcessIInv /\ [Next]_vars => [Proven]_vars
  <2> SUFFICES ASSUME ProcessIInv, Next, quiet', ~quiet, started = "yes", link
               PROVE  ~GroupLive \/ blind'
    OBVIOUS
  <2>1. launched = "yes" /\ pgid /\ ~spawnFailed /\ term # "settle"
    BY DEF ProcessIInv, StartKnown, WordsOK
  <2>2. CASE TermStep
    BY <2>1, <2>2 DEF TermStep, TermLaunched, TermStarted, TermSettled, TermSignals, TermProbes,
                      TermKills, TermEnds, Quiesce, ProbeDead, ProbeBlind
  <2>3. CASE \E w \in Waiters : WaitStep(w) \/ WaitStops(w)
    BY <2>1, <2>3 DEF WaitStep, WaitChecks, WaitProbes, WaitStops, WaitReturns, termVars,
                      ProbeDead, ProbeBlind
  <2>4. CASE RunStep
    <3>1. CASE UNCHANGED quiet
      BY <3>1
    <3>2. QED
      BY <2>4, <3>1 DEF RunStep, RunEnvironment, RunExec, RaceSettled, GraceEnds, GraceExpires,
                        PumpsGiven, SweepDone, Reread, RolledBack, Removed, Finish, Caught, termVars
  <2>5. CASE HostStep
    BY <2>5 DEF HostStep, WrapperStep, GroupStep, WrapperFails, WrapperDies, WrapperLaunches,
                WrapperStarts, WrapperReaps, WrapperEnds, EncoderFlushes, ErrEncoderFlushes,
                GroupWrites, GroupWritesErr, LeaderForks, LeaderExits, KidsExit, termVars
  <2>6. CASE \/ ConnectionLost \/ Pump \/ PumpErr \/ StreamFails \/ PumpsEnd
             \/ ChannelClosed \/ StatusPolled \/ Terminate
    BY <2>6 DEF ConnectionLost, Pump, PumpErr, StreamFails, PumpsEnd, ChannelClosed, StatusPolled,
                Terminate, termVars
  <2>7. QED
    BY <2>2, <2>3, <2>4, <2>5, <2>6 DEF Next
<1>2. QED
  BY <1>1, ProcessInvariant, PTL DEF Spec, QuiescenceProven

=============================================================================
