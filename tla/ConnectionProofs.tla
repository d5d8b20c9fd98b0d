-------------------------- MODULE ConnectionProofs --------------------------
(***************************************************************************)
(* Theorems about what stands on the connection to a host: the channel to  *)
(* the daemon (TargetConnection) and a terminal over SSH (SshTerminal).    *)
(* The two specifications share no variable; each part has its own         *)
(* inductive invariant.                                                    *)
(***************************************************************************)
EXTENDS TargetConnection, SshTerminal, FiniteSetTheorems, SequenceTheorems, TLAPS

----------------------------------------------------------------------------
(* The inductive invariant: attempts, processes and peers *)

AttemptTypeOK ==
  /\ state \in {"connected", "down"}
  /\ peer \in Opens \union {0}
  /\ attempt \in Opens \union {0}
  /\ timer \in BOOLEAN
  /\ attempts \in 0..(MaxFaults + 1)
  /\ backoff \in 1..MaxBackoff
  /\ disposed \in BOOLEAN
  /\ closing \in Opens \union {0}
  /\ pc \in [Opens -> {"idle", "connecting", "handshake", "verified", "reattach", "ended"}]
  /\ proc \in [Opens -> {"none", "up", "lost", "killed"}]
  /\ noticed \in SUBSET Opens
  /\ faults \in 0..MaxFaults
  /\ unsteady \in BOOLEAN

\* The attempt callers share is the one that runs, and the channel is down
\* meanwhile.
SharedAttempt ==
  /\ \A i \in Opens : pc[i] \notin {"idle", "ended"} <=> attempt = i
  /\ attempt # 0 => state = "down"

\* A process runs for the attempt in flight, or for the peer of the connected
\* channel, or waits for close() to kill it; there is one.
UpPlaced ==
  /\ \A i \in Opens : proc[i] = "up" =>
       \/ pc[i] \in {"handshake", "verified", "reattach"}
       \/ pc[i] = "ended" /\ attempt = 0 /\ (disposed \/ (state = "connected" /\ peer = i))
  /\ \A i, j \in Opens : proc[i] = "up" /\ proc[j] = "up" => i = j
  /\ \A i \in Opens : pc[i] \in {"idle", "connecting"} => proc[i] = "none"

\* As long as nobody has noticed the end of its stream, an adopted peer is the
\* current one.
PeerCurrent ==
  /\ \A i \in Opens : i \notin noticed /\ ~disposed =>
       /\ pc[i] = "reattach" => peer = i
       /\ pc[i] = "ended" /\ proc[i] = "lost" =>
            attempt = 0 /\ state = "connected" /\ peer = i
  /\ \A i \in noticed : proc[i] \in {"lost", "killed"} /\ pc[i] \in {"reattach", "ended"}
  /\ disposed => peer = 0
  /\ peer # 0 => pc[peer] \in {"reattach", "ended"}
  /\ closing # 0 => disposed /\ pc[closing] \in {"reattach", "ended"}

\* A stream that ended between the handshake and the end of the re-attach loop
\* is on record.
DropRecorded ==
  \A i \in Opens : pc[i] \in {"verified", "reattach"} /\ proc[i] # "up" => unsteady \/ disposed

\* Each failed attempt was a fault, except one that close() overtook.
FailuresAreFaults ==
  /\ attempts <= faults \/ (disposed /\ attempt = 0 /\ attempts <= faults + 1)
  /\ attempt # 0 /\ pc[attempt] = "handshake" /\ proc[attempt] # "up" => attempts + 1 <= faults

AttemptInv ==
  /\ AttemptTypeOK
  /\ SharedAttempt
  /\ UpPlaced
  /\ PeerCurrent
  /\ DropRecorded
  /\ FailuresAreFaults

----------------------------------------------------------------------------
(* The inductive invariant: handles *)

HandleTypeOK ==
  /\ todo \in SUBSET Handles
  /\ calling \in Handles \union {NoHandle}
  /\ handle \in [Handles -> {"none", "attached", "detached", "torn", "refused"}]
  /\ served \in SUBSET Handles

\* The re-attach loop forgets no handle.
LoopCovers ==
  \A i \in Opens : pc[i] = "reattach" /\ peer = i /\ proc[i] = "up" =>
    Subscribed \subseteq served \union todo \union {calling}

HandleInv ==
  /\ HandleTypeOK
  /\ LoopCovers
  /\ HandlesSurvive
  /\ ServesAttached

ConnInv == AttemptInv /\ HandleInv

\* Attempts are numbers from 1 on.
LEMMA OpensNat == Opens \subseteq Nat /\ 0 \notin Opens
BY BoundsAssumption DEF Opens

\* A count that exceeds the faults by at most one is within its bound, and stays
\* so when the faults grow.
LEMMA CountBounds ==
  ASSUME NEW a \in Nat, NEW f \in Nat, NEW g \in Nat, f <= g
  PROVE  /\ a <= f \/ a <= f + 1 => a \in 0..(g + 1)
         /\ a <= f => a <= g
         /\ a <= f + 1 => a <= g + 1
         /\ a + 1 <= f => a + 1 <= g
OBVIOUS

\* Before the first open nothing runs.
LEMMA InitConn == Init => ConnInv
<1> SUFFICES ASSUME Init PROVE ConnInv
  OBVIOUS
<1>1. AttemptTypeOK
  <2>1. attempts \in 0..(MaxFaults + 1) /\ backoff \in 1..MaxBackoff /\ faults \in 0..MaxFaults
    BY BoundsAssumption DEF Init
  <2>2. pc \in [Opens -> {"idle", "connecting", "handshake", "verified", "reattach", "ended"}]
    BY DEF Init
  <2>3. proc \in [Opens -> {"none", "up", "lost", "killed"}]
    BY DEF Init
  <2>4. QED
    BY <2>1, <2>2, <2>3 DEF Init, AttemptTypeOK
<1>5. HandleTypeOK
  BY DEF Init, HandleTypeOK
<1>2. SharedAttempt /\ UpPlaced /\ PeerCurrent /\ DropRecorded /\ FailuresAreFaults
  BY OpensNat DEF Init, SharedAttempt, UpPlaced, PeerCurrent, DropRecorded, FailuresAreFaults
<1>3. LoopCovers /\ HandlesSurvive /\ ServesAttached
  BY DEF Init, LoopCovers, HandlesSurvive, ServesAttached, Live
<1>4. QED
  BY <1>1, <1>2, <1>3, <1>5 DEF ConnInv, AttemptInv, HandleInv

----------------------------------------------------------------------------
(* Every action keeps the invariant of the attempts *)

\* A launch finds nothing running: neither an attempt nor a process.
LEMMA LaunchAttempts ==
  ASSUME AttemptInv, LaunchAttempt, attempt = 0, state # "connected", ~disposed, timer' = FALSE,
         UNCHANGED <<state, peer, attempts, backoff, disposed, closing, proc, noticed, faults,
                     unsteady>>
  PROVE  AttemptInv' /\ attempt' # 0 /\ \A i \in Opens : pc'[i] # "reattach"
<1> USE DEF AttemptInv
<1>1. PICK i \in Opens : pc[i] = "idle" /\ pc' = [pc EXCEPT ![i] = "connecting"] /\ attempt' = i
  BY DEF LaunchAttempt
<1>2. AttemptTypeOK'
  BY <1>1 DEF AttemptTypeOK
<1>3. \A j \in Opens : pc[j] \in {"idle", "ended"}
  BY OpensNat DEF SharedAttempt
<1>4. \A j \in Opens : proc[j] # "up"
  BY <1>3 DEF UpPlaced
<1>5. SharedAttempt'
  BY <1>1, <1>3, OpensNat DEF SharedAttempt, AttemptTypeOK
<1>6. UpPlaced'
  BY <1>1, <1>4 DEF UpPlaced, AttemptTypeOK
<1>7. PeerCurrent'
  BY <1>1, <1>3 DEF PeerCurrent, AttemptTypeOK
<1>8. DropRecorded' /\ FailuresAreFaults'
  BY <1>1, <1>3 DEF DropRecorded, FailuresAreFaults, AttemptTypeOK
<1>9. attempt' # 0 /\ \A j \in Opens : pc'[j] # "reattach"
  BY <1>1, <1>3, OpensNat DEF AttemptTypeOK
<1>10. QED
  BY <1>2, <1>5, <1>6, <1>7, <1>8, <1>9

\* An attempt that fails has no process, or has killed it, and a fault or
\* close() is the reason.
LEMMA FailAttempts ==
  ASSUME AttemptInv, NEW i \in Opens, OpenFails(i) \/ HandshakeFails(i) \/ Superseded(i)
  PROVE  /\ AttemptInv' /\ state' = "down" /\ attempt' = 0
         /\ disposed' = disposed /\ unsteady' = unsteady
         /\ \A j \in Opens : pc'[j] # "reattach"
<1> USE DEF AttemptInv
<1>1. /\ pc[i] \in {"connecting", "handshake", "verified"} /\ attempt = i /\ state = "down"
      /\ pc' = [pc EXCEPT ![i] = "ended"] /\ attempt' = 0 /\ attempts' = attempts + 1
      /\ backoff' = IF backoff * 2 > MaxBackoff THEN MaxBackoff ELSE backoff * 2
      /\ UNCHANGED <<state, peer, disposed, closing, noticed, unsteady>>
      /\ proc' = [proc EXCEPT ![i] = "killed"] \/ (proc' = proc /\ proc[i] = "none")
  BY OpensNat DEF OpenFails, HandshakeFails, Superseded, AttemptFailed, SharedAttempt, UpPlaced,
       AttemptTypeOK
<1>11. timer' \in BOOLEAN
  BY DEF OpenFails, HandshakeFails, Superseded, AttemptFailed, ScheduleReconnect
<1>12. faults' \in 0..MaxFaults
  BY BoundsAssumption DEF OpenFails, HandshakeFails, Superseded, Fault, AttemptTypeOK
<1>2. \A j \in Opens : j # i => pc'[j] = pc[j] /\ proc'[j] = proc[j] /\ pc[j] \in {"idle", "ended"}
                                /\ proc[j] # "up"
  BY <1>1, OpensNat DEF SharedAttempt, UpPlaced, AttemptTypeOK
<1>3. pc'[i] = "ended" /\ proc'[i] \in {"none", "killed"}
  BY <1>1 DEF AttemptTypeOK
<1>4. attempts' <= faults' \/ (disposed /\ attempts' <= faults' + 1)
  <2>1. CASE OpenFails(i)
    BY <1>1, <2>1, OpensNat DEF OpenFails, Fault, AttemptFailed, FailuresAreFaults, AttemptTypeOK
  <2>2. CASE HandshakeFails(i) /\ proc[i] = "up"
    BY <1>1, <2>2, OpensNat DEF HandshakeFails, Fault, AttemptFailed, FailuresAreFaults, AttemptTypeOK
  <2>3. CASE HandshakeFails(i) /\ proc[i] # "up"
    BY <1>1, <2>3, OpensNat DEF HandshakeFails, AttemptFailed, FailuresAreFaults, AttemptTypeOK
  <2>4. CASE Superseded(i)
    BY <1>1, <2>4, OpensNat DEF Superseded, AttemptFailed, FailuresAreFaults, AttemptTypeOK
  <2>5. QED
    BY <2>1, <2>2, <2>3, <2>4
<1>5. AttemptTypeOK'
  <2>1. backoff' \in 1..MaxBackoff
    BY <1>1, BoundsAssumption DEF AttemptTypeOK
  <2>2. attempts' \in 0..(MaxFaults + 1)
    <3>1. attempts \in Nat /\ attempts' \in Nat
      BY <1>1, BoundsAssumption DEF AttemptTypeOK
    <3>2. faults' \in Nat /\ faults' <= MaxFaults /\ MaxFaults \in Nat
      BY <1>12, BoundsAssumption
    <3>3. attempts' <= faults' \/ attempts' <= faults' + 1
      BY <1>4, Zenon
    <3>4. QED
      BY <3>1, <3>2, <3>3, CountBounds
  <2>3. QED
    BY <1>1, <1>11, <1>12, <2>1, <2>2, OpensNat DEF AttemptTypeOK
<1>6. SharedAttempt'
  BY <1>1, <1>2, <1>3, OpensNat DEF SharedAttempt
<1>7. UpPlaced'
  BY <1>1, <1>2, <1>3 DEF UpPlaced
<1>8. PeerCurrent'
  <2>1. i \notin noticed /\ closing # i
    BY <1>1, OpensNat DEF PeerCurrent
  <2>2. \A j \in Opens : j \notin noticed /\ ~disposed /\ pc[j] = "ended" => proc[j] # "lost"
    BY <1>1, OpensNat DEF PeerCurrent
  <2>3. QED
    BY <1>1, <1>2, <1>3, <2>1, <2>2 DEF PeerCurrent, AttemptTypeOK
<1>9. DropRecorded' /\ FailuresAreFaults'
  BY <1>1, <1>2, <1>3, <1>4 DEF DropRecorded, FailuresAreFaults
<1>10. QED
  BY <1>1, <1>2, <1>3, <1>5, <1>6, <1>7, <1>8, <1>9

\* The spawned process is the only one that runs.
LEMMA SpawnAttempts ==
  ASSUME AttemptInv, NEW i \in Opens, OpenSpawned(i) \/ HandshakeOk(i)
  PROVE  AttemptInv' /\ \A j \in Opens : pc'[j] # "reattach"
<1> USE DEF AttemptInv
<1>1. /\ UNCHANGED <<chanVars, disposed, closing, noticed, faults, unsteady>>
      /\ attempt = i
      /\ \/ /\ pc[i] = "connecting" /\ pc' = [pc EXCEPT ![i] = "handshake"]
            /\ proc' = [proc EXCEPT ![i] = "up"]
         \/ /\ pc[i] = "handshake" /\ pc' = [pc EXCEPT ![i] = "verified"]
            /\ proc' = proc /\ proc[i] = "up"
  BY DEF OpenSpawned, HandshakeOk, SharedAttempt
<1>2. \A j \in Opens : j # i => pc'[j] = pc[j] /\ proc'[j] = proc[j] /\ pc[j] \in {"idle", "ended"}
                                /\ proc[j] # "up"
  BY <1>1, OpensNat DEF SharedAttempt, UpPlaced, AttemptTypeOK
<1>3. pc'[i] \in {"handshake", "verified"} /\ proc'[i] = "up" /\ i \notin noticed /\ closing # i
  BY <1>1, OpensNat DEF AttemptTypeOK, PeerCurrent
<1>4. AttemptTypeOK'
  BY <1>1 DEF AttemptTypeOK, chanVars
<1>5. SharedAttempt' /\ UpPlaced'
  BY <1>1, <1>2, <1>3 DEF SharedAttempt, UpPlaced, chanVars
<1>6. PeerCurrent'
  BY <1>1, <1>2, <1>3 DEF PeerCurrent, AttemptTypeOK, chanVars
<1>7. DropRecorded' /\ FailuresAreFaults'
  BY <1>1, <1>2, <1>3 DEF DropRecorded, FailuresAreFaults, chanVars
<1>8. QED
  BY <1>2, <1>3, <1>4, <1>5, <1>6, <1>7

\* The adopted peer is the current one; nothing else runs.
LEMMA AdoptAttempts ==
  ASSUME AttemptInv, NEW i \in Opens, Adopt(i)
  PROVE  AttemptInv'
<1> USE DEF AttemptInv
<1>1. /\ UNCHANGED <<state, attempt, timer, attempts, backoff, disposed, closing, proc, noticed,
                     faults, unsteady>>
      /\ attempt = i /\ pc[i] = "verified" /\ pc' = [pc EXCEPT ![i] = "reattach"] /\ peer' = i
      /\ ~disposed
  BY DEF Adopt, SharedAttempt
<1>2. \A j \in Opens : j # i => pc'[j] = pc[j] /\ pc[j] \in {"idle", "ended"} /\ proc[j] # "up"
  BY <1>1, OpensNat DEF SharedAttempt, UpPlaced, AttemptTypeOK
<1>3. pc'[i] = "reattach" /\ i \notin noticed /\ i # 0
  BY <1>1, OpensNat DEF AttemptTypeOK, PeerCurrent
<1>4. AttemptTypeOK'
  BY <1>1 DEF AttemptTypeOK
<1>5. SharedAttempt' /\ UpPlaced'
  BY <1>1, <1>2, <1>3 DEF SharedAttempt, UpPlaced
<1>6. PeerCurrent'
  BY <1>1, <1>2, <1>3 DEF PeerCurrent, AttemptTypeOK
<1>7. DropRecorded' /\ FailuresAreFaults'
  BY <1>1, <1>2, <1>3 DEF DropRecorded, FailuresAreFaults
<1>8. QED
  BY <1>4, <1>5, <1>6, <1>7

\* A settled attempt leaves its process to the connected channel.
LEMMA DoneAttempts ==
  ASSUME AttemptInv, NEW i \in Opens, OpenDone(i)
  PROVE  AttemptInv' /\ \A j \in Opens : pc'[j] # "reattach"
<1> USE DEF AttemptInv
<1>1. /\ UNCHANGED <<peer, timer, disposed, closing, proc, noticed, faults, unsteady>>
      /\ attempt = i /\ pc[i] = "reattach" /\ pc' = [pc EXCEPT ![i] = "ended"]
      /\ state' = "connected" /\ attempt' = 0 /\ attempts' = 0 /\ backoff' = 1
  BY DEF OpenDone, SharedAttempt
<1>2. \A j \in Opens : j # i => pc'[j] = pc[j] /\ pc[j] \in {"idle", "ended"} /\ proc[j] # "up"
  BY <1>1, OpensNat DEF SharedAttempt, UpPlaced, AttemptTypeOK
<1>3. pc'[i] = "ended" /\ i # 0
  BY <1>1, OpensNat DEF AttemptTypeOK
<1>4. \A j \in Opens : j # i /\ j \notin noticed /\ ~disposed /\ pc[j] = "ended" => proc[j] # "lost"
  BY <1>1, <1>3 DEF PeerCurrent
<1>5. AttemptTypeOK'
  <2>1. backoff' \in 1..MaxBackoff /\ attempts' \in 0..(MaxFaults + 1)
    BY <1>1, BoundsAssumption
  <2>2. QED
    BY <1>1, <2>1 DEF AttemptTypeOK
<1>6. SharedAttempt'
  BY <1>1, <1>2, <1>3, OpensNat DEF SharedAttempt
<1>7. UpPlaced'
  <2>1. proc[i] = "up" => disposed \/ peer = i
    BY <1>1 DEF PeerCurrent
  <2>2. QED
    BY <1>1, <1>2, <1>3, <2>1 DEF UpPlaced
<1>8. PeerCurrent'
  BY <1>1, <1>2, <1>3, <1>4 DEF PeerCurrent, AttemptTypeOK
<1>9. DropRecorded' /\ FailuresAreFaults'
  BY <1>1, <1>2, <1>3, BoundsAssumption DEF DropRecorded, FailuresAreFaults, AttemptTypeOK
<1>10. QED
  BY <1>2, <1>3, <1>5, <1>6, <1>7, <1>8, <1>9

\* The stream that ends is that of the one process that runs.
LEMMA LostAttempts ==
  ASSUME AttemptInv, NEW i \in Opens, StreamLost(i)
  PROVE  AttemptInv' /\ \A j \in Opens : proc'[j] # "up"
<1> USE DEF AttemptInv
<1>1. /\ UNCHANGED <<state, peer, attempt, timer, attempts, backoff, disposed, closing, pc, noticed>>
      /\ proc[i] = "up" /\ proc' = [proc EXCEPT ![i] = "lost"]
      /\ faults' = faults + 1 /\ faults < MaxFaults
      /\ unsteady' = (unsteady \/ pc[i] \in {"verified", "reattach"})
  BY DEF StreamLost, Fault, chanVars
<1>2. \A j \in Opens : j # i => proc'[j] = proc[j] /\ proc[j] # "up"
  BY <1>1 DEF UpPlaced, AttemptTypeOK
<1>3. proc'[i] = "lost" /\ i # 0
  BY <1>1, OpensNat DEF AttemptTypeOK
<1>4. AttemptTypeOK'
  <2>1. faults' \in 0..MaxFaults
    BY <1>1, BoundsAssumption DEF AttemptTypeOK
  <2>2. unsteady' \in BOOLEAN
    BY <1>1
  <2>3. QED
    BY <1>1, <2>1, <2>2 DEF AttemptTypeOK
<1>5. SharedAttempt' /\ UpPlaced'
  BY <1>1, <1>2, <1>3 DEF SharedAttempt, UpPlaced
<1>6. PeerCurrent'
  BY <1>1, <1>2, <1>3 DEF PeerCurrent, UpPlaced, AttemptTypeOK
<1>7. DropRecorded'
  BY <1>1, <1>2, <1>3 DEF DropRecorded
<1>8. FailuresAreFaults'
  <2>1. attempts \in Nat /\ faults \in Nat
    BY BoundsAssumption DEF AttemptTypeOK
  <2>2. attempt # 0 => attempts <= faults
    BY <2>1 DEF FailuresAreFaults
  <2>3. QED
    BY <1>1, <2>1, <2>2 DEF FailuresAreFaults
<1>9. QED
  BY <1>2, <1>3, <1>4, <1>5, <1>6, <1>7, <1>8

\* The callback of an ended stream resets a channel in which nothing runs any
\* more.
LEMMA ClosedAttempts ==
  ASSUME AttemptInv, NEW i \in Opens, PeerClosed(i)
  PROVE  /\ AttemptInv'
         /\ pc' = pc /\ proc' = proc /\ disposed' = disposed /\ unsteady' = unsteady
         /\ attempt' = attempt
         /\ (state' = state /\ peer' = peer) \/ (state' = "down" /\ peer' = 0)
<1> USE DEF AttemptInv
<1>1. /\ UNCHANGED <<disposed, closing, pc, proc, faults, unsteady>>
      /\ noticed' = noticed \union {i} /\ i \notin noticed
      /\ proc[i] \in {"lost", "killed"}
      /\ pc[i] = "reattach" \/ (pc[i] = "ended" /\ proc[i] = "lost")
  BY DEF PeerClosed
<1>2. CASE disposed
  <2>1. UNCHANGED <<state, peer, attempt, timer, attempts, backoff>>
    BY <1>2 DEF PeerClosed, chanVars
  <2>2. AttemptTypeOK' /\ SharedAttempt' /\ UpPlaced'
    BY <1>1, <2>1 DEF AttemptTypeOK, SharedAttempt, UpPlaced
  <2>3. PeerCurrent' /\ DropRecorded' /\ FailuresAreFaults'
    BY <1>1, <1>2, <2>1 DEF PeerCurrent, DropRecorded, FailuresAreFaults
  <2>4. QED
    BY <1>1, <2>1, <2>2, <2>3
<1>3. CASE ~disposed
  <2>1. /\ state' = "down" /\ peer' = 0 /\ attempts' = 0 /\ backoff' = 1 /\ attempt' = attempt
        /\ timer' \in BOOLEAN
    BY <1>3 DEF PeerClosed, ScheduleReconnect
  <2>2. AttemptTypeOK'
    <3>1. backoff' \in 1..MaxBackoff /\ attempts' \in 0..(MaxFaults + 1)
      BY <2>1, BoundsAssumption
    <3>2. QED
      BY <1>1, <2>1, <3>1 DEF AttemptTypeOK
  <2>3. SharedAttempt'
    BY <1>1, <2>1 DEF SharedAttempt
  <2>4. peer = i
    BY <1>1, <1>3 DEF PeerCurrent
  <2>5. \A j \in Opens : j # i /\ j \notin noticed =>
          pc[j] # "reattach" /\ ~(pc[j] = "ended" /\ proc[j] = "lost")
    BY <1>3, <2>4 DEF PeerCurrent
  <2>6. \A j \in Opens : proc[j] = "up" => pc[j] # "ended"
    BY <1>1, <1>3, <2>4 DEF UpPlaced
  <2>7. UpPlaced'
    BY <1>1, <2>1, <2>6 DEF UpPlaced
  <2>8. PeerCurrent'
    BY <1>1, <1>3, <2>1, <2>5 DEF PeerCurrent
  <2>9. DropRecorded'
    BY <1>1 DEF DropRecorded
  <2>10. FailuresAreFaults'
    <3>1. attempts \in Nat /\ faults \in Nat
      BY BoundsAssumption DEF AttemptTypeOK
    <3>2. attempt # 0 /\ pc[attempt] = "handshake" /\ proc[attempt] # "up" => 1 <= faults
      BY <3>1 DEF FailuresAreFaults
    <3>3. QED
      BY <1>1, <2>1, <3>1, <3>2 DEF FailuresAreFaults
  <2>11. QED
    BY <1>1, <2>1, <2>2, <2>3, <2>7, <2>8, <2>9, <2>10
<1>4. QED
  BY <1>2, <1>3

\* close() forgets the peer; its process waits to be killed.
LEMMA CloseAttempts ==
  ASSUME AttemptInv, Close
  PROVE  AttemptInv' /\ disposed' /\ peer' = 0
<1> USE DEF AttemptInv
<1>1. /\ UNCHANGED <<attempt, attempts, backoff, pc, proc, noticed, faults, unsteady>>
      /\ ~disposed /\ disposed' = TRUE /\ timer' = FALSE /\ state' = "down"
      /\ closing' = peer /\ peer' = 0
  BY DEF Close
<1>2. AttemptTypeOK'
  BY <1>1 DEF AttemptTypeOK
<1>3. SharedAttempt' /\ UpPlaced'
  BY <1>1 DEF SharedAttempt, UpPlaced
<1>4. PeerCurrent' /\ DropRecorded'
  BY <1>1 DEF PeerCurrent, DropRecorded
<1>5. FailuresAreFaults'
  BY <1>1 DEF FailuresAreFaults
<1>6. QED
  BY <1>1, <1>2, <1>3, <1>4, <1>5

\* close() kills the process of an adopted peer.
LEMMA KillAttempts ==
  ASSUME AttemptInv, CloseKills
  PROVE  AttemptInv' /\ disposed /\ peer = 0
<1> USE DEF AttemptInv
<1>1. /\ UNCHANGED <<state, peer, attempt, timer, attempts, backoff, disposed, pc, noticed, faults,
                     unsteady>>
      /\ closing \in Opens /\ closing' = 0 /\ proc' = [proc EXCEPT ![closing] = "killed"]
      /\ disposed /\ pc[closing] \in {"reattach", "ended"} /\ peer = 0
  BY DEF CloseKills, chanVars, AttemptTypeOK, PeerCurrent
<1>2. /\ proc'[closing] = "killed"
      /\ \A j \in Opens : j # closing => proc'[j] = proc[j]
  BY <1>1 DEF AttemptTypeOK
<1>3. AttemptTypeOK'
  BY <1>1 DEF AttemptTypeOK
<1>4. SharedAttempt' /\ UpPlaced'
  BY <1>1, <1>2 DEF SharedAttempt, UpPlaced
<1>5. PeerCurrent' /\ DropRecorded'
  BY <1>1, <1>2 DEF PeerCurrent, DropRecorded, AttemptTypeOK
<1>6. FailuresAreFaults'
  BY <1>1, <1>2 DEF FailuresAreFaults, SharedAttempt, AttemptTypeOK
<1>7. QED
  BY <1>1, <1>3, <1>4, <1>5, <1>6

\* The steps of the handles leave the attempts alone; a refused re-attach may
\* count as a fault.
LEMMA QuietAttempts ==
  ASSUME AttemptInv, UNCHANGED <<chanVars, disposed, closing, pc, proc, noticed, unsteady>>,
         faults' = faults \/ Fault
  PROVE  AttemptInv'
<1> USE DEF AttemptInv
<1>1. UNCHANGED <<state, peer, attempt, timer, attempts, backoff>>
  BY DEF chanVars
<1>2. attempts \in Nat /\ faults \in Nat /\ faults' \in 0..MaxFaults /\ faults <= faults'
  BY BoundsAssumption DEF AttemptTypeOK, Fault
<1>3. AttemptTypeOK'
  BY <1>1, <1>2 DEF AttemptTypeOK
<1>4. SharedAttempt' /\ UpPlaced'
  BY <1>1 DEF SharedAttempt, UpPlaced
<1>5. PeerCurrent' /\ DropRecorded'
  BY <1>1 DEF PeerCurrent, DropRecorded
<1>6. FailuresAreFaults'
  <2>1. faults' \in Nat
    BY <1>2, BoundsAssumption
  <2>2. /\ attempts <= faults => attempts <= faults'
        /\ attempts <= faults + 1 => attempts <= faults' + 1
        /\ attempts + 1 <= faults => attempts + 1 <= faults'
    BY <1>2, <2>1, CountBounds
  <2>3. QED
    BY <1>1, <2>2, Zenon DEF FailuresAreFaults
<1>7. QED
  BY <1>3, <1>4, <1>5, <1>6

----------------------------------------------------------------------------
(* Every action keeps the invariant of the handles *)

\* A step that neither touches the handles nor makes a process, a peer or the
\* end of an attempt keeps their invariant.
LEMMA QuietHandles ==
  ASSUME ConnInv, UNCHANGED loopVars, disposed => disposed', unsteady => unsteady',
         \A i \in Opens : pc'[i] = "reattach" /\ peer' = i /\ proc'[i] = "up" =>
                          pc[i] = "reattach" /\ peer = i /\ proc[i] = "up",
         Live' /\ attempt' = 0 => Live /\ attempt = 0
  PROVE  HandleInv'
<1> USE DEF ConnInv, HandleInv
<1>1. todo' = todo /\ calling' = calling /\ handle' = handle /\ served' = served
  BY DEF loopVars
<1>2. Subscribed' = Subscribed
  BY <1>1 DEF Subscribed
<1>3. HandleTypeOK'
  BY <1>1 DEF HandleTypeOK
<1>4. LoopCovers'
  BY <1>1, <1>2 DEF LoopCovers
<1>5. HandlesSurvive'
  BY <1>1 DEF HandlesSurvive
<1>6. ServesAttached'
  BY <1>1, <1>2 DEF ServesAttached
<1>7. QED
  BY <1>3, <1>4, <1>5, <1>6

\* An adopted peer owes an attachment to every handle of the channel.
LEMMA AdoptHandles ==
  ASSUME ConnInv, NEW i \in Opens, Adopt(i)
  PROVE  HandleInv'
<1> USE DEF ConnInv, HandleInv
<1>1. /\ todo' = Subscribed /\ calling' = calling /\ handle' = handle /\ served' = served
      /\ disposed' = disposed /\ unsteady' = unsteady /\ attempt' = attempt /\ attempt = i
  BY DEF Adopt, AttemptInv, SharedAttempt
<1>2. Subscribed' = Subscribed
  BY <1>1 DEF Subscribed
<1>3. HandleTypeOK'
  BY <1>1 DEF HandleTypeOK, Subscribed
<1>4. LoopCovers'
  BY <1>1, <1>2 DEF LoopCovers
<1>5. HandlesSurvive'
  BY <1>1 DEF HandlesSurvive
<1>6. ServesAttached'
  BY <1>1, OpensNat DEF ServesAttached
<1>7. QED
  BY <1>3, <1>4, <1>5, <1>6

\* When the loop has nothing left to do, every handle has been served.
LEMMA DoneHandles ==
  ASSUME ConnInv, NEW i \in Opens, OpenDone(i)
  PROVE  HandleInv'
<1> USE DEF ConnInv, HandleInv
<1>1. /\ todo' = todo /\ calling' = calling /\ handle' = handle /\ served' = served
      /\ disposed' = disposed /\ unsteady' = unsteady /\ peer' = peer /\ proc' = proc
      /\ todo = {} /\ calling = NoHandle /\ pc[i] = "reattach"
      /\ attempt = i
  BY DEF OpenDone, loopVars, AttemptInv, SharedAttempt
<1>2. Subscribed' = Subscribed
  BY <1>1 DEF Subscribed
<1>3. HandleTypeOK'
  BY <1>1 DEF HandleTypeOK
<1>4. LoopCovers'
  BY DoneAttempts DEF LoopCovers
<1>5. HandlesSurvive'
  BY <1>1 DEF HandlesSurvive
<1>6. ServesAttached'
  <2>1. SUFFICES ASSUME Live' PROVE Subscribed' \subseteq served'
    BY DEF ServesAttached
  <2>2. peer \in Opens /\ proc[peer] = "up"
    BY <1>1, <2>1 DEF Live, AttemptInv, AttemptTypeOK
  <2>3. peer = i
    <3>1. attempt # 0
      BY <1>1, OpensNat
    <3>2. pc[peer] \in {"handshake", "verified", "reattach"}
      BY <2>2, <3>1 DEF AttemptInv, UpPlaced
    <3>3. QED
      BY <1>1, <2>2, <3>2 DEF AttemptInv, SharedAttempt
  <2>4. Subscribed \subseteq served \union {NoHandle}
    BY <1>1, <2>2, <2>3 DEF LoopCovers
  <2>5. NoHandle \notin Subscribed
    BY NoHandleAssumption DEF Subscribed
  <2>6. QED
    BY <1>1, <1>2, <2>4, <2>5
<1>7. QED
  BY <1>3, <1>4, <1>5, <1>6

\* No process is left: the daemon serves nobody, and owes nothing.
LEMMA LostHandles ==
  ASSUME ConnInv, \A j \in Opens : peer' = j => proc'[j] # "up", peer' \in Opens \union {0},
         served' = {}, UNCHANGED <<todo, calling, handle>>,
         disposed => disposed', unsteady => unsteady'
  PROVE  HandleInv'
<1> USE DEF ConnInv, HandleInv
<1>1. HandleTypeOK'
  BY DEF HandleTypeOK
<1>2. LoopCovers'
  BY DEF LoopCovers
<1>3. HandlesSurvive'
  BY DEF HandlesSurvive
<1>4. ServesAttached'
  BY DEF ServesAttached, Live
<1>5. QED
  BY <1>1, <1>2, <1>3, <1>4

\* One turn of the loop: the handle moves from the ones to do to the one in
\* flight, or it is dropped because the channel has lost its peer.
LEMMA CallHandles ==
  ASSUME ConnInv, NEW i \in Opens, NEW h \in Handles, ReattachCall(i, h)
  PROVE  HandleInv'
<1> USE DEF ConnInv, HandleInv
<1>1. /\ pc[i] = "reattach" /\ calling = NoHandle /\ h \in todo /\ todo' = todo \ {h}
      /\ calling' = IF handle[h] = "attached" /\ peer = i THEN h ELSE NoHandle
      /\ handle' = [handle EXCEPT ![h] = IF @ = "attached" /\ peer # i THEN "torn" ELSE @]
      /\ served' = served /\ state' = state /\ peer' = peer /\ attempt' = attempt
      /\ pc' = pc /\ proc' = proc /\ disposed' = disposed /\ unsteady' = unsteady
      /\ attempt = i
  BY DEF ReattachCall, chanVars, AttemptInv, SharedAttempt
<1>2. HandleTypeOK'
  BY <1>1 DEF HandleTypeOK
<1>3. CASE handle[h] = "attached" /\ peer # i
  <2>1. \A j \in Opens : pc[j] = "reattach" => j = i
    BY <1>1 DEF AttemptInv, SharedAttempt
  <2>2. LoopCovers'
    BY <1>1, <1>3, <2>1 DEF LoopCovers
  <2>3. unsteady \/ disposed
    <3>1. proc[i] # "up" \/ disposed
      BY <1>1, <1>3 DEF AttemptInv, PeerCurrent
    <3>2. QED
      BY <1>1, <3>1 DEF AttemptInv, DropRecorded
  <2>4. HandlesSurvive'
    BY <1>1, <2>3 DEF HandlesSurvive
  <2>5. ServesAttached'
    BY <1>1, OpensNat DEF ServesAttached
  <2>6. QED
    BY <1>2, <2>2, <2>4, <2>5
<1>4. CASE ~(handle[h] = "attached" /\ peer # i)
  <2>1. handle' = handle
    BY <1>1, <1>4 DEF HandleTypeOK
  <2>2. Subscribed' = Subscribed
    BY <2>1 DEF Subscribed
  <2>3. LoopCovers'
    <3>1. SUFFICES ASSUME NEW j \in Opens, pc[j] = "reattach" /\ peer = j /\ proc[j] = "up",
                          NEW k \in Subscribed
                   PROVE  k \in served \union (todo \ {h}) \union {calling'}
      BY <1>1, <2>2 DEF LoopCovers
    <3>2. j = i
      BY <1>1, <3>1 DEF AttemptInv, SharedAttempt
    <3>3. k \in served \union todo \union {NoHandle} /\ k # NoHandle
      BY <1>1, <3>1, NoHandleAssumption DEF LoopCovers, Subscribed
    <3>4. k = h => calling' = h
      BY <1>1, <3>1, <3>2 DEF Subscribed
    <3>5. QED
      BY <3>3, <3>4
  <2>4. HandlesSurvive'
    BY <1>1, <2>1 DEF HandlesSurvive
  <2>5. ServesAttached'
    BY <1>1, OpensNat DEF ServesAttached
  <2>6. QED
    BY <1>2, <2>3, <2>4, <2>5
<1>5. QED
  BY <1>3, <1>4

\* A granted re-attach: the daemon has the attachment.
LEMMA GrantHandles ==
  ASSUME ConnInv, NEW i \in Opens, Reattached(i)
  PROVE  HandleInv'
<1> USE DEF ConnInv, HandleInv
<1>1. /\ pc[i] = "reattach" /\ calling # NoHandle /\ calling' = NoHandle
      /\ served' = served \union {calling} /\ todo' = todo /\ handle' = handle
      /\ state' = state /\ peer' = peer /\ attempt' = attempt
      /\ pc' = pc /\ proc' = proc /\ disposed' = disposed /\ unsteady' = unsteady
      /\ attempt = i
  BY DEF Reattached, chanVars, AttemptInv, SharedAttempt
<1>2. HandleTypeOK'
  BY <1>1 DEF HandleTypeOK
<1>3. Subscribed' = Subscribed
  BY <1>1 DEF Subscribed
<1>4. LoopCovers'
  BY <1>1, <1>3 DEF LoopCovers
<1>5. HandlesSurvive'
  BY <1>1 DEF HandlesSurvive
<1>6. ServesAttached'
  BY <1>1, OpensNat DEF ServesAttached
<1>7. QED
  BY <1>2, <1>4, <1>5, <1>6

\* A re-attach that fails tears its handle down, which is the daemon's refusal
\* unless the stream has dropped in the middle of the loop.
LEMMA RefuseHandles ==
  ASSUME ConnInv, NEW i \in Opens, ReattachFails(i)
  PROVE  HandleInv'
<1> USE DEF ConnInv, HandleInv
<1>1. /\ pc[i] = "reattach" /\ calling \in Handles /\ calling' = NoHandle
      /\ served' = served /\ todo' = todo
      /\ handle' = [handle EXCEPT ![calling] =
                       IF @ # "attached" THEN @ ELSE IF proc[i] = "up" THEN "refused" ELSE "torn"]
      /\ state' = state /\ peer' = peer /\ attempt' = attempt
      /\ pc' = pc /\ proc' = proc /\ disposed' = disposed /\ unsteady' = unsteady
      /\ attempt = i
  BY DEF ReattachFails, chanVars, AttemptInv, SharedAttempt, HandleTypeOK
<1>2. PICK v \in {"none", "attached", "detached", "torn", "refused"} :
        /\ handle' = [handle EXCEPT ![calling] = v]
        /\ v # "attached"
        /\ v = "torn" => handle[calling] = "torn" \/ proc[i] # "up"
  <2>1. CASE handle[calling] # "attached"
    <3>1. handle' = [handle EXCEPT ![calling] = handle[calling]]
      BY <1>1, <2>1
    <3>2. handle[calling] \in {"none", "attached", "detached", "torn", "refused"}
      BY <1>1 DEF HandleTypeOK
    <3>3. QED
      BY <2>1, <3>1, <3>2
  <2>2. CASE handle[calling] = "attached" /\ proc[i] = "up"
    <3>1. handle' = [handle EXCEPT ![calling] = "refused"]
      BY <1>1, <2>2
    <3>2. QED
      BY <3>1
  <2>3. CASE handle[calling] = "attached" /\ proc[i] # "up"
    <3>1. handle' = [handle EXCEPT ![calling] = "torn"]
      BY <1>1, <2>3
    <3>2. QED
      BY <3>1, <2>3
  <2>4. QED
    BY <2>1, <2>2, <2>3
<1>3. HandleTypeOK'
  BY <1>1, <1>2 DEF HandleTypeOK
<1>4. /\ handle'[calling] = v
      /\ \A h \in Handles : h # calling => handle'[h] = handle[h]
  BY <1>1, <1>2 DEF HandleTypeOK
<1>5. Subscribed' = Subscribed \ {calling}
  BY <1>1, <1>2, <1>4 DEF Subscribed
<1>6. LoopCovers'
  BY <1>1, <1>5 DEF LoopCovers
<1>7. HandlesSurvive'
  <2>1. v = "torn" => handle[calling] = "torn" \/ unsteady \/ disposed
    BY <1>1, <1>2 DEF AttemptInv, DropRecorded
  <2>2. QED
    BY <1>1, <1>4, <2>1 DEF HandlesSurvive
<1>8. ServesAttached'
  BY <1>1, OpensNat DEF ServesAttached
<1>9. QED
  BY <1>3, <1>6, <1>7, <1>8

\* A new handle is served from its first moment, if the stream still runs.
LEMMA SubscribeHandles ==
  ASSUME ConnInv, NEW h \in Handles, Subscribe(h)
  PROVE  HandleInv'
<1> USE DEF ConnInv, HandleInv
<1>1. /\ state = "connected" /\ peer # 0 /\ handle[h] = "none"
      /\ handle' = [handle EXCEPT ![h] = "attached"]
      /\ served' = IF proc[peer] = "up" THEN served \union {h} ELSE served
      /\ todo' = todo /\ calling' = calling
      /\ state' = state /\ peer' = peer /\ attempt' = attempt
      /\ pc' = pc /\ proc' = proc /\ disposed' = disposed /\ unsteady' = unsteady
  BY DEF Subscribe, chanVars
<1>2. HandleTypeOK'
  BY <1>1 DEF HandleTypeOK
<1>3. Subscribed' = Subscribed \union {h}
  BY <1>1 DEF Subscribed, HandleTypeOK
<1>4. LoopCovers'
  BY <1>1, <1>3 DEF LoopCovers
<1>5. HandlesSurvive'
  BY <1>1 DEF HandlesSurvive, HandleTypeOK
<1>6. ServesAttached'
  BY <1>1, <1>3 DEF ServesAttached, Live
<1>7. QED
  BY <1>2, <1>4, <1>5, <1>6

\* A detached handle is owed nothing.
LEMMA DetachHandles ==
  ASSUME ConnInv, NEW h \in Handles, DetachHandle(h)
  PROVE  HandleInv'
<1> USE DEF ConnInv, HandleInv
<1>1. /\ handle[h] = "attached" /\ handle' = [handle EXCEPT ![h] = "detached"]
      /\ served' = served \/ served' = served \ {h}
      /\ todo' = todo /\ calling' = calling
      /\ state' = state /\ peer' = peer /\ attempt' = attempt
      /\ pc' = pc /\ proc' = proc /\ disposed' = disposed /\ unsteady' = unsteady
  BY DEF DetachHandle, chanVars
<1>2. HandleTypeOK'
  BY <1>1 DEF HandleTypeOK
<1>3. Subscribed' = Subscribed \ {h}
  BY <1>1 DEF Subscribed, HandleTypeOK
<1>4. LoopCovers'
  BY <1>1, <1>3 DEF LoopCovers
<1>5. HandlesSurvive'
  BY <1>1 DEF HandlesSurvive, HandleTypeOK
<1>6. ServesAttached'
  BY <1>1, <1>3 DEF ServesAttached, Live
<1>7. QED
  BY <1>2, <1>4, <1>5, <1>6

----------------------------------------------------------------------------
(* The theorems *)

\* One step of the channel.
LEMMA StepConn == ConnInv /\ [Next]_vars => ConnInv'
<1> SUFFICES ASSUME ConnInv, [Next]_vars PROVE ConnInv'
  OBVIOUS
<1>a. AttemptInv /\ HandleInv
  BY DEF ConnInv
<1>1. CASE UNCHANGED vars
  <2>1. UNCHANGED loopVars /\ UNCHANGED <<chanVars, disposed, closing, pc, proc, noticed, unsteady>>
        /\ faults' = faults
    BY <1>1 DEF vars
  <2>2. AttemptInv'
    BY <1>a, <2>1, QuietAttempts
  <2>3. state' = state /\ peer' = peer /\ attempt' = attempt
    BY <2>1 DEF chanVars
  <2>4. HandleInv'
    BY <2>1, <2>3, QuietHandles DEF Live
  <2>5. QED
    BY <2>2, <2>4 DEF ConnInv
<1>2. CASE EnsureConnected \/ TimerFires
  <2>1. UNCHANGED <<state, peer, attempts, backoff, disposed, closing, proc, noticed, loopVars,
                    faults, unsteady>> /\ timer' = FALSE
    BY <1>2 DEF EnsureConnected, TimerFires
  <2>2. CASE attempt = 0 /\ state # "connected" /\ ~disposed /\ LaunchAttempt
    <3>1. AttemptInv' /\ attempt' # 0 /\ \A i \in Opens : pc'[i] # "reattach"
      BY <1>a, <2>1, <2>2, LaunchAttempts
    <3>2. HandleInv'
      BY <2>1, <3>1, QuietHandles
    <3>3. QED
      BY <3>1, <3>2 DEF ConnInv
  <2>3. CASE UNCHANGED <<pc, attempt>>
    <3>1. AttemptTypeOK'
      BY <1>a, <2>1, <2>3 DEF AttemptInv, AttemptTypeOK
    <3>2. SharedAttempt' /\ UpPlaced'
      BY <1>a, <2>1, <2>3 DEF AttemptInv, SharedAttempt, UpPlaced
    <3>3. PeerCurrent' /\ DropRecorded'
      BY <1>a, <2>1, <2>3 DEF AttemptInv, PeerCurrent, DropRecorded
    <3>4. FailuresAreFaults'
      BY <1>a, <2>1, <2>3 DEF AttemptInv, FailuresAreFaults
    <3>5. HandleInv'
      BY <2>1, <2>3, QuietHandles DEF Live
    <3>6. QED
      BY <3>1, <3>2, <3>3, <3>4, <3>5 DEF ConnInv, AttemptInv
  <2>4. QED
    BY <1>2, <2>2, <2>3 DEF EnsureConnected, TimerFires
<1>3. ASSUME NEW i \in Opens, AttemptStep(i) PROVE ConnInv'
  <2>1. CASE OpenFails(i) \/ HandshakeFails(i) \/ Superseded(i)
    <3>1. /\ AttemptInv' /\ state' = "down" /\ disposed' = disposed /\ unsteady' = unsteady
          /\ \A j \in Opens : pc'[j] # "reattach"
      BY <1>a, <2>1, FailAttempts
    <3>2. UNCHANGED loopVars
      BY <2>1 DEF OpenFails, HandshakeFails, Superseded
    <3>3. HandleInv'
      BY <3>1, <3>2, QuietHandles DEF Live
    <3>4. QED
      BY <3>1, <3>3 DEF ConnInv
  <2>2. CASE OpenSpawned(i) \/ HandshakeOk(i)
    <3>1. AttemptInv' /\ \A j \in Opens : pc'[j] # "reattach"
      BY <1>a, <2>2, SpawnAttempts
    <3>2. UNCHANGED loopVars /\ disposed' = disposed /\ unsteady' = unsteady /\ attempt' = attempt
      BY <2>2 DEF OpenSpawned, HandshakeOk, chanVars
    <3>3. attempt' # 0
      BY <2>2, <1>a, <3>2, OpensNat DEF OpenSpawned, HandshakeOk, AttemptInv, SharedAttempt
    <3>4. HandleInv'
      BY <3>1, <3>2, <3>3, QuietHandles
    <3>5. QED
      BY <3>1, <3>4 DEF ConnInv
  <2>3. CASE Adopt(i)
    BY <1>a, <2>3, AdoptAttempts, AdoptHandles DEF ConnInv
  <2>4. ASSUME NEW h \in Handles, ReattachCall(i, h) PROVE ConnInv'
    <3>1. AttemptInv'
      BY <1>a, <2>4, QuietAttempts DEF ReattachCall
    <3>2. QED
      BY <2>4, <3>1, CallHandles DEF ConnInv
  <2>5. CASE Reattached(i)
    <3>1. AttemptInv'
      BY <1>a, <2>5, QuietAttempts DEF Reattached
    <3>2. QED
      BY <2>5, <3>1, GrantHandles DEF ConnInv
  <2>6. CASE ReattachFails(i)
    <3>1. AttemptInv'
      BY <1>a, <2>6, QuietAttempts DEF ReattachFails
    <3>2. QED
      BY <2>6, <3>1, RefuseHandles DEF ConnInv
  <2>7. CASE OpenDone(i)
    BY <1>a, <2>7, DoneAttempts, DoneHandles DEF ConnInv
  <2>8. QED
    BY <1>3, <2>1, <2>2, <2>3, <2>4, <2>5, <2>6, <2>7 DEF AttemptStep
<1>4. ASSUME NEW i \in Opens, StreamLost(i) PROVE ConnInv'
  <2>1. AttemptInv' /\ \A j \in Opens : proc'[j] # "up"
    BY <1>a, <1>4, LostAttempts
  <2>2. peer' \in Opens \union {0}
    BY <2>1 DEF AttemptInv, AttemptTypeOK
  <2>3. served' = {} /\ UNCHANGED <<todo, calling, handle>> /\ disposed' = disposed
        /\ (unsteady => unsteady')
    BY <1>4 DEF StreamLost
  <2>4. HandleInv'
    BY <2>1, <2>2, <2>3, LostHandles
  <2>5. QED
    BY <2>1, <2>4 DEF ConnInv
<1>5. ASSUME NEW i \in Opens, PeerClosed(i) PROVE ConnInv'
  <2>1. /\ AttemptInv' /\ pc' = pc /\ proc' = proc /\ disposed' = disposed /\ unsteady' = unsteady
        /\ attempt' = attempt
        /\ (state' = state /\ peer' = peer) \/ (state' = "down" /\ peer' = 0)
    BY <1>a, <1>5, ClosedAttempts
  <2>2. UNCHANGED loopVars
    BY <1>5 DEF PeerClosed
  <2>3. HandleInv'
    BY <2>1, <2>2, QuietHandles, OpensNat DEF Live
  <2>4. QED
    BY <2>1, <2>3 DEF ConnInv
<1>6. ASSUME NEW h \in Handles, Subscribe(h) \/ DetachHandle(h) PROVE ConnInv'
  <2>1. AttemptInv'
    BY <1>a, <1>6, QuietAttempts DEF Subscribe, DetachHandle
  <2>2. QED
    BY <1>6, <2>1, SubscribeHandles, DetachHandles DEF ConnInv
<1>7. CASE Close
  <2>1. AttemptInv' /\ disposed' /\ peer' = 0
    BY <1>a, <1>7, CloseAttempts
  <2>2. UNCHANGED loopVars /\ unsteady' = unsteady
    BY <1>7 DEF Close
  <2>3. HandleInv'
    BY <2>1, <2>2, QuietHandles, OpensNat DEF Live
  <2>4. QED
    BY <2>1, <2>3 DEF ConnInv
<1>8. CASE CloseKills
  <2>1. AttemptInv' /\ disposed /\ peer = 0
    BY <1>a, <1>8, KillAttempts
  <2>2. /\ served' = {} /\ UNCHANGED <<todo, calling, handle>> /\ disposed' = disposed
        /\ unsteady' = unsteady /\ peer' = peer
    BY <1>8 DEF CloseKills, chanVars
  <2>3. HandleInv'
    BY <2>1, <2>2, LostHandles, OpensNat
  <2>4. QED
    BY <2>1, <2>3 DEF ConnInv
<1>9. QED
  BY <1>1, <1>2, <1>3, <1>4, <1>5, <1>6, <1>7, <1>8 DEF Next

\* The inductive invariant holds in every reachable state, whatever order the
\* attempts, the callbacks and close() run in.
THEOREM ConnInvariant == Spec => []ConnInv
BY InitConn, StepConn, PTL DEF Spec

\* Concurrent callers, the timer and the retries share one open, and never are
\* there two backend processes (connection.ts ensureConnected, launchAttempt,
\* scheduleReconnect).
THEOREM ConnOneOpen == Spec => []OneOpen
<1>1. ConnInv => OneOpen
  <2> SUFFICES ASSUME ConnInv PROVE OneOpen
    OBVIOUS
  <2> USE DEF ConnInv, AttemptInv
  <2>1. Running = IF attempt = 0 THEN {} ELSE {attempt}
    BY OpensNat DEF Running, SharedAttempt, AttemptTypeOK
  <2>2. Cardinality({i \in Opens : proc[i] = "up"}) <= 1
    <3> DEFINE Up == {i \in Opens : proc[i] = "up"}
    <3>1. CASE Up = {}
      BY <3>1, FS_EmptySet
    <3>2. CASE Up # {}
      <4>1. PICK i \in Opens : Up = {i}
        BY <3>2 DEF UpPlaced
      <4>2. QED
        BY <4>1, FS_Singleton
    <3>3. QED
      BY <3>1, <3>2
  <2>3. QED
    BY <2>1, <2>2 DEF OneOpen
<1>2. QED
  BY <1>1, ConnInvariant, PTL

\* No handle is torn down by one drop of the channel, and none that is attached
\* is forgotten by the daemon after a reconnect (connection.ts reattachAll).
THEOREM ConnChannelInv == Spec => []ChannelInv
<1>1. ConnInv => ChannelInv
  BY DEF ConnInv, AttemptInv, HandleInv, AttemptTypeOK, HandleTypeOK, ChannelInv, TypeOK
<1>2. QED
  BY <1>1, ConnInvariant, PTL

----------------------------------------------------------------------------
(* Terminals over SSH.  The parts of the inductive invariant.               *)

\* The types of the terminal.
TerminalTypeOK ==
  /\ conn \in {"up", "lost"} /\ aborted \in BOOLEAN /\ blind \in BOOLEAN
  /\ spawn \in {"setup", "exec", "boundary", "pid", "tty", "handle", "refused", "noboundary", "failed"}
  /\ live \subseteq Groups /\ stage \in {"none", "wrapper", "program"}
  /\ chan \in {"none", "open", "closing", "closed"} /\ exit \in {"none", "code", "signal", "null"}
  /\ printed \in Seq(Bytes) /\ wire \in Seq(Bytes) /\ got \in Seq(Bytes)
  /\ filter \in [pending : Seq(Bytes), published : BOOLEAN]
  /\ out \in {"open", "ended", "destroyed"}
  /\ done \in {"pending", "exited", "terminated", "lost"} /\ sig \in {"none", "TERM", "KILL"}
  /\ op \in [Ops -> [at : {"none", "look", "kill"}, group : Groups \cup {"none"}]]
  /\ close \in {"idle", "draining", "list", "term", "grace", "race", "kill", "killing", "shoot",
                "relook", "lastrace", "verdict", "remove", "failed", "over"}
  /\ groups \subseteq Groups

\* The allocation failed, so that there is no handle and never will be.
Unwinding == spawn \in {"refused", "noboundary", "failed"}

\* Nobody calls a handle that was not returned, and the leader is started with
\* the channel.
SpawnOrder ==
  /\ ~Handed => close = "idle" /\ done = "pending" /\ sig = "none"
  /\ spawn \in {"setup", "exec"} => chan = "none"
  /\ chan = "none" <=> stage = "none"
  /\ chan = "none" => live = {} /\ exit = "none"
  /\ exit # "none" => chan = "closed"
  /\ spawn = "noboundary" => exit # "none"

\* Who closed the channel before the leader ended.
Cut == aborted \/ conn = "lost" \/ sig # "none" \/ Unwinding

\* A channel is closed by its own side only for a reason, an exit without status
\* has one too, and the outcome says "lost" only when it was the caller or the
\* network.
ClosedForReason ==
  /\ chan = "closing" => Cut
  /\ exit = "null" => Cut
  /\ chan = "closed" => Cut \/ "leader" \notin live
  /\ chan = "closed" /\ exit = "none" => conn = "lost"
  /\ done = "lost" => aborted \/ conn = "lost"

\* Operations are refused once terminate was called, and awaited before the
\* session is looked at.
OpsOver == close \notin {"idle", "draining"} => \A o \in Ops : op[o] = NoOp

\* What the last ps saw of a session that cannot grow any more.
SessionSeen ==
  /\ close \in {"race", "lastrace", "verdict"} /\ groups = {} => live = {} \/ blind
  /\ close = "remove" => live = {} \/ blind
  /\ close = "over" /\ conn = "up" => live = {} \/ blind

\* Byte i of what the filter retained followed by what is on the wire.
Ahead(p, w, i) == IF i <= Len(p) THEN p[i] ELSE w[i - Len(p)]

\* The marker comes after k bytes of noise, and the output of the program after
\* the marker.
MarkerAt(p, w, s, k) ==
  /\ Len(p) + Len(w) = k + 2 + Len(s)
  /\ Ahead(p, w, k + 1) = "a" /\ Ahead(p, w, k + 2) = "b"
  /\ \A i \in 1..k : ~(Ahead(p, w, i) = "a" /\ Ahead(p, w, i + 1) = "b")
  /\ \A i \in 1..Len(s) : Ahead(p, w, k + 2 + i) = s[i]

\* s followed by w is the beginning of t.
Begins(s, w, t) ==
  /\ Len(s) + Len(w) <= Len(t)
  /\ \A i \in 1..Len(s) : s[i] = t[i]
  /\ \A i \in 1..Len(w) : w[i] = t[Len(s) + i]

\* Before the marker is printed nothing is; until the filter found it, it is
\* ahead, unless the bytes were lost with their channel; then the reader has
\* the beginning of the output and the wire the rest.
OutputOrder ==
  /\ Len(filter.pending) <= 1
  /\ stage # "program" => printed = <<>> /\ wire = <<>> /\ filter.pending = <<>> /\ ~filter.published
  /\ ~filter.published => got = <<>>
  /\ ~filter.published /\ stage = "program" =>
       \/ chan = "closed" /\ wire = <<>> /\ Cut
       \/ \E k \in 0..Len(wire) : MarkerAt(filter.pending, wire, printed, k)
  /\ Begins(got, <<>>, printed)
  /\ filter.published /\ out = "open" =>
       Begins(got, wire, printed) /\ (chan # "closed" => Len(got) + Len(wire) = Len(printed))

\* A missing boundary is missing for good.
NoBoundary ==
  spawn = "noboundary" /\ conn = "up" /\ ~aborted => stage # "program" /\ "leader" \notin live

TerminalIInv ==
  /\ TerminalTypeOK /\ SpawnOrder /\ ClosedForReason /\ OpsOver /\ SessionSeen /\ OutputOrder /\ NoBoundary

Control == SpawnOrder /\ ClosedForReason /\ OpsOver /\ SessionSeen /\ NoBoundary

LEMMA NoOpFacts == NoOp \in [at : {"none", "look", "kill"}, group : Groups \cup {"none"}]
BY DEF NoOp, Groups

LEMMA OutputKept ==
  ASSUME OutputOrder, UNCHANGED <<printed, wire, filter, got, stage>>,
         out' = "open" => out = "open", chan = "closed" => chan' = "closed", Cut => Cut'
  PROVE  OutputOrder'
<1>1. CASE stage = "program"
  BY <1>1 DEF OutputOrder
<1>2. CASE stage # "program"
  BY <1>2 DEF OutputOrder
<1>3. QED
  BY <1>1, <1>2

LEMMA SetupScriptKeeps == ASSUME TerminalIInv, SetupScript PROVE TerminalIInv'
<1>1. TerminalTypeOK'
  BY DEF TerminalIInv, TerminalTypeOK, channelVars, outputVars, handleVars, SetupScript
<1>2. Control'
  BY DEF TerminalIInv, Control, SpawnOrder, ClosedForReason, OpsOver, SessionSeen, NoBoundary, Cut,
         Unwinding, Handed, NoOp, channelVars, outputVars, handleVars, SetupScript
<1>3. OutputOrder'
  <2>1. /\ UNCHANGED <<printed, wire, filter, got, stage>> /\ (out' = "open" => out = "open")
        /\ (chan = "closed" => chan' = "closed") /\ (Cut => Cut')
    BY DEF TerminalIInv, TerminalTypeOK, SpawnOrder, Cut, Unwinding, channelVars, outputVars, handleVars,
           SetupScript
  <2>2. QED
    BY <2>1, OutputKept DEF TerminalIInv
<1>4. QED
  BY <1>1, <1>2, <1>3 DEF TerminalIInv, Control

LEMMA WrapperPublishesKeeps == ASSUME TerminalIInv, NEW file, NEW before, WrapperPublishes(file, before) PROVE TerminalIInv'
<1>1. TerminalTypeOK'
  BY DEF TerminalIInv, TerminalTypeOK, channelVars, outputVars, handleVars, WrapperPublishes
<1>2. Control'
  BY DEF TerminalIInv, Control, SpawnOrder, ClosedForReason, OpsOver, SessionSeen, NoBoundary, Cut,
         Unwinding, Handed, NoOp, channelVars, outputVars, handleVars, WrapperPublishes
<1>3. OutputOrder'
  <2>1. /\ UNCHANGED <<printed, wire, filter, got, stage>> /\ (out' = "open" => out = "open")
        /\ (chan = "closed" => chan' = "closed") /\ (Cut => Cut')
    BY DEF TerminalIInv, TerminalTypeOK, SpawnOrder, Cut, Unwinding, channelVars, outputVars, handleVars,
           WrapperPublishes
  <2>2. QED
    BY <2>1, OutputKept DEF TerminalIInv
<1>4. QED
  BY <1>1, <1>2, <1>3 DEF TerminalIInv, Control

LEMMA WrapperFailsKeeps == ASSUME TerminalIInv, WrapperFails PROVE TerminalIInv'
<1>1. TerminalTypeOK'
  BY DEF TerminalIInv, TerminalTypeOK, channelVars, outputVars, handleVars, WrapperFails
<1>2. Control'
  BY DEF TerminalIInv, Control, SpawnOrder, ClosedForReason, OpsOver, SessionSeen, NoBoundary, Cut,
         Unwinding, Handed, NoOp, channelVars, outputVars, handleVars, WrapperFails
<1>3. OutputOrder'
  <2>1. /\ UNCHANGED <<printed, wire, filter, got, stage>> /\ (out' = "open" => out = "open")
        /\ (chan = "closed" => chan' = "closed") /\ (Cut => Cut')
    BY DEF TerminalIInv, TerminalTypeOK, SpawnOrder, Cut, Unwinding, channelVars, outputVars, handleVars,
           WrapperFails
  <2>2. QED
    BY <2>1, OutputKept DEF TerminalIInv
<1>4. QED
  BY <1>1, <1>2, <1>3 DEF TerminalIInv, Control

LEMMA ProgramForksKeeps == ASSUME TerminalIInv, ProgramForks PROVE TerminalIInv'
<1>1. TerminalTypeOK'
  BY DEF TerminalIInv, TerminalTypeOK, channelVars, outputVars, handleVars, ProgramForks, Groups
<1>2. Control'
  BY DEF TerminalIInv, Control, SpawnOrder, ClosedForReason, OpsOver, SessionSeen, NoBoundary, Cut,
         Unwinding, Handed, NoOp, channelVars, outputVars, handleVars, ProgramForks
<1>3. OutputOrder'
  <2>1. /\ UNCHANGED <<printed, wire, filter, got, stage>> /\ (out' = "open" => out = "open")
        /\ (chan = "closed" => chan' = "closed") /\ (Cut => Cut')
    BY DEF TerminalIInv, TerminalTypeOK, SpawnOrder, Cut, Unwinding, channelVars, outputVars, handleVars,
           ProgramForks
  <2>2. QED
    BY <2>1, OutputKept DEF TerminalIInv
<1>4. QED
  BY <1>1, <1>2, <1>3 DEF TerminalIInv, Control

LEMMA GroupEndsKeeps == ASSUME TerminalIInv, NEW g \in Groups, GroupEnds(g) PROVE TerminalIInv'
<1>1. TerminalTypeOK'
  BY DEF TerminalIInv, TerminalTypeOK, channelVars, outputVars, handleVars, GroupEnds
<1>2. Control'
  BY DEF TerminalIInv, Control, SpawnOrder, ClosedForReason, OpsOver, SessionSeen, NoBoundary, Cut,
         Unwinding, Handed, Groups, NoOp, channelVars, outputVars, handleVars, GroupEnds
<1>3. OutputOrder'
  <2>1. /\ UNCHANGED <<printed, wire, filter, got, stage>> /\ (out' = "open" => out = "open")
        /\ (chan = "closed" => chan' = "closed") /\ (Cut => Cut')
    BY DEF TerminalIInv, TerminalTypeOK, SpawnOrder, Cut, Unwinding, channelVars, outputVars, handleVars,
           GroupEnds
  <2>2. QED
    BY <2>1, OutputKept DEF TerminalIInv
<1>4. QED
  BY <1>1, <1>2, <1>3 DEF TerminalIInv, Control

LEMMA ChannelClosesKeeps == ASSUME TerminalIInv, ChannelCloses PROVE TerminalIInv'
<1>1. TerminalTypeOK'
  BY DEF TerminalIInv, TerminalTypeOK, hostVars, outputVars, handleVars, ChannelCloses
<1>2. Control'
  BY DEF TerminalIInv, Control, SpawnOrder, ClosedForReason, OpsOver, SessionSeen, NoBoundary, Cut,
         Unwinding, Handed, NoOp, hostVars, outputVars, handleVars, ChannelCloses
<1>3. OutputOrder'
  <2>1. /\ UNCHANGED <<printed, wire, filter, got, stage>> /\ (out' = "open" => out = "open")
        /\ (chan = "closed" => chan' = "closed") /\ (Cut => Cut')
    BY DEF TerminalIInv, TerminalTypeOK, SpawnOrder, Cut, Unwinding, hostVars, outputVars, handleVars,
           ChannelCloses
  <2>2. QED
    BY <2>1, OutputKept DEF TerminalIInv
<1>4. QED
  BY <1>1, <1>2, <1>3 DEF TerminalIInv, Control

LEMMA CallerAbortsKeeps == ASSUME TerminalIInv, CallerAborts PROVE TerminalIInv'
<1>1. TerminalTypeOK'
  BY DEF TerminalIInv, TerminalTypeOK, hostVars, handleVars, CallerAborts, Kill
<1>2. Control'
  BY DEF TerminalIInv, Control, SpawnOrder, ClosedForReason, OpsOver, SessionSeen, NoBoundary, Cut,
         Unwinding, Handed, NoOp, hostVars, handleVars, CallerAborts, Kill
<1>3. OutputOrder'
  <2>1. /\ UNCHANGED <<printed, wire, filter, got, stage>> /\ (out' = "open" => out = "open")
        /\ (chan = "closed" => chan' = "closed") /\ (Cut => Cut')
    BY DEF TerminalIInv, TerminalTypeOK, SpawnOrder, Cut, Unwinding, hostVars, handleVars, CallerAborts, Kill
  <2>2. QED
    BY <2>1, OutputKept DEF TerminalIInv
<1>4. QED
  BY <1>1, <1>2, <1>3 DEF TerminalIInv, Control

LEMMA PumpEndsKeeps == ASSUME TerminalIInv, PumpEnds PROVE TerminalIInv'
<1>1. TerminalTypeOK'
  BY DEF TerminalIInv, TerminalTypeOK, hostVars, channelVars, handleVars, PumpEnds, Drained
<1>2. Control'
  BY DEF TerminalIInv, Control, SpawnOrder, ClosedForReason, OpsOver, SessionSeen, NoBoundary, Cut,
         Unwinding, Handed, NoOp, hostVars, channelVars, handleVars, PumpEnds, Drained
<1>3. OutputOrder'
  <2>1. /\ UNCHANGED <<printed, wire, filter, got, stage>> /\ (out' = "open" => out = "open")
        /\ (chan = "closed" => chan' = "closed") /\ (Cut => Cut')
    BY DEF TerminalIInv, TerminalTypeOK, SpawnOrder, Cut, Unwinding, hostVars, channelVars, handleVars,
           PumpEnds, Drained
  <2>2. QED
    BY <2>1, OutputKept DEF TerminalIInv
<1>4. QED
  BY <1>1, <1>2, <1>3 DEF TerminalIInv, Control

LEMMA SetupSettlesKeeps == ASSUME TerminalIInv, SetupSettles PROVE TerminalIInv'
<1>1. TerminalTypeOK'
  BY DEF TerminalIInv, TerminalTypeOK, hostVars, channelVars, handleVars, SetupSettles, Spawn, Fails, Kill,
         CommandFails
<1>2. Control'
  BY DEF TerminalIInv, Control, SpawnOrder, ClosedForReason, OpsOver, SessionSeen, NoBoundary, Cut,
         Unwinding, Handed, NoOp, hostVars, channelVars, handleVars, SetupSettles, Spawn, Fails, Kill,
         CommandFails
<1>3. OutputOrder'
  <2>1. /\ UNCHANGED <<printed, wire, filter, got, stage>> /\ (out' = "open" => out = "open")
        /\ (chan = "closed" => chan' = "closed") /\ (Cut => Cut')
    BY DEF TerminalIInv, TerminalTypeOK, SpawnOrder, Cut, Unwinding, hostVars, channelVars, handleVars,
           SetupSettles, Spawn, Fails, Kill, CommandFails
  <2>2. QED
    BY <2>1, OutputKept DEF TerminalIInv
<1>4. QED
  BY <1>1, <1>2, <1>3 DEF TerminalIInv, Control

LEMMA ExecFailsKeeps == ASSUME TerminalIInv, ExecFails PROVE TerminalIInv'
<1>1. TerminalTypeOK'
  BY DEF TerminalIInv, TerminalTypeOK, hostVars, handleVars, ExecFails, Fails, Kill
<1>2. Control'
  BY DEF TerminalIInv, Control, SpawnOrder, ClosedForReason, OpsOver, SessionSeen, NoBoundary, Cut,
         Unwinding, Handed, NoOp, hostVars, handleVars, ExecFails, Fails, Kill
<1>3. OutputOrder'
  <2>1. /\ UNCHANGED <<printed, wire, filter, got, stage>> /\ (out' = "open" => out = "open")
        /\ (chan = "closed" => chan' = "closed") /\ (Cut => Cut')
    BY DEF TerminalIInv, TerminalTypeOK, SpawnOrder, Cut, Unwinding, hostVars, handleVars, ExecFails, Fails,
           Kill
  <2>2. QED
    BY <2>1, OutputKept DEF TerminalIInv
<1>4. QED
  BY <1>1, <1>2, <1>3 DEF TerminalIInv, Control

LEMMA BoundaryExitKeeps == ASSUME TerminalIInv, BoundaryExit PROVE TerminalIInv'
<1>1. TerminalTypeOK'
  BY DEF TerminalIInv, TerminalTypeOK, hostVars, handleVars, BoundaryExit, Fails, Kill, Drained
<1>2. Control'
  <2>1. SpawnOrder' /\ ClosedForReason' /\ OpsOver' /\ SessionSeen'
    BY DEF TerminalIInv, TerminalTypeOK, SpawnOrder, ClosedForReason, OpsOver, SessionSeen, Cut, Unwinding, Handed, Kill,
           BoundaryExit, Drained, Fails, hostVars, handleVars
  <2>2. NoBoundary'
    <3> SUFFICES ASSUME conn = "up", aborted = FALSE PROVE stage # "program" /\ "leader" \notin live
      BY DEF TerminalIInv, TerminalTypeOK, NoBoundary, BoundaryExit, Fails, hostVars
    <3>1. exit # "none" /\ wire = <<>> /\ spawn = "boundary" /\ filter.published = FALSE
      BY DEF TerminalIInv, TerminalTypeOK, BoundaryExit, Drained, Fails
    <3>2. ~Cut
      BY <3>1 DEF TerminalIInv, SpawnOrder, Cut, Unwinding, Handed
    <3>3. "leader" \notin live
      BY <3>1, <3>2 DEF TerminalIInv, SpawnOrder, ClosedForReason
    <3>4. ASSUME stage = "program" PROVE FALSE
      <4>1. PICK k \in 0..Len(wire) : MarkerAt(filter.pending, wire, printed, k)
        BY <3>1, <3>2, <3>4 DEF TerminalIInv, OutputOrder
      <4>2. Len(filter.pending) + Len(wire) = k + 2 + Len(printed) /\ Len(filter.pending) <= 1
        BY <4>1 DEF TerminalIInv, OutputOrder, MarkerAt
      <4>3. Len(wire) = 0 /\ Len(printed) \in Nat /\ Len(filter.pending) \in Nat
        BY <3>1 DEF TerminalIInv, TerminalTypeOK
      <4>4. QED
        BY <4>2, <4>3
    <3>5. QED
      BY <3>3, <3>4
  <2>3. QED
    BY <2>1, <2>2 DEF Control
<1>3. OutputOrder'
  <2>1. /\ UNCHANGED <<printed, wire, filter, got, stage>> /\ (out' = "open" => out = "open")
        /\ (chan = "closed" => chan' = "closed") /\ (Cut => Cut')
    BY DEF TerminalIInv, TerminalTypeOK, SpawnOrder, Cut, Unwinding, hostVars, handleVars, BoundaryExit,
           Fails, Kill, Drained
  <2>2. QED
    BY <2>1, OutputKept DEF TerminalIInv
<1>4. QED
  BY <1>1, <1>2, <1>3 DEF TerminalIInv, Control

LEMMA BoundarySeenKeeps == ASSUME TerminalIInv, BoundarySeen PROVE TerminalIInv'
<1>1. TerminalTypeOK'
  BY DEF TerminalIInv, TerminalTypeOK, hostVars, channelVars, handleVars, BoundarySeen, Fails, Kill, Spawn
<1>2. Control'
  BY DEF TerminalIInv, Control, SpawnOrder, ClosedForReason, OpsOver, SessionSeen, NoBoundary, Cut,
         Unwinding, Handed, NoOp, hostVars, channelVars, handleVars, BoundarySeen, Fails, Kill, Spawn
<1>3. OutputOrder'
  <2>1. /\ UNCHANGED <<printed, wire, filter, got, stage>> /\ (out' = "open" => out = "open")
        /\ (chan = "closed" => chan' = "closed") /\ (Cut => Cut')
    BY DEF TerminalIInv, TerminalTypeOK, SpawnOrder, Cut, Unwinding, hostVars, channelVars, handleVars,
           BoundarySeen, Fails, Kill, Spawn
  <2>2. QED
    BY <2>1, OutputKept DEF TerminalIInv
<1>4. QED
  BY <1>1, <1>2, <1>3 DEF TerminalIInv, Control

LEMMA RollBackKeeps == ASSUME TerminalIInv, RollBack PROVE TerminalIInv'
<1>1. TerminalTypeOK'
  BY DEF TerminalIInv, TerminalTypeOK, channelVars, outputVars, handleVars, RollBack, KillSettled
<1>2. Control'
  BY DEF TerminalIInv, Control, SpawnOrder, ClosedForReason, OpsOver, SessionSeen, NoBoundary, Cut,
         Unwinding, Handed, NoOp, channelVars, outputVars, handleVars, RollBack, KillSettled
<1>3. OutputOrder'
  <2>1. /\ UNCHANGED <<printed, wire, filter, got, stage>> /\ (out' = "open" => out = "open")
        /\ (chan = "closed" => chan' = "closed") /\ (Cut => Cut')
    BY DEF TerminalIInv, TerminalTypeOK, SpawnOrder, Cut, Unwinding, channelVars, outputVars, handleVars,
           RollBack, KillSettled
  <2>2. QED
    BY <2>1, OutputKept DEF TerminalIInv
<1>4. QED
  BY <1>1, <1>2, <1>3 DEF TerminalIInv, Control

LEMMA DoneSettlesKeeps == ASSUME TerminalIInv, DoneSettles PROVE TerminalIInv'
<1>1. TerminalTypeOK'
  BY DEF TerminalIInv, TerminalTypeOK, hostVars, channelVars, DoneSettles
<1>2. Control'
  BY DEF TerminalIInv, Control, SpawnOrder, ClosedForReason, OpsOver, SessionSeen, NoBoundary, Cut,
         Unwinding, Handed, NoOp, hostVars, channelVars, DoneSettles
<1>3. OutputOrder'
  <2>1. /\ UNCHANGED <<printed, wire, filter, got, stage>> /\ (out' = "open" => out = "open")
        /\ (chan = "closed" => chan' = "closed") /\ (Cut => Cut')
    BY DEF TerminalIInv, TerminalTypeOK, SpawnOrder, Cut, Unwinding, hostVars, channelVars, DoneSettles
  <2>2. QED
    BY <2>1, OutputKept DEF TerminalIInv
<1>4. QED
  BY <1>1, <1>2, <1>3 DEF TerminalIInv, Control

LEMMA TerminateKeeps == ASSUME TerminalIInv, Terminate PROVE TerminalIInv'
<1>1. TerminalTypeOK'
  BY DEF TerminalIInv, TerminalTypeOK, outputVars, Terminate, CloseTo, CloseVars
<1>2. Control'
  BY DEF TerminalIInv, Control, SpawnOrder, ClosedForReason, OpsOver, SessionSeen, NoBoundary, Cut,
         Unwinding, Handed, NoOp, outputVars, Terminate, CloseTo, CloseVars
<1>3. OutputOrder'
  <2>1. /\ UNCHANGED <<printed, wire, filter, got, stage>> /\ (out' = "open" => out = "open")
        /\ (chan = "closed" => chan' = "closed") /\ (Cut => Cut')
    BY DEF TerminalIInv, TerminalTypeOK, SpawnOrder, Cut, Unwinding, outputVars, Terminate, CloseTo, CloseVars
  <2>2. QED
    BY <2>1, OutputKept DEF TerminalIInv
<1>4. QED
  BY <1>1, <1>2, <1>3 DEF TerminalIInv, Control

LEMMA OpsDrainedKeeps == ASSUME TerminalIInv, OpsDrained PROVE TerminalIInv'
<1>1. TerminalTypeOK'
  BY DEF TerminalIInv, TerminalTypeOK, outputVars, OpsDrained, Kill, CloseVars
<1>2. Control'
  <2>1. OpsOver'
    BY DEF OpsOver, OpsDrained, CloseVars
  <2>2. SpawnOrder' /\ ClosedForReason'
    BY DEF TerminalIInv, TerminalTypeOK, SpawnOrder, ClosedForReason, Cut, Unwinding, Handed, Kill,
           OpsDrained, CloseVars
  <2>3. SessionSeen' /\ NoBoundary'
    BY DEF TerminalIInv, TerminalTypeOK, SessionSeen, NoBoundary, OpsDrained, CloseVars
  <2>4. QED
    BY <2>1, <2>2, <2>3 DEF Control
<1>3. OutputOrder'
  <2>1. /\ UNCHANGED <<printed, wire, filter, got, stage>> /\ (out' = "open" => out = "open")
        /\ (chan = "closed" => chan' = "closed") /\ (Cut => Cut')
    BY DEF TerminalIInv, TerminalTypeOK, SpawnOrder, Cut, Unwinding, outputVars, OpsDrained, Kill, CloseVars
  <2>2. QED
    BY <2>1, OutputKept DEF TerminalIInv
<1>4. QED
  BY <1>1, <1>2, <1>3 DEF TerminalIInv, Control

LEMMA ListGroupsKeeps == ASSUME TerminalIInv, ListGroups PROVE TerminalIInv'
<1>1. TerminalTypeOK'
  <2>1. groups' \subseteq Groups /\ blind' \in BOOLEAN
    BY Zenon DEF TerminalIInv, TerminalTypeOK, ListGroups, Sees
  <2>2. close' \in {"draining", "grace", "race", "kill", "killing", "shoot", "lastrace", "term", "verdict"}
    BY DEF ListGroups, AfterGroups
  <2>3. QED
    BY <2>1, <2>2 DEF TerminalIInv, TerminalTypeOK, channelVars, outputVars, ListGroups, CloseTo, CloseVars
<1>2. Control'
  BY DEF TerminalIInv, Control, SpawnOrder, ClosedForReason, OpsOver, SessionSeen, NoBoundary, Cut,
         Unwinding, Handed, topLevelExited, Groups, NoOp, outputVars, ListGroups, CloseVars, Sees,
         AfterGroups
<1>3. OutputOrder'
  <2>1. /\ UNCHANGED <<printed, wire, filter, got, stage>> /\ (out' = "open" => out = "open")
        /\ (chan = "closed" => chan' = "closed") /\ (Cut => Cut')
    BY DEF TerminalIInv, TerminalTypeOK, SpawnOrder, Cut, Unwinding, outputVars, ListGroups, CloseVars, Sees,
           AfterGroups
  <2>2. QED
    BY <2>1, OutputKept DEF TerminalIInv
<1>4. QED
  BY <1>1, <1>2, <1>3 DEF TerminalIInv, Control

LEMMA TermSentKeeps == ASSUME TerminalIInv, TermSent PROVE TerminalIInv'
<1>1. TerminalTypeOK'
  BY DEF TerminalIInv, TerminalTypeOK, outputVars, TermSent, CloseVars
<1>2. Control'
  BY DEF TerminalIInv, Control, SpawnOrder, ClosedForReason, OpsOver, SessionSeen, NoBoundary, Cut,
         Unwinding, Handed, NoOp, outputVars, TermSent, CloseVars
<1>3. OutputOrder'
  <2>1. /\ UNCHANGED <<printed, wire, filter, got, stage>> /\ (out' = "open" => out = "open")
        /\ (chan = "closed" => chan' = "closed") /\ (Cut => Cut')
    BY DEF TerminalIInv, TerminalTypeOK, SpawnOrder, Cut, Unwinding, outputVars, TermSent, CloseVars
  <2>2. QED
    BY <2>1, OutputKept DEF TerminalIInv
<1>4. QED
  BY <1>1, <1>2, <1>3 DEF TerminalIInv, Control

LEMMA GracePollsKeeps == ASSUME TerminalIInv, GracePolls PROVE TerminalIInv'
<1>1. TerminalTypeOK'
  <2>1. groups' \subseteq Groups /\ blind' \in BOOLEAN
    BY Zenon DEF TerminalIInv, TerminalTypeOK, GracePolls, Sees
  <2>2. close' \in {"draining", "grace", "race", "kill", "killing", "shoot", "lastrace", "term", "verdict"}
    BY DEF GracePolls, AfterGroups
  <2>3. QED
    BY <2>1, <2>2 DEF TerminalIInv, TerminalTypeOK, channelVars, outputVars, GracePolls, CloseTo, CloseVars
<1>2. Control'
  BY DEF TerminalIInv, Control, SpawnOrder, ClosedForReason, OpsOver, SessionSeen, NoBoundary, Cut,
         Unwinding, Handed, topLevelExited, Groups, NoOp, outputVars, GracePolls, CloseVars, Sees,
         AfterGroups
<1>3. OutputOrder'
  <2>1. /\ UNCHANGED <<printed, wire, filter, got, stage>> /\ (out' = "open" => out = "open")
        /\ (chan = "closed" => chan' = "closed") /\ (Cut => Cut')
    BY DEF TerminalIInv, TerminalTypeOK, SpawnOrder, Cut, Unwinding, outputVars, GracePolls, CloseVars, Sees,
           AfterGroups
  <2>2. QED
    BY <2>1, OutputKept DEF TerminalIInv
<1>4. QED
  BY <1>1, <1>2, <1>3 DEF TerminalIInv, Control

LEMMA RaceOverKeeps == ASSUME TerminalIInv, RaceOver PROVE TerminalIInv'
<1>1. TerminalTypeOK'
  BY DEF TerminalIInv, TerminalTypeOK, outputVars, RaceOver, CloseTo, CloseVars
<1>2. Control'
  BY DEF TerminalIInv, Control, SpawnOrder, ClosedForReason, OpsOver, SessionSeen, NoBoundary, Cut,
         Unwinding, Handed, topLevelExited, NoOp, outputVars, RaceOver, CloseTo, CloseVars
<1>3. OutputOrder'
  <2>1. /\ UNCHANGED <<printed, wire, filter, got, stage>> /\ (out' = "open" => out = "open")
        /\ (chan = "closed" => chan' = "closed") /\ (Cut => Cut')
    BY DEF TerminalIInv, TerminalTypeOK, SpawnOrder, Cut, Unwinding, outputVars, RaceOver, CloseTo, CloseVars
  <2>2. QED
    BY <2>1, OutputKept DEF TerminalIInv
<1>4. QED
  BY <1>1, <1>2, <1>3 DEF TerminalIInv, Control

LEMMA KillSentKeeps == ASSUME TerminalIInv, KillSent PROVE TerminalIInv'
<1>1. TerminalTypeOK'
  BY DEF TerminalIInv, TerminalTypeOK, outputVars, KillSent, Kill, CloseVars
<1>2. Control'
  BY DEF TerminalIInv, Control, SpawnOrder, ClosedForReason, OpsOver, SessionSeen, NoBoundary, Cut,
         Unwinding, Handed, NoOp, outputVars, KillSent, Kill, CloseVars
<1>3. OutputOrder'
  <2>1. /\ UNCHANGED <<printed, wire, filter, got, stage>> /\ (out' = "open" => out = "open")
        /\ (chan = "closed" => chan' = "closed") /\ (Cut => Cut')
    BY DEF TerminalIInv, TerminalTypeOK, SpawnOrder, Cut, Unwinding, outputVars, KillSent, Kill, CloseVars
  <2>2. QED
    BY <2>1, OutputKept DEF TerminalIInv
<1>4. QED
  BY <1>1, <1>2, <1>3 DEF TerminalIInv, Control

LEMMA KillPollsKeeps == ASSUME TerminalIInv, KillPolls PROVE TerminalIInv'
<1>1. TerminalTypeOK'
  <2>1. groups' \subseteq Groups /\ blind' \in BOOLEAN
    BY Zenon DEF TerminalIInv, TerminalTypeOK, KillPolls, Sees
  <2>2. close' \in {"draining", "grace", "race", "kill", "killing", "shoot", "lastrace", "term", "verdict"}
    BY DEF KillPolls
  <2>3. QED
    BY <2>1, <2>2 DEF TerminalIInv, TerminalTypeOK, channelVars, outputVars, KillPolls, CloseTo, CloseVars
<1>2. Control'
  BY DEF TerminalIInv, Control, SpawnOrder, ClosedForReason, OpsOver, SessionSeen, NoBoundary, Cut,
         Unwinding, Handed, Groups, NoOp, outputVars, KillPolls, CloseVars, Sees, KillSettled
<1>3. OutputOrder'
  <2>1. /\ UNCHANGED <<printed, wire, filter, got, stage>> /\ (out' = "open" => out = "open")
        /\ (chan = "closed" => chan' = "closed") /\ (Cut => Cut')
    BY DEF TerminalIInv, TerminalTypeOK, SpawnOrder, Cut, Unwinding, outputVars, KillPolls, CloseVars, Sees,
           KillSettled
  <2>2. QED
    BY <2>1, OutputKept DEF TerminalIInv
<1>4. QED
  BY <1>1, <1>2, <1>3 DEF TerminalIInv, Control

LEMMA KillShootsKeeps == ASSUME TerminalIInv, KillShoots PROVE TerminalIInv'
<1>1. TerminalTypeOK'
  BY DEF TerminalIInv, TerminalTypeOK, outputVars, KillShoots, CloseVars
<1>2. Control'
  BY DEF TerminalIInv, Control, SpawnOrder, ClosedForReason, OpsOver, SessionSeen, NoBoundary, Cut,
         Unwinding, Handed, NoOp, outputVars, KillShoots, CloseVars
<1>3. OutputOrder'
  <2>1. /\ UNCHANGED <<printed, wire, filter, got, stage>> /\ (out' = "open" => out = "open")
        /\ (chan = "closed" => chan' = "closed") /\ (Cut => Cut')
    BY DEF TerminalIInv, TerminalTypeOK, SpawnOrder, Cut, Unwinding, outputVars, KillShoots, CloseVars
  <2>2. QED
    BY <2>1, OutputKept DEF TerminalIInv
<1>4. QED
  BY <1>1, <1>2, <1>3 DEF TerminalIInv, Control

LEMMA KillLooksKeeps == ASSUME TerminalIInv, KillLooks PROVE TerminalIInv'
<1>1. TerminalTypeOK'
  <2>1. groups' \subseteq Groups /\ blind' \in BOOLEAN
    BY Zenon DEF TerminalIInv, TerminalTypeOK, KillLooks, Sees, CloseTo
  <2>2. close' \in {"draining", "grace", "race", "kill", "killing", "shoot", "lastrace", "term", "verdict"}
    BY DEF KillLooks, CloseTo
  <2>3. QED
    BY <2>1, <2>2 DEF TerminalIInv, TerminalTypeOK, channelVars, outputVars, KillLooks, CloseTo, CloseVars
<1>2. Control'
  BY DEF TerminalIInv, Control, SpawnOrder, ClosedForReason, OpsOver, SessionSeen, NoBoundary, Cut,
         Unwinding, Handed, Groups, NoOp, outputVars, KillLooks, CloseTo, CloseVars, Sees
<1>3. OutputOrder'
  <2>1. /\ UNCHANGED <<printed, wire, filter, got, stage>> /\ (out' = "open" => out = "open")
        /\ (chan = "closed" => chan' = "closed") /\ (Cut => Cut')
    BY DEF TerminalIInv, TerminalTypeOK, SpawnOrder, Cut, Unwinding, outputVars, KillLooks, CloseTo,
           CloseVars, Sees
  <2>2. QED
    BY <2>1, OutputKept DEF TerminalIInv
<1>4. QED
  BY <1>1, <1>2, <1>3 DEF TerminalIInv, Control

LEMMA PsThrowsKeeps == ASSUME TerminalIInv, PsThrows PROVE TerminalIInv'
<1>1. TerminalTypeOK'
  BY DEF TerminalIInv, TerminalTypeOK, outputVars, PsThrows, CloseTo, CloseVars, KillSettled
<1>2. Control'
  BY DEF TerminalIInv, Control, SpawnOrder, ClosedForReason, OpsOver, SessionSeen, NoBoundary, Cut,
         Unwinding, Handed, NoOp, outputVars, PsThrows, CloseTo, CloseVars, KillSettled
<1>3. OutputOrder'
  <2>1. /\ UNCHANGED <<printed, wire, filter, got, stage>> /\ (out' = "open" => out = "open")
        /\ (chan = "closed" => chan' = "closed") /\ (Cut => Cut')
    BY DEF TerminalIInv, TerminalTypeOK, SpawnOrder, Cut, Unwinding, outputVars, PsThrows, CloseTo,
           CloseVars, KillSettled
  <2>2. QED
    BY <2>1, OutputKept DEF TerminalIInv
<1>4. QED
  BY <1>1, <1>2, <1>3 DEF TerminalIInv, Control

LEMMA LastRaceOverKeeps == ASSUME TerminalIInv, LastRaceOver PROVE TerminalIInv'
<1>1. TerminalTypeOK'
  BY DEF TerminalIInv, TerminalTypeOK, outputVars, LastRaceOver, CloseTo, CloseVars
<1>2. Control'
  BY DEF TerminalIInv, Control, SpawnOrder, ClosedForReason, OpsOver, SessionSeen, NoBoundary, Cut,
         Unwinding, Handed, NoOp, outputVars, LastRaceOver, CloseTo, CloseVars
<1>3. OutputOrder'
  <2>1. /\ UNCHANGED <<printed, wire, filter, got, stage>> /\ (out' = "open" => out = "open")
        /\ (chan = "closed" => chan' = "closed") /\ (Cut => Cut')
    BY DEF TerminalIInv, TerminalTypeOK, SpawnOrder, Cut, Unwinding, outputVars, LastRaceOver, CloseTo,
           CloseVars
  <2>2. QED
    BY <2>1, OutputKept DEF TerminalIInv
<1>4. QED
  BY <1>1, <1>2, <1>3 DEF TerminalIInv, Control

LEMMA CloseVerdictKeeps == ASSUME TerminalIInv, CloseVerdict PROVE TerminalIInv'
<1>1. TerminalTypeOK'
  BY DEF TerminalIInv, TerminalTypeOK, outputVars, CloseVerdict, CloseVars
<1>2. Control'
  BY DEF TerminalIInv, Control, SpawnOrder, ClosedForReason, OpsOver, SessionSeen, NoBoundary, Cut,
         Unwinding, Handed, topLevelExited, NoOp, outputVars, CloseVerdict, CloseVars
<1>3. OutputOrder'
  <2>1. /\ UNCHANGED <<printed, wire, filter, got, stage>> /\ (out' = "open" => out = "open")
        /\ (chan = "closed" => chan' = "closed") /\ (Cut => Cut')
    BY DEF TerminalIInv, TerminalTypeOK, SpawnOrder, Cut, Unwinding, outputVars, CloseVerdict, CloseVars
  <2>2. QED
    BY <2>1, OutputKept DEF TerminalIInv
<1>4. QED
  BY <1>1, <1>2, <1>3 DEF TerminalIInv, Control

LEMMA StateRemovedKeeps == ASSUME TerminalIInv, StateRemoved PROVE TerminalIInv'
<1>1. TerminalTypeOK'
  BY DEF TerminalIInv, TerminalTypeOK, channelVars, outputVars, StateRemoved
<1>2. Control'
  BY DEF TerminalIInv, Control, SpawnOrder, ClosedForReason, OpsOver, SessionSeen, NoBoundary, Cut,
         Unwinding, Handed, NoOp, channelVars, outputVars, StateRemoved
<1>3. OutputOrder'
  <2>1. /\ UNCHANGED <<printed, wire, filter, got, stage>> /\ (out' = "open" => out = "open")
        /\ (chan = "closed" => chan' = "closed") /\ (Cut => Cut')
    BY DEF TerminalIInv, TerminalTypeOK, SpawnOrder, Cut, Unwinding, channelVars, outputVars, StateRemoved
  <2>2. QED
    BY <2>1, OutputKept DEF TerminalIInv
<1>4. QED
  BY <1>1, <1>2, <1>3 DEF TerminalIInv, Control

LEMMA ReadsPidKeeps == ASSUME TerminalIInv, ReadsFile("pid", "pid", "tty") PROVE TerminalIInv'
<1>1. TerminalTypeOK'
  BY DEF TerminalIInv, TerminalTypeOK, hostVars, channelVars, handleVars, ReadsFile, Spawn, Fails, Kill,
         CommandFails
<1>2. Control'
  BY DEF TerminalIInv, Control, SpawnOrder, ClosedForReason, OpsOver, SessionSeen, NoBoundary, Cut,
         Unwinding, Handed, NoOp, hostVars, channelVars, handleVars, ReadsFile, Spawn, Fails, Kill,
         CommandFails
<1>3. OutputOrder'
  <2>1. /\ UNCHANGED <<printed, wire, filter, got, stage>> /\ (out' = "open" => out = "open")
        /\ (chan = "closed" => chan' = "closed") /\ (Cut => Cut')
    BY DEF TerminalIInv, TerminalTypeOK, SpawnOrder, Cut, Unwinding, hostVars, channelVars, handleVars,
           ReadsFile, Spawn, Fails, Kill, CommandFails
  <2>2. QED
    BY <2>1, OutputKept DEF TerminalIInv
<1>4. QED
  BY <1>1, <1>2, <1>3 DEF TerminalIInv, Control

LEMMA ReadsTtyKeeps == ASSUME TerminalIInv, ReadsFile("tty", "tty", "handle") PROVE TerminalIInv'
<1>1. TerminalTypeOK'
  BY DEF TerminalIInv, TerminalTypeOK, hostVars, channelVars, handleVars, ReadsFile, Spawn, Fails, Kill,
         CommandFails
<1>2. Control'
  BY DEF TerminalIInv, Control, SpawnOrder, ClosedForReason, OpsOver, SessionSeen, NoBoundary, Cut,
         Unwinding, Handed, NoOp, hostVars, channelVars, handleVars, ReadsFile, Spawn, Fails, Kill,
         CommandFails
<1>3. OutputOrder'
  <2>1. /\ UNCHANGED <<printed, wire, filter, got, stage>> /\ (out' = "open" => out = "open")
        /\ (chan = "closed" => chan' = "closed") /\ (Cut => Cut')
    BY DEF TerminalIInv, TerminalTypeOK, SpawnOrder, Cut, Unwinding, hostVars, channelVars, handleVars,
           ReadsFile, Spawn, Fails, Kill, CommandFails
  <2>2. QED
    BY <2>1, OutputKept DEF TerminalIInv
<1>4. QED
  BY <1>1, <1>2, <1>3 DEF TerminalIInv, Control

LEMMA OpStartsKeeps == ASSUME TerminalIInv, NEW o \in Ops, OpStarts(o) PROVE TerminalIInv'
<1>1. TerminalTypeOK'
  <2>1. op \in [Ops -> [at : {"none", "look", "kill"}, group : Groups \cup {"none"}]]
    BY DEF TerminalIInv, TerminalTypeOK
  <2>2. op' \in [Ops -> [at : {"none", "look", "kill"}, group : Groups \cup {"none"}]]
    BY <2>1 DEF OpStarts
  <2>3. QED
    BY <2>2 DEF TerminalIInv, TerminalTypeOK, hostVars, channelVars, outputVars, handleVars, OpStarts, OpVars
<1>2. Control'
  BY DEF TerminalIInv, Control, SpawnOrder, ClosedForReason, OpsOver, SessionSeen, NoBoundary, Cut,
         Unwinding, Handed, NoOp, channelVars, outputVars, OpStarts, OpVars
<1>3. OutputOrder'
  <2>1. /\ UNCHANGED <<printed, wire, filter, got, stage>> /\ (out' = "open" => out = "open")
        /\ (chan = "closed" => chan' = "closed") /\ (Cut => Cut')
    BY DEF TerminalIInv, TerminalTypeOK, SpawnOrder, Cut, Unwinding, channelVars, outputVars, OpStarts, OpVars
  <2>2. QED
    BY <2>1, OutputKept DEF TerminalIInv
<1>4. QED
  BY <1>1, <1>2, <1>3 DEF TerminalIInv, Control

LEMMA OpLooksKeeps == ASSUME TerminalIInv, NEW o \in Ops, OpLooks(o) PROVE TerminalIInv'
<1>1. TerminalTypeOK'
  <2>1. op \in [Ops -> [at : {"none", "look", "kill"}, group : Groups \cup {"none"}]] /\ live \subseteq Groups
    BY DEF TerminalIInv, TerminalTypeOK
  <2>2. op' \in [Ops -> [at : {"none", "look", "kill"}, group : Groups \cup {"none"}]]
    BY <2>1, NoOpFacts DEF OpLooks
  <2>3. QED
    BY <2>2 DEF TerminalIInv, TerminalTypeOK, channelVars, outputVars, OpLooks, OpVars
<1>2. Control'
  BY DEF TerminalIInv, Control, SpawnOrder, ClosedForReason, OpsOver, SessionSeen, NoBoundary, Cut,
         Unwinding, Handed, NoOp, channelVars, outputVars, OpLooks, OpVars
<1>3. OutputOrder'
  <2>1. /\ UNCHANGED <<printed, wire, filter, got, stage>> /\ (out' = "open" => out = "open")
        /\ (chan = "closed" => chan' = "closed") /\ (Cut => Cut')
    BY DEF TerminalIInv, TerminalTypeOK, SpawnOrder, Cut, Unwinding, channelVars, outputVars, OpLooks, OpVars
  <2>2. QED
    BY <2>1, OutputKept DEF TerminalIInv
<1>4. QED
  BY <1>1, <1>2, <1>3 DEF TerminalIInv, Control

LEMMA OpSignalsKeeps == ASSUME TerminalIInv, NEW o \in Ops, OpSignals(o) PROVE TerminalIInv'
<1>1. TerminalTypeOK'
  BY NoOpFacts DEF TerminalIInv, TerminalTypeOK, channelVars, outputVars, OpSignals, OpVars
<1>2. Control'
  BY DEF TerminalIInv, Control, SpawnOrder, ClosedForReason, OpsOver, SessionSeen, NoBoundary, Cut,
         Unwinding, Handed, NoOp, channelVars, outputVars, OpSignals, OpVars
<1>3. OutputOrder'
  <2>1. /\ UNCHANGED <<printed, wire, filter, got, stage>> /\ (out' = "open" => out = "open")
        /\ (chan = "closed" => chan' = "closed") /\ (Cut => Cut')
    BY DEF TerminalIInv, TerminalTypeOK, SpawnOrder, Cut, Unwinding, channelVars, outputVars, OpSignals, OpVars
  <2>2. QED
    BY <2>1, OutputKept DEF TerminalIInv
<1>4. QED
  BY <1>1, <1>2, <1>3 DEF TerminalIInv, Control

LEMMA OpAbortedKeeps == ASSUME TerminalIInv, NEW o \in Ops, OpAborted(o) PROVE TerminalIInv'
<1>1. TerminalTypeOK'
  BY NoOpFacts DEF TerminalIInv, TerminalTypeOK, channelVars, outputVars, OpAborted, OpVars
<1>2. Control'
  BY DEF TerminalIInv, Control, SpawnOrder, ClosedForReason, OpsOver, SessionSeen, NoBoundary, Cut,
         Unwinding, Handed, NoOp, channelVars, outputVars, OpAborted, OpVars
<1>3. OutputOrder'
  <2>1. /\ UNCHANGED <<printed, wire, filter, got, stage>> /\ (out' = "open" => out = "open")
        /\ (chan = "closed" => chan' = "closed") /\ (Cut => Cut')
    BY DEF TerminalIInv, TerminalTypeOK, SpawnOrder, Cut, Unwinding, channelVars, outputVars, OpAborted, OpVars
  <2>2. QED
    BY <2>1, OutputKept DEF TerminalIInv
<1>4. QED
  BY <1>1, <1>2, <1>3 DEF TerminalIInv, Control

----------------------------------------------------------------------------
(* What the filter does with the bytes it is given.                         *)

LEMMA MarkerFacts == Marker \in Seq(Bytes) /\ Len(Marker) = 2 /\ Marker[1] = "a" /\ Marker[2] = "b"
BY TerminalAssumption DEF Marker

LEMMA OffsetFacts ==
  ASSUME NEW b \in Seq(Bytes), NEW i
  PROVE  i \in Offsets(b) <=> i \in 1..(Len(b) - 1) /\ b[i] = "a" /\ b[i + 1] = "b"
<1>1. Len(b) \in Nat /\ Len(b) + 1 - Len(Marker) = Len(b) - 1
  BY MarkerFacts
<1>2. CASE i \in 1..(Len(b) - 1)
  <2> DEFINE w == SubSeq(b, i, i + 1)
  <2>1. i \in Int /\ i + 1 \in Int /\ i <= i + 1 /\ (i + 1) - i + 1 = 2 /\ i + Len(Marker) - 1 = i + 1
    BY <1>1, <1>2, MarkerFacts
  <2>2. \A j \in i..(i + 1) : b[j] \in Bytes
    BY <1>1, <1>2, ElementOfSeq
  <2>3. w \in Seq(Bytes) /\ Len(w) = 2 /\ \A j \in 1..2 : w[j] = b[i + j - 1]
    BY <2>1, <2>2, SubSeqProperties
  <2>4. w[1] = b[i] /\ w[2] = b[i + 1]
    BY <1>2, <2>1, <2>3
  <2>5. i \in Offsets(b) <=> w = Marker
    BY <1>1, <1>2, <2>1 DEF Offsets
  <2> HIDE DEF w
  <2>6. w = Marker <=> w[1] = "a" /\ w[2] = "b"
    <3>1. ASSUME w[1] = "a", w[2] = "b" PROVE w = Marker
      BY <2>3, <3>1, MarkerFacts, SeqEqual
    <3>2. QED
      BY <3>1, MarkerFacts
  <2>7. QED
    BY <1>2, <2>4, <2>5, <2>6
<1>3. CASE i \notin 1..(Len(b) - 1)
  BY <1>1, <1>3 DEF Offsets
<1>4. QED
  BY <1>2, <1>3

LEMMA PieceFacts ==
  ASSUME NEW b \in Seq(Bytes), NEW m \in Nat \ {0}, NEW n \in 0..Len(b), m <= n + 1
  PROVE  /\ SubSeq(b, m, n) \in Seq(Bytes) /\ Len(SubSeq(b, m, n)) = n - m + 1
         /\ \A i \in 1..(n - m + 1) : SubSeq(b, m, n)[i] = b[m + i - 1]
<1>1. m \in Int /\ n \in Int /\ Len(b) \in Nat
  OBVIOUS
<1>2. \A i \in m..n : b[i] \in Bytes
  BY <1>1, ElementOfSeq
<1>3. /\ SubSeq(b, m, n) \in Seq(Bytes) /\ Len(SubSeq(b, m, n)) = IF m <= n THEN n - m + 1 ELSE 0
      /\ \A i \in 1..(n - m + 1) : SubSeq(b, m, n)[i] = b[m + i - 1]
  BY <1>1, <1>2, SubSeqProperties
<1>4. QED
  BY <1>1, <1>3

LEMMA MinFacts == ASSUME NEW S \in SUBSET Int, NEW m \in S, \A x \in S : m <= x PROVE Min(S) = m
<1>1. \E x \in S : \A y \in S : x =< y
  OBVIOUS
<1>2. Min(S) \in S /\ \A y \in S : Min(S) =< y
  BY <1>1, Zenon DEF Min
<1>3. PICK x \in Int : x = Min(S)
  BY <1>2
<1>4. x <= m /\ m <= x /\ m \in Int
  BY <1>2, <1>3
<1>5. QED
  BY <1>3, <1>4

\* The bytes of a chunk behind what was retained, and the rest of the wire.
Joined(b, r, p, w, n) ==
  /\ b \in Seq(Bytes) /\ Len(b) = Len(p) + n /\ Len(b) \in Nat
  /\ \A i \in 1..Len(b) : b[i] = Ahead(p, w, i)
  /\ r \in Seq(Bytes) /\ Len(r) = Len(w) - n /\ Len(r) \in Nat
  /\ \A i \in 1..Len(r) : r[i] = Ahead(p, w, Len(b) + i)

LEMMA ChunkJoined ==
  ASSUME NEW p \in Seq(Bytes), NEW w \in Seq(Bytes), NEW n \in 1..Len(w)
  PROVE  Joined(p \o SubSeq(w, 1, n), SubSeq(w, n + 1, Len(w)), p, w, n)
<1>1. PICK c : c = SubSeq(w, 1, n)
  OBVIOUS
<1>2. PICK r : r = SubSeq(w, n + 1, Len(w))
  OBVIOUS
<1>3. PICK b : b = p \o c
  OBVIOUS
<1>4. Len(p) \in Nat /\ Len(w) \in Nat /\ n \in Nat /\ n <= Len(w)
  OBVIOUS
<1>5. c \in Seq(Bytes) /\ Len(c) = n /\ \A i \in 1..n : c[i] = w[i]
  BY <1>1, <1>4, PieceFacts
<1>6. r \in Seq(Bytes) /\ Len(r) = Len(w) - n /\ \A i \in 1..(Len(w) - n) : r[i] = w[n + i]
  <2>1. n + 1 \in Nat \ {0} /\ Len(w) \in 0..Len(w) /\ n + 1 <= Len(w) + 1 /\ Len(w) - (n + 1) + 1 = Len(w) - n
    BY <1>4, SMTT(60)
  <2>2. /\ r \in Seq(Bytes) /\ Len(r) = Len(w) - (n + 1) + 1
        /\ \A i \in 1..(Len(w) - (n + 1) + 1) : r[i] = w[(n + 1) + i - 1]
    BY <1>2, <2>1, PieceFacts
  <2>3. QED
    BY <1>4, <2>1, <2>2
<1>7. /\ b \in Seq(Bytes) /\ Len(b) = Len(p) + n
      /\ \A i \in 1..(Len(p) + n) : b[i] = IF i <= Len(p) THEN p[i] ELSE c[i - Len(p)]
  <2>1. /\ b \in Seq(Bytes) /\ Len(b) = Len(p) + Len(c)
        /\ \A i \in 1..(Len(p) + Len(c)) : b[i] = IF i <= Len(p) THEN p[i] ELSE c[i - Len(p)]
    <3>1. c \in Seq(Bytes)
      BY <1>5
    <3>2. QED
      BY <1>3, <3>1, ConcatProperties, Zenon
  <2>2. QED
    BY <1>5, <2>1, Zenon
<1>8. \A i \in 1..Len(b) : b[i] = Ahead(p, w, i)
  <2> SUFFICES ASSUME NEW i \in 1..(Len(p) + n) PROVE b[i] = Ahead(p, w, i)
    BY <1>7
  <2>1. i <= Len(p) \/ i - Len(p) \in 1..n
    BY <1>4
  <2>2. QED
    BY <1>5, <1>7, <2>1 DEF Ahead
<1>9. \A i \in 1..Len(r) : r[i] = Ahead(p, w, Len(b) + i)
  <2> SUFFICES ASSUME NEW i \in 1..(Len(w) - n) PROVE r[i] = Ahead(p, w, (Len(p) + n) + i)
    BY <1>6, <1>7
  <2>1. ~((Len(p) + n) + i <= Len(p)) /\ ((Len(p) + n) + i) - Len(p) = n + i
    BY <1>4
  <2>2. QED
    BY <1>6, <2>1 DEF Ahead
<1>10. Len(b) \in Nat /\ Len(r) \in Nat
  BY <1>4, <1>6, <1>7
<1>11. Joined(b, r, p, w, n)
  BY <1>6, <1>7, <1>8, <1>9, <1>10, Zenon DEF Joined
<1>12. QED
  BY <1>1, <1>2, <1>3, <1>11, Zenon

LEMMA CutSum == ASSUME NEW x \in Nat, NEW y \in Nat, NEW n \in Nat PROVE (x + n) + (y - n) = x + y
OBVIOUS

LEMMA FindSum ==
  ASSUME NEW x \in Nat, NEW y \in Nat, NEW z \in Nat, NEW k \in Nat, x + y = k + 2 + z
  PROVE  (x - k - 2) + y = z /\ z <= z
OBVIOUS

\* What the filter writes of b is, with the rest r, the output s.
Found(b, r, s) ==
  LET t == SubSeq(b, Min(Offsets(b)) + Len(Marker), Len(b)) IN
  Offsets(b) # {} /\ t \in Seq(Bytes) /\ Begins(t, r, s) /\ Len(t) + Len(r) = Len(s)

\* What the filter retains of b is, with the rest r, before the marker and the output s.
Kept(b, r, s) ==
  /\ Offsets(b) = {} /\ Retained(b) \in Seq(Bytes) /\ Len(Retained(b)) = 1
  /\ \E j \in 0..Len(r) : MarkerAt(Retained(b), r, s, j)

\* The chunk holds the marker: what is behind it is the beginning of the output.
LEMMA FilterFinds ==
  ASSUME NEW p \in Seq(Bytes), NEW w \in Seq(Bytes), NEW s \in Seq(Bytes), NEW n \in Nat, NEW k \in Nat,
         NEW b, NEW r, Joined(b, r, p, w, n), MarkerAt(p, w, s, k), k + 2 <= Len(b)
  PROVE  Found(b, r, s)
<1>1. /\ b \in Seq(Bytes) /\ r \in Seq(Bytes) /\ Len(b) \in Nat /\ Len(r) \in Nat /\ Len(s) \in Nat
      /\ Len(b) + Len(r) = k + 2 + Len(s)
  <2>1. Len(p) \in Nat /\ Len(w) \in Nat /\ Len(s) \in Nat
    OBVIOUS
  <2>2. /\ b \in Seq(Bytes) /\ r \in Seq(Bytes) /\ Len(b) \in Nat /\ Len(r) \in Nat
        /\ Len(b) = Len(p) + n /\ Len(r) = Len(w) - n
    BY Zenon DEF Joined
  <2>3. Len(p) + Len(w) = k + 2 + Len(s)
    BY Zenon DEF MarkerAt
  <2>4. Len(b) + Len(r) = k + 2 + Len(s)
    <3>1. (Len(p) + n) + (Len(w) - n) = Len(p) + Len(w)
      BY <2>1, CutSum
    <3>2. QED
      BY <2>2, <2>3, <3>1, Zenon
  <2>5. QED
    BY <2>1, <2>2, <2>4
<1>2. /\ \A i \in 1..Len(b) : b[i] = Ahead(p, w, i)
      /\ \A i \in 1..Len(r) : r[i] = Ahead(p, w, Len(b) + i)
  BY DEF Joined
<1>3. /\ Ahead(p, w, k + 1) = "a" /\ Ahead(p, w, k + 2) = "b"
      /\ \A i \in 1..k : ~(Ahead(p, w, i) = "a" /\ Ahead(p, w, i + 1) = "b")
      /\ \A i \in 1..Len(s) : Ahead(p, w, k + 2 + i) = s[i]
  BY DEF MarkerAt
<1>4. k + 1 \in Offsets(b)
  <2>1. k + 1 \in 1..(Len(b) - 1) /\ k + 1 \in 1..Len(b) /\ k + 2 \in 1..Len(b) /\ (k + 1) + 1 = k + 2
    BY <1>1
  <2>2. QED
    <3>1. b[k + 1] = "a" /\ b[k + 2] = "b"
      BY <1>2, <1>3, <2>1
    <3>2. QED
      BY <1>1, <2>1, <3>1, OffsetFacts, ZenonT(60)
<1>5. \A i \in Offsets(b) : i \in Int /\ k + 1 <= i
  <2> SUFFICES ASSUME NEW i \in Offsets(b) PROVE i \in Int /\ k + 1 <= i
    OBVIOUS
  <2>1. i \in 1..(Len(b) - 1) /\ b[i] = "a" /\ b[i + 1] = "b"
    BY <1>1, OffsetFacts
  <2>2. Ahead(p, w, i) = "a" /\ Ahead(p, w, i + 1) = "b"
    BY <1>1, <1>2, <2>1
  <2>3. i \notin 1..k
    BY <1>3, <2>2
  <2>4. QED
    BY <1>1, <2>1, <2>3
<1>6. Min(Offsets(b)) = k + 1
  BY <1>4, <1>5, MinFacts
<1>7. PICK t : t = SubSeq(b, k + 3, Len(b))
  OBVIOUS
<1>8. SubSeq(b, Min(Offsets(b)) + Len(Marker), Len(b)) = t
  <2>1. Min(Offsets(b)) + Len(Marker) = k + 3
    BY <1>6, MarkerFacts
  <2>2. QED
    BY <1>7, <2>1
<1>9. t \in Seq(Bytes) /\ Len(t) = Len(b) - k - 2 /\ \A i \in 1..(Len(b) - k - 2) : t[i] = b[k + 2 + i]
  <2>1. k + 3 \in Nat \ {0} /\ Len(b) \in 0..Len(b) /\ k + 3 <= Len(b) + 1 /\ Len(b) - (k + 3) + 1 = Len(b) - k - 2
    BY <1>1
  <2>2. /\ t \in Seq(Bytes) /\ Len(t) = Len(b) - (k + 3) + 1
        /\ \A i \in 1..(Len(b) - (k + 3) + 1) : t[i] = b[(k + 3) + i - 1]
    BY <1>1, <1>7, <2>1, PieceFacts, ZenonT(60)
  <2>3. Len(t) = Len(b) - k - 2
    BY <2>1, <2>2, Zenon
  <2>4. ASSUME NEW i \in 1..(Len(b) - k - 2) PROVE t[i] = b[k + 2 + i]
    <3>1. (k + 3) + i - 1 = k + 2 + i
      BY <1>1
    <3>2. t[i] = b[(k + 3) + i - 1]
      BY <2>1, <2>2, Zenon
    <3>3. QED
      BY <3>1, <3>2, Zenon
  <2>5. QED
    BY <2>2, <2>3, <2>4, Zenon
<1>10. \A i \in 1..(Len(b) - k - 2) : t[i] = s[i]
  <2> SUFFICES ASSUME NEW i \in 1..(Len(b) - k - 2) PROVE t[i] = s[i]
    OBVIOUS
  <2>1. k + 2 + i \in 1..Len(b) /\ i \in 1..Len(s)
    BY <1>1
  <2>2. QED
    BY <1>2, <1>3, <1>9, <2>1
<1>11. \A i \in 1..Len(r) : r[i] = s[(Len(b) - k - 2) + i]
  <2> SUFFICES ASSUME NEW i \in 1..Len(r) PROVE r[i] = s[(Len(b) - k - 2) + i]
    OBVIOUS
  <2>1. (Len(b) - k - 2) + i \in 1..Len(s) /\ k + 2 + ((Len(b) - k - 2) + i) = Len(b) + i
    BY <1>1
  <2>2. Ahead(p, w, k + 2 + ((Len(b) - k - 2) + i)) = s[(Len(b) - k - 2) + i]
    BY <1>3, <2>1
  <2>3. QED
    BY <1>2, <2>1, <2>2
<1>12. Begins(t, r, s) /\ Len(t) + Len(r) = Len(s)
  <2>1. (Len(b) - k - 2) + Len(r) = Len(s) /\ Len(s) <= Len(s)
    BY <1>1, FindSum
  <2>2. Len(t) + Len(r) = Len(s) /\ Len(t) + Len(r) <= Len(s)
    BY <1>9, <2>1, Zenon
  <2>3. (\A i \in 1..Len(t) : t[i] = s[i]) /\ (\A i \in 1..Len(r) : r[i] = s[Len(t) + i])
    BY <1>9, <1>10, <1>11, Zenon
  <2>4. QED
    BY <2>2, <2>3, Zenon DEF Begins
<1>13. QED
  BY <1>4, <1>8, <1>9, <1>12, Zenon DEF Found

\* The chunk ends before the marker does: the byte retained is enough to find it.
LEMMA FilterRetains ==
  ASSUME NEW p \in Seq(Bytes), NEW w \in Seq(Bytes), NEW s \in Seq(Bytes), NEW n \in Nat, NEW k \in Nat,
         NEW b, NEW r, Joined(b, r, p, w, n), MarkerAt(p, w, s, k), ~(k + 2 <= Len(b)), Len(b) >= 1
  PROVE  Kept(b, r, s)
<1>1. /\ b \in Seq(Bytes) /\ r \in Seq(Bytes) /\ Len(b) \in Nat /\ Len(r) \in Nat /\ Len(s) \in Nat
      /\ Len(b) + Len(r) = k + 2 + Len(s)
  <2>1. Len(p) \in Nat /\ Len(w) \in Nat /\ Len(s) \in Nat
    OBVIOUS
  <2>2. /\ b \in Seq(Bytes) /\ r \in Seq(Bytes) /\ Len(b) \in Nat /\ Len(r) \in Nat
        /\ Len(b) = Len(p) + n /\ Len(r) = Len(w) - n
    BY Zenon DEF Joined
  <2>3. Len(p) + Len(w) = k + 2 + Len(s)
    BY Zenon DEF MarkerAt
  <2>4. Len(b) + Len(r) = k + 2 + Len(s)
    <3>1. (Len(p) + n) + (Len(w) - n) = Len(p) + Len(w)
      BY <2>1, CutSum
    <3>2. QED
      BY <2>2, <2>3, <3>1, Zenon
  <2>5. QED
    BY <2>1, <2>2, <2>4
<1>2. /\ \A i \in 1..Len(b) : b[i] = Ahead(p, w, i)
      /\ \A i \in 1..Len(r) : r[i] = Ahead(p, w, Len(b) + i)
  BY DEF Joined
<1>3. /\ Ahead(p, w, k + 1) = "a" /\ Ahead(p, w, k + 2) = "b"
      /\ \A i \in 1..k : ~(Ahead(p, w, i) = "a" /\ Ahead(p, w, i + 1) = "b")
      /\ \A i \in 1..Len(s) : Ahead(p, w, k + 2 + i) = s[i]
  BY DEF MarkerAt
<1>4. \A i : i \notin Offsets(b)
  <2> SUFFICES ASSUME NEW i, i \in Offsets(b) PROVE FALSE
    OBVIOUS
  <2>1. i \in 1..(Len(b) - 1) /\ b[i] = "a" /\ b[i + 1] = "b"
    BY <1>1, OffsetFacts
  <2>2. i \in 1..k /\ i \in 1..Len(b) /\ i + 1 \in 1..Len(b)
    BY <1>1, <2>1
  <2>3. QED
    BY <1>2, <1>3, <2>1, <2>2
<1>5. PICK q : q = Retained(b)
  OBVIOUS
<1>6. q \in Seq(Bytes) /\ Len(q) = 1 /\ q[1] = b[Len(b)]
  <2>1. {Len(b), Len(Marker) - 1} = {Len(b), 1} /\ 1 \in {Len(b), 1} /\ {Len(b), 1} \in SUBSET Int
        /\ \A x \in {Len(b), 1} : 1 <= x
    BY <1>1, MarkerFacts
  <2>2. Min({Len(b), Len(Marker) - 1}) = 1
    BY <2>1, MinFacts
  <2>3. Len(b) - 1 + 1 = Len(b)
    BY <1>1
  <2>4. q = SubSeq(b, Len(b), Len(b))
    BY <1>5, <2>2, <2>3 DEF Retained
  <2>5. Len(b) \in Nat \ {0} /\ Len(b) \in 0..Len(b) /\ Len(b) <= Len(b) + 1 /\ Len(b) - Len(b) + 1 = 1
    BY <1>1
  <2>6. /\ q \in Seq(Bytes) /\ Len(q) = Len(b) - Len(b) + 1
        /\ \A i \in 1..(Len(b) - Len(b) + 1) : q[i] = b[Len(b) + i - 1]
    BY <1>1, <2>4, <2>5, PieceFacts
  <2>7. QED
    BY <1>1, <2>5, <2>6
<1>7. \A i \in 1..(1 + Len(r)) : Ahead(q, r, i) = Ahead(p, w, Len(b) - 1 + i)
  <2> SUFFICES ASSUME NEW i \in 1..(1 + Len(r)) PROVE Ahead(q, r, i) = Ahead(p, w, Len(b) - 1 + i)
    OBVIOUS
  <2>1. CASE i = 1
    <3>1. Ahead(q, r, i) = b[Len(b)]
      BY <1>6, <2>1 DEF Ahead
    <3>2. Len(b) - 1 + i = Len(b) /\ Len(b) \in 1..Len(b)
      BY <1>1, <2>1
    <3>3. QED
      BY <1>2, <3>1, <3>2
  <2>2. CASE i # 1
    <3>1. i - 1 \in 1..Len(r) /\ Len(b) + (i - 1) = Len(b) - 1 + i /\ ~(i <= 1)
      BY <1>1, <2>2
    <3>2. Ahead(q, r, i) = r[i - 1]
      BY <1>6, <3>1 DEF Ahead
    <3>3. QED
      BY <1>2, <3>1, <3>2
  <2>3. QED
    BY <2>1, <2>2
<1>8. PICK j \in Nat : j = k + 1 - Len(b)
  <2>1. k + 1 - Len(b) \in Nat
    BY <1>1
  <2>2. QED
    BY <2>1
<1>9. j \in 0..Len(r) /\ Len(q) + Len(r) = j + 2 + Len(s)
  <2>1. 1 + Len(r) = j + 2 + Len(s) /\ j <= Len(r)
    <3> DEFINE x == Len(b)  y == Len(r)  z == Len(s)
    <3>1. x \in Nat /\ y \in Nat /\ z \in Nat /\ x + y = k + 2 + z /\ j = k + 1 - x
      BY <1>1, <1>8, Zenon
    <3> HIDE DEF x, y, z
    <3>2. 1 + y = j + 2 + z /\ j <= y
      BY <3>1
    <3>3. QED
      BY <3>2 DEF x, y, z
  <2>2. QED
    BY <1>1, <1>6, <2>1
<1>10. Ahead(q, r, j + 1) = "a" /\ Ahead(q, r, j + 2) = "b"
  <2>1. j + 1 \in 1..(1 + Len(r)) /\ j + 2 \in 1..(1 + Len(r)) /\ Len(b) - 1 + (j + 1) = k + 1 /\ Len(b) - 1 + (j + 2) = k + 2
    BY <1>1, <1>8
  <2>2. QED
    BY <1>3, <1>7, <2>1
<1>11. \A i \in 1..j : ~(Ahead(q, r, i) = "a" /\ Ahead(q, r, i + 1) = "b")
  <2> SUFFICES ASSUME NEW i \in 1..j PROVE ~(Ahead(q, r, i) = "a" /\ Ahead(q, r, i + 1) = "b")
    OBVIOUS
  <2>1. /\ i \in 1..(1 + Len(r)) /\ i + 1 \in 1..(1 + Len(r)) /\ Len(b) - 1 + i \in 1..k
        /\ Len(b) - 1 + (i + 1) = (Len(b) - 1 + i) + 1
    BY <1>1, <1>8
  <2>2. QED
    BY <1>3, <1>7, <2>1
<1>12. \A i \in 1..Len(s) : Ahead(q, r, j + 2 + i) = s[i]
  <2> SUFFICES ASSUME NEW i \in 1..Len(s) PROVE Ahead(q, r, j + 2 + i) = s[i]
    OBVIOUS
  <2>1. j + 2 + i \in 1..(1 + Len(r)) /\ Len(b) - 1 + (j + 2 + i) = k + 2 + i
    BY <1>1, <1>8
  <2>2. QED
    BY <1>3, <1>7, <2>1
<1>13. MarkerAt(q, r, s, j)
  BY <1>9, <1>10, <1>11, <1>12 DEF MarkerAt
<1>14. QED
  BY <1>4, <1>5, <1>6, <1>9, <1>13 DEF Kept

\* A reader who has the beginning gets the next bytes.
LEMMA ReaderMoves ==
  ASSUME NEW g \in Seq(Bytes), NEW w \in Seq(Bytes), NEW s \in Seq(Bytes), NEW n \in Nat,
         NEW b, NEW r, Joined(b, r, g, w, n), Begins(g, w, s)
  PROVE  Begins(b, r, s) /\ Len(b) + Len(r) = Len(g) + Len(w)
<1>1. Len(g) \in Nat /\ Len(w) \in Nat /\ Len(s) \in Nat /\ Len(b) \in Nat /\ Len(r) \in Nat
  BY DEF Joined
<1>2. Len(b) + Len(r) = Len(g) + Len(w)
  <2>1. Len(b) = Len(g) + n /\ Len(r) = Len(w) - n
    BY Zenon DEF Joined
  <2>2. (Len(g) + n) + (Len(w) - n) = Len(g) + Len(w)
    BY <1>1, CutSum
  <2>3. QED
    BY <2>1, <2>2, Zenon
<1>3. Len(b) + Len(r) <= Len(s)
  BY <1>2, Zenon DEF Begins
<1>4. \A i \in 1..(Len(g) + Len(w)) : Ahead(g, w, i) = s[i]
  <2> SUFFICES ASSUME NEW i \in 1..(Len(g) + Len(w)) PROVE Ahead(g, w, i) = s[i]
    OBVIOUS
  <2>1. CASE i <= Len(g)
    BY <1>1, <2>1 DEF Ahead, Begins
  <2>2. CASE ~(i <= Len(g))
    <3>1. i - Len(g) \in 1..Len(w) /\ Len(g) + (i - Len(g)) = i
      BY <1>1, <2>2
    <3>2. w[i - Len(g)] = s[Len(g) + (i - Len(g))]
      BY <3>1 DEF Begins
    <3>3. QED
      BY <2>2, <3>1, <3>2 DEF Ahead
  <2>3. QED
    BY <2>1, <2>2
<1>5. /\ \A i \in 1..Len(b) : b[i] = Ahead(g, w, i)
      /\ \A i \in 1..Len(r) : r[i] = Ahead(g, w, Len(b) + i)
  BY DEF Joined
<1>6. \A i \in 1..Len(b) : b[i] = s[i]
  <2>1. \A i \in 1..Len(b) : i \in 1..(Len(g) + Len(w))
    BY <1>1, <1>2
  <2>2. QED
    BY <1>4, <1>5, <2>1, Zenon
<1>7. \A i \in 1..Len(r) : r[i] = s[Len(b) + i]
  <2>1. \A i \in 1..Len(r) : Len(b) + i \in 1..(Len(g) + Len(w))
    BY <1>1, <1>2
  <2>2. QED
    BY <1>4, <1>5, <2>1, Zenon
<1>8. QED
  BY <1>2, <1>3, <1>6, <1>7, Zenon DEF Begins

LEMMA BeginsAlone ==
  ASSUME NEW g \in Seq(Bytes), NEW w \in Seq(Bytes), NEW s \in Seq(Bytes), Begins(g, w, s)
  PROVE  Begins(g, <<>>, s)
<1>1. Len(g) \in Nat /\ Len(w) \in Nat /\ Len(s) \in Nat /\ Len(<<>>) = 0 /\ Len(g) + Len(w) <= Len(s)
  BY DEF Begins
<1>2. \A i \in 1..Len(g) : g[i] = s[i]
  BY DEF Begins
<1>3. QED
  BY <1>1, <1>2 DEF Begins

LEMMA BeginsPrefix ==
  ASSUME NEW g \in Seq(Bytes), NEW s \in Seq(Bytes), Begins(g, <<>>, s)
  PROVE  IsPrefix(g, s)
<1>1. Len(g) \in Nat /\ Len(s) \in Nat /\ Len(g) <= Len(s) /\ \A i \in 1..Len(g) : g[i] = s[i]
  BY DEF Begins
<1>2. PICK x : x = SubSeq(g, 1, Len(g))
  OBVIOUS
<1>3. PICK y : y = SubSeq(s, 1, Len(g))
  OBVIOUS
<1>4. Len(g) \in 0..Len(g) /\ Len(g) \in 0..Len(s) /\ 1 <= Len(g) + 1 /\ 1 \in Nat \ {0} /\ Len(g) - 1 + 1 = Len(g)
  BY <1>1
<1>5. x \in Seq(Bytes) /\ Len(x) = Len(g) /\ \A i \in 1..Len(g) : x[i] = g[i]
  BY <1>2, <1>4, PieceFacts
<1>6. y \in Seq(Bytes) /\ Len(y) = Len(g) /\ \A i \in 1..Len(g) : y[i] = s[i]
  BY <1>3, <1>4, PieceFacts
<1>7. x = y
  BY <1>1, <1>5, <1>6, SeqEqual
<1>8. QED
  BY <1>1, <1>2, <1>3, <1>7 DEF IsPrefix

LEMMA PumpKeeps == ASSUME TerminalIInv, Pump PROVE TerminalIInv'
<1>1. PICK n \in 1..Len(wire) : Push(SubSeq(wire, 1, n)) /\ wire' = SubSeq(wire, n + 1, Len(wire))
  BY DEF Pump
<1>2. UNCHANGED <<conn, aborted, spawn, hostVars, chan, exit, printed, out, handleVars>> /\ wire # <<>>
  BY DEF Pump
<1> DEFINE c == SubSeq(wire, 1, n)
           r == SubSeq(wire, n + 1, Len(wire))
           p == filter.pending
<1>3. /\ wire \in Seq(Bytes) /\ p \in Seq(Bytes) /\ got \in Seq(Bytes) /\ printed \in Seq(Bytes)
      /\ filter \in [pending : Seq(Bytes), published : BOOLEAN] /\ n \in Nat /\ Len(wire) \in Nat
  BY DEF TerminalIInv, TerminalTypeOK
<1>4. stage = "program"
  BY <1>2 DEF TerminalIInv, OutputOrder
<1>5. Joined(p \o c, r, p, wire, n) /\ Joined(got \o c, r, got, wire, n)
  BY <1>3, ChunkJoined
<1>6. r \in Seq(Bytes) /\ p \o c \in Seq(Bytes) /\ got \o c \in Seq(Bytes)
  BY <1>5, Zenon DEF Joined
<1>7. Push(c) /\ wire' = r
  BY <1>1
<1> HIDE DEF c, r
<1>8. Control'
  BY <1>2 DEF TerminalIInv, Control, SpawnOrder, ClosedForReason, OpsOver, SessionSeen, NoBoundary, Cut, Unwinding,
              Handed, hostVars, handleVars
<1>9. CASE filter.published
  <2>1. filter' = filter /\ got' = IF out = "open" THEN got \o c ELSE got
    BY <1>7, <1>9 DEF Push, Written
  <2>2. CASE out = "open"
    <3>1. got' = got \o c
      BY <2>1, <2>2
    <3>2. Begins(got, wire, printed) /\ (chan # "closed" => Len(got) + Len(wire) = Len(printed))
      BY <1>9, <2>2 DEF TerminalIInv, OutputOrder
    <3>3. Begins(got', r, printed) /\ Len(got') + Len(r) = Len(got) + Len(wire) /\ got' \in Seq(Bytes)
      <4>1. PICK x : x = got \o c
        OBVIOUS
      <4>2. Joined(x, r, got, wire, n) /\ x \in Seq(Bytes)
        BY <1>5, <1>6, <4>1, Zenon
      <4>3. Begins(x, r, printed) /\ Len(x) + Len(r) = Len(got) + Len(wire)
        BY <1>3, <3>2, <4>2, ReaderMoves
      <4>4. QED
        BY <3>1, <4>1, <4>2, <4>3, Zenon
    <3>4. Begins(got', <<>>, printed)
      BY <1>3, <1>6, <3>3, BeginsAlone
    <3>5. OutputOrder'
      BY <1>2, <1>4, <1>7, <1>9, <2>1, <3>2, <3>3, <3>4 DEF TerminalIInv, OutputOrder, hostVars
    <3>6. TerminalTypeOK'
      BY <1>2, <1>6, <1>7, <2>1, <3>3 DEF TerminalIInv, TerminalTypeOK, hostVars, handleVars
    <3>7. QED
      BY <1>8, <3>5, <3>6 DEF TerminalIInv, Control
  <2>3. CASE out # "open"
    <3>1. OutputOrder'
      BY <1>2, <1>4, <1>9, <2>1, <2>3 DEF TerminalIInv, OutputOrder, hostVars
    <3>2. TerminalTypeOK'
      BY <1>2, <1>6, <1>7, <2>1, <2>3 DEF TerminalIInv, TerminalTypeOK, hostVars, handleVars
    <3>3. QED
      BY <1>8, <3>1, <3>2 DEF TerminalIInv, Control
  <2>4. QED
    BY <2>2, <2>3
<1>10. CASE ~filter.published
  <2>1. got = <<>> /\ Len(p) <= 1
    BY <1>10 DEF TerminalIInv, OutputOrder
  <2>2. PICK k \in 0..Len(wire) : MarkerAt(p, wire, printed, k)
    BY <1>2, <1>4, <1>10 DEF TerminalIInv, OutputOrder
  <2> DEFINE b == p \o c
  <2>3. Joined(b, r, p, wire, n) /\ Len(b) \in Nat /\ Len(b) >= 1 /\ k \in Nat /\ Len(r) \in Nat
    <3>1. Len(b) = Len(p) + n /\ Len(p) \in Nat
      BY <1>3, <1>5 DEF Joined
    <3>2. QED
      BY <1>3, <1>5, <1>6, <3>1
  <2>4. IF Offsets(b) = {}
        THEN filter' = [filter EXCEPT !.pending = Retained(b)] /\ UNCHANGED got
        ELSE /\ filter' = [pending |-> <<>>, published |-> TRUE]
             /\ Written(SubSeq(b, Min(Offsets(b)) + Len(Marker), Len(b)))
    BY <1>7, <1>10 DEF Push
  <2> HIDE DEF b, p
  <2>5. CASE k + 2 <= Len(b)
    <3>1. PICK t : t = SubSeq(b, Min(Offsets(b)) + Len(Marker), Len(b))
      OBVIOUS
    <3>2. Offsets(b) # {} /\ t \in Seq(Bytes) /\ Begins(t, r, printed) /\ Len(t) + Len(r) = Len(printed)
      <4>1. Found(b, r, printed)
        BY <1>3, <2>2, <2>3, <2>5, FilterFinds
      <4>2. QED
        BY <3>1, <4>1, Zenon DEF Found
    <3>3. filter' = [pending |-> <<>>, published |-> TRUE] /\ got' = IF out = "open" THEN got \o t ELSE got
      BY <2>4, <3>1, <3>2 DEF Written
    <3>4. got \o t = t
      BY <2>1, <3>2, ConcatEmptySeq
    <3>5. filter'.pending = <<>> /\ filter'.published = TRUE /\ filter' \in [pending : Seq(Bytes), published : BOOLEAN]
      BY <3>3
    <3>6. Begins(t, <<>>, printed)
      BY <1>3, <1>6, <3>2, BeginsAlone
    <3>7. CASE out = "open"
      <4>1. got' = t
        BY <3>3, <3>4, <3>7
      <4>2. OutputOrder'
        BY <1>2, <1>4, <1>7, <3>2, <3>5, <3>6, <4>1 DEF OutputOrder, hostVars
      <4>3. TerminalTypeOK'
        BY <1>2, <1>6, <1>7, <3>2, <3>5, <4>1 DEF TerminalIInv, TerminalTypeOK, hostVars, handleVars
      <4>4. QED
        BY <1>8, <4>2, <4>3 DEF TerminalIInv, Control
    <3>8. CASE out # "open"
      <4>1. got' = got
        BY <3>3, <3>8
      <4>2. OutputOrder'
        BY <1>2, <1>4, <3>5, <3>8, <4>1 DEF TerminalIInv, OutputOrder, hostVars
      <4>3. TerminalTypeOK'
        BY <1>2, <1>6, <1>7, <3>5, <4>1 DEF TerminalIInv, TerminalTypeOK, hostVars, handleVars
      <4>4. QED
        BY <1>8, <4>2, <4>3 DEF TerminalIInv, Control
    <3>9. QED
      BY <3>7, <3>8
  <2>6. CASE ~(k + 2 <= Len(b))
    <3>1. PICK q : q = Retained(b)
      OBVIOUS
    <3>2. Offsets(b) = {} /\ q \in Seq(Bytes) /\ Len(q) = 1 /\ \E j \in 0..Len(r) : MarkerAt(q, r, printed, j)
      <4>1. Kept(b, r, printed)
        BY <1>3, <2>2, <2>3, <2>6, FilterRetains
      <4>2. QED
        BY <3>1, <4>1, Zenon DEF Kept
    <3>3. filter' = [filter EXCEPT !.pending = q] /\ got' = got
      BY <2>4, <3>1, <3>2
    <3>4. filter'.pending = q /\ filter'.published = filter.published /\ filter' \in [pending : Seq(Bytes), published : BOOLEAN]
      BY <1>3, <3>2, <3>3
    <3>5. OutputOrder'
      <4>1. ~filter'.published /\ Len(filter'.pending) <= 1 /\ got' = <<>> /\ stage' = "program"
        <5>1. ~filter'.published
          BY <1>10, <3>4, Zenon
        <5>2. Len(filter'.pending) = 1
          BY <3>2, <3>4, Zenon
        <5>3. got' = <<>> /\ stage' = "program"
          BY <1>2, <1>4, <2>1, <3>3 DEF hostVars
        <5>4. QED
          BY <5>1, <5>2, <5>3
      <4>2. \E j \in 0..Len(wire') : MarkerAt(filter'.pending, wire', printed', j)
        BY <1>2, <1>7, <3>2, <3>4
      <4>3. Begins(got', <<>>, printed')
        BY <1>2, <3>3 DEF TerminalIInv, OutputOrder
      <4>4. QED
        BY <4>1, <4>2, <4>3 DEF OutputOrder
    <3>6. TerminalTypeOK'
      BY <1>2, <1>6, <1>7, <3>3, <3>4 DEF TerminalIInv, TerminalTypeOK, hostVars, handleVars
    <3>7. QED
      BY <1>8, <3>5, <3>6 DEF TerminalIInv, Control
  <2>7. QED
    BY <2>5, <2>6
<1>11. QED
  BY <1>9, <1>10

LEMMA ExecOpensKeeps == ASSUME TerminalIInv, ExecOpens PROVE TerminalIInv'
<1>1. TerminalTypeOK'
  BY DEF TerminalIInv, TerminalTypeOK, Groups, ExecOpens, outputVars, handleVars
<1>2. Control'
  BY DEF TerminalIInv, Control, SpawnOrder, ClosedForReason, OpsOver, SessionSeen, NoBoundary, Cut, Unwinding, Handed,
         ExecOpens, handleVars
<1>3. OutputOrder'
  <2>1. stage # "program" /\ stage' # "program"
    BY DEF TerminalIInv, SpawnOrder, ExecOpens
  <2>2. filter' = filter /\ printed' = printed /\ wire' = wire /\ got' = got
    BY DEF ExecOpens, outputVars
  <2>3. QED
    BY <2>1, <2>2 DEF TerminalIInv, OutputOrder
<1>4. QED
  BY <1>1, <1>2, <1>3 DEF TerminalIInv, Control

\* The marker behind noise that does not hold it.
LEMMA MarkerPrinted ==
  ASSUME NEW n \in Noises
  PROVE  /\ (<<>> \o n) \o Marker \in Seq(Bytes)
         /\ \E k \in 0..Len((<<>> \o n) \o Marker) : MarkerAt(<<>>, (<<>> \o n) \o Marker, <<>>, k)
<1>1. n \in Seq(Bytes) /\ \A i : i \notin Offsets(n)
  BY TerminalAssumption
<1>2. <<>> \o n = n /\ Len(n) \in Nat
  BY <1>1, ConcatEmptySeq
<1>3. PICK w : w = n \o Marker
  OBVIOUS
<1>4. PICK k \in Nat : k = Len(n)
  BY <1>2
<1>5. w \in Seq(Bytes) /\ Len(w) = k + 2 /\ \A i \in 1..(k + 2) : w[i] = IF i <= k THEN n[i] ELSE Marker[i - k]
  <2>1. /\ w \in Seq(Bytes) /\ Len(w) = Len(n) + Len(Marker)
        /\ \A i \in 1..(Len(n) + Len(Marker)) : w[i] = IF i <= Len(n) THEN n[i] ELSE Marker[i - Len(n)]
    BY <1>1, <1>3, MarkerFacts, ConcatProperties, Zenon
  <2>2. Len(n) = k /\ Len(Marker) = 2
    BY <1>4, MarkerFacts
  <2>3. QED
    BY <2>1, <2>2, Zenon
<1>6. \A i \in 1..(k + 2) : Ahead(<<>>, w, i) = w[i]
  <2>1. \A i \in 1..(k + 2) : ~(i <= Len(<<>>)) /\ i - Len(<<>>) = i
    OBVIOUS
  <2>2. QED
    BY <2>1, Zenon DEF Ahead
<1>7. Ahead(<<>>, w, k + 1) = "a" /\ Ahead(<<>>, w, k + 2) = "b"
  <2>1. /\ k + 1 \in 1..(k + 2) /\ k + 2 \in 1..(k + 2) /\ ~(k + 1 <= k) /\ ~(k + 2 <= k)
        /\ (k + 1) - k = 1 /\ (k + 2) - k = 2
    OBVIOUS
  <2>2. w[k + 1] = Marker[1] /\ w[k + 2] = Marker[2]
    BY <1>5, <2>1
  <2>3. QED
    BY <1>6, <2>1, <2>2, MarkerFacts
<1>8. \A i \in 1..k : ~(Ahead(<<>>, w, i) = "a" /\ Ahead(<<>>, w, i + 1) = "b")
  <2> SUFFICES ASSUME NEW i \in 1..k, Ahead(<<>>, w, i) = "a", Ahead(<<>>, w, i + 1) = "b" PROVE FALSE
    OBVIOUS
  <2>1. i \in 1..(k + 2) /\ i + 1 \in 1..(k + 2) /\ i <= k
    OBVIOUS
  <2>2. i # k
    <3>1. Ahead(<<>>, w, k + 1) # "b"
      BY <1>7
    <3>2. QED
      BY <3>1
  <2>3. i + 1 <= k /\ i \in 1..(k - 1)
    BY <2>2
  <2>4. n[i] = "a" /\ n[i + 1] = "b"
    BY <1>5, <1>6, <2>1, <2>3
  <2>5. QED
    BY <1>1, <1>4, <2>3, <2>4, OffsetFacts
<1>9. MarkerAt(<<>>, w, <<>>, k) /\ k \in 0..Len(w)
  <2>1. Len(<<>>) = 0 /\ 0 + (k + 2) = k + 2 + 0 /\ k \in 0..(k + 2) /\ 1..0 = {}
    OBVIOUS
  <2>2. QED
    BY <1>5, <1>7, <1>8, <2>1 DEF MarkerAt
<1>10. QED
  BY <1>2, <1>3, <1>5, <1>9, Zenon

LEMMA WrapperMarksKeeps == ASSUME TerminalIInv, WrapperMarks PROVE TerminalIInv'
<1>1. PICK n \in Noises : wire' = IF chan # "closed" THEN (wire \o n) \o Marker ELSE wire
  BY DEF WrapperMarks
<1>2. printed = <<>> /\ wire = <<>> /\ filter.pending = <<>> /\ ~filter.published /\ got = <<>> /\ "leader" \in live
  BY DEF TerminalIInv, OutputOrder, WrapperMarks
<1>3. /\ UNCHANGED <<conn, aborted, spawn, script, files, live, chan, exit, printed, outputVars, handleVars>>
      /\ stage = "wrapper" /\ stage' = "program"
  BY DEF WrapperMarks
<1>4. Control'
  BY <1>2, <1>3 DEF TerminalIInv, Control, SpawnOrder, ClosedForReason, OpsOver, SessionSeen, NoBoundary, Cut, Unwinding, Handed,
                    handleVars
<1>5. CASE chan = "closed"
  <2>1. wire' = <<>>
    BY <1>1, <1>2, <1>5
  <2>2. Cut'
    BY <1>2, <1>3, <1>5 DEF TerminalIInv, ClosedForReason, Cut, Unwinding, handleVars
  <2>3. OutputOrder'
    BY <1>2, <1>3, <1>5, <2>1, <2>2 DEF TerminalIInv, OutputOrder, outputVars
  <2>4. TerminalTypeOK'
    BY <1>2, <1>3, <2>1 DEF TerminalIInv, TerminalTypeOK, outputVars, handleVars
  <2>5. QED
    BY <1>4, <2>3, <2>4 DEF TerminalIInv, Control
<1>6. CASE chan # "closed"
  <2>1. wire' \in Seq(Bytes) /\ \E k \in 0..Len(wire') : MarkerAt(<<>>, wire', <<>>, k)
    BY <1>1, <1>2, <1>6, MarkerPrinted, Zenon
  <2>2. filter' = filter /\ printed' = printed /\ got' = got /\ out' = out
    BY <1>3 DEF outputVars
  <2>3. OutputOrder'
    <3>1. \E k \in 0..Len(wire') : MarkerAt(filter'.pending, wire', printed', k)
      BY <1>2, <2>1, <2>2, Zenon
    <3>2. QED
      BY <1>2, <1>3, <2>2, <3>1 DEF TerminalIInv, OutputOrder
  <2>4. TerminalTypeOK'
    BY <1>3, <2>1 DEF TerminalIInv, TerminalTypeOK, outputVars, handleVars
  <2>5. QED
    BY <1>4, <2>3, <2>4 DEF TerminalIInv, Control
<1>7. QED
  BY <1>5, <1>6

\* One more byte of the program.
LEMMA ByteAhead ==
  ASSUME NEW p \in Seq(Bytes), NEW w \in Seq(Bytes), NEW s \in Seq(Bytes), NEW b \in Bytes, NEW k \in 0..Len(w),
         MarkerAt(p, w, s, k)
  PROVE  \E j \in 0..Len(Append(w, b)) : MarkerAt(p, Append(w, b), Append(s, b), j)
<1>1. PICK v : v = Append(w, b)
  OBVIOUS
<1>2. PICK t : t = Append(s, b)
  OBVIOUS
<1>3. v \in Seq(Bytes) /\ Len(v) = Len(w) + 1 /\ v[Len(w) + 1] = b /\ \A i \in 1..Len(w) : v[i] = w[i]
  BY <1>1, AppendProperties
<1>4. t \in Seq(Bytes) /\ Len(t) = Len(s) + 1 /\ t[Len(s) + 1] = b /\ \A i \in 1..Len(s) : t[i] = s[i]
  BY <1>2, AppendProperties
<1>5. PICK x \in Nat, y \in Nat, z \in Nat : x = Len(p) /\ y = Len(w) /\ z = Len(s)
  OBVIOUS
<1>6. x + y = k + 2 + z /\ k \in Nat
  <2>1. x + y = k + 2 + z
    BY <1>5, Zenon DEF MarkerAt
  <2>2. k \in Nat
    BY <1>5
  <2>3. QED
    BY <2>1, <2>2
<1>7. \A i \in 1..(x + y) : Ahead(p, v, i) = Ahead(p, w, i)
  <2> SUFFICES ASSUME NEW i \in 1..(x + y) PROVE Ahead(p, v, i) = Ahead(p, w, i)
    OBVIOUS
  <2>1. i <= x \/ i - x \in 1..y
    OBVIOUS
  <2>2. QED
    BY <1>3, <1>5, <2>1 DEF Ahead
<1>8. Ahead(p, v, x + y + 1) = b
  <2>1. ~(x + y + 1 <= x) /\ (x + y + 1) - x = y + 1
    OBVIOUS
  <2>2. QED
    BY <1>3, <1>5, <2>1 DEF Ahead
<1>9. Ahead(p, v, k + 1) = "a" /\ Ahead(p, v, k + 2) = "b"
  <2>1. k + 1 \in 1..(x + y) /\ k + 2 \in 1..(x + y)
    BY <1>6
  <2>2. QED
    BY <1>7, <2>1 DEF MarkerAt
<1>10. \A i \in 1..k : ~(Ahead(p, v, i) = "a" /\ Ahead(p, v, i + 1) = "b")
  <2>1. \A i \in 1..k : i \in 1..(x + y) /\ i + 1 \in 1..(x + y)
    BY <1>6
  <2>2. QED
    BY <1>7, <2>1, Zenon DEF MarkerAt
<1>11. \A i \in 1..(z + 1) : Ahead(p, v, k + 2 + i) = t[i]
  <2> SUFFICES ASSUME NEW i \in 1..(z + 1) PROVE Ahead(p, v, k + 2 + i) = t[i]
    OBVIOUS
  <2>1. CASE i = z + 1
    <3>1. k + 2 + i = x + y + 1
      BY <1>6, <2>1
    <3>2. t[i] = b
      BY <1>4, <1>5, <2>1
    <3>3. QED
      BY <1>8, <3>1, <3>2, Zenon
  <2>2. CASE i # z + 1
    <3>1. i \in 1..z /\ k + 2 + i \in 1..(x + y)
      BY <1>6, <2>2
    <3>2. Ahead(p, w, k + 2 + i) = s[i]
      BY <1>5, <3>1, Zenon DEF MarkerAt
    <3>3. t[i] = s[i]
      BY <1>4, <1>5, <3>1
    <3>4. QED
      BY <1>7, <3>1, <3>2, <3>3
  <2>3. QED
    BY <2>1, <2>2
<1>12. /\ Len(p) + Len(v) = k + 2 + Len(t) /\ k \in 0..Len(v)
       /\ \A i \in 1..Len(t) : Ahead(p, v, k + 2 + i) = t[i]
  <2>1. x + (y + 1) = k + 2 + (z + 1) /\ k \in 0..(y + 1)
    BY <1>5, <1>6
  <2>2. QED
    BY <1>3, <1>4, <1>5, <1>11, <2>1, Zenon
<1>13. MarkerAt(p, v, t, k)
  BY <1>9, <1>10, <1>12, Zenon DEF MarkerAt
<1>14. QED
  BY <1>1, <1>2, <1>12, <1>13, Zenon

LEMMA ByteBehind ==
  ASSUME NEW g \in Seq(Bytes), NEW w \in Seq(Bytes), NEW s \in Seq(Bytes), NEW b \in Bytes,
         Begins(g, w, s), Len(g) + Len(w) = Len(s)
  PROVE  Begins(g, Append(w, b), Append(s, b)) /\ Len(g) + Len(Append(w, b)) = Len(Append(s, b))
<1>1. PICK v : v = Append(w, b)
  OBVIOUS
<1>2. PICK t : t = Append(s, b)
  OBVIOUS
<1>3. v \in Seq(Bytes) /\ Len(v) = Len(w) + 1 /\ v[Len(w) + 1] = b /\ \A i \in 1..Len(w) : v[i] = w[i]
  BY <1>1, AppendProperties
<1>4. t \in Seq(Bytes) /\ Len(t) = Len(s) + 1 /\ t[Len(s) + 1] = b /\ \A i \in 1..Len(s) : t[i] = s[i]
  BY <1>2, AppendProperties
<1>5. PICK x \in Nat, y \in Nat, z \in Nat : x = Len(g) /\ y = Len(w) /\ z = Len(s)
  OBVIOUS
<1>6. x + y = z
  BY <1>5
<1>7. \A i \in 1..x : g[i] = t[i]
  <2>1. \A i \in 1..x : i \in 1..z
    BY <1>6
  <2>2. QED
    BY <1>4, <1>5, <2>1, Zenon DEF Begins
<1>8. \A i \in 1..(y + 1) : v[i] = t[x + i]
  <2> SUFFICES ASSUME NEW i \in 1..(y + 1) PROVE v[i] = t[x + i]
    OBVIOUS
  <2>1. CASE i = y + 1
    <3>1. x + i = z + 1
      BY <1>6, <2>1
    <3>2. v[i] = b
      BY <1>3, <1>5, <2>1
    <3>3. t[z + 1] = b
      BY <1>4, <1>5
    <3>4. QED
      BY <3>1, <3>2, <3>3, Zenon
  <2>2. CASE i # y + 1
    <3>1. i \in 1..y /\ x + i \in 1..z
      BY <1>6, <2>2
    <3>2. w[i] = s[x + i]
      BY <1>5, <3>1, Zenon DEF Begins
    <3>3. v[i] = w[i] /\ t[x + i] = s[x + i]
      BY <1>3, <1>4, <1>5, <3>1
    <3>4. QED
      BY <3>2, <3>3
  <2>3. QED
    BY <2>1, <2>2
<1>9. x + (y + 1) = z + 1
  BY <1>6
<1>10. Len(g) + Len(v) = Len(t) /\ Len(g) + Len(v) <= Len(t)
  BY <1>3, <1>4, <1>5, <1>9
<1>11. Begins(g, v, t)
  <2>1. \A i \in 1..Len(g) : g[i] = t[i]
    BY <1>5, <1>7
  <2>2. \A i \in 1..Len(v) : v[i] = t[Len(g) + i]
    BY <1>3, <1>5, <1>8
  <2>3. QED
    BY <1>10, <2>1, <2>2, Zenon DEF Begins
<1>12. QED
  BY <1>1, <1>2, <1>10, <1>11, Zenon

LEMMA ByteAfter ==
  ASSUME NEW g \in Seq(Bytes), NEW s \in Seq(Bytes), NEW b \in Bytes, Begins(g, <<>>, s)
  PROVE  Begins(g, <<>>, Append(s, b))
<1>1. PICK t : t = Append(s, b)
  OBVIOUS
<1>2. t \in Seq(Bytes) /\ Len(t) = Len(s) + 1 /\ \A i \in 1..Len(s) : t[i] = s[i]
  BY <1>1, AppendProperties
<1>3. Len(g) \in Nat /\ Len(s) \in Nat /\ Len(<<>>) = 0 /\ Len(g) <= Len(s)
  BY DEF Begins
<1>4. \A i \in 1..Len(g) : g[i] = t[i]
  BY <1>2, <1>3 DEF Begins
<1>5. Begins(g, <<>>, t)
  BY <1>2, <1>3, <1>4 DEF Begins
<1>6. QED
  BY <1>1, <1>5, Zenon

LEMMA ProgramWritesKeeps == ASSUME TerminalIInv, ProgramWrites PROVE TerminalIInv'
<1>1. PICK b \in Bytes : printed' = Append(printed, b) /\ wire' = Append(wire, b)
  BY DEF ProgramWrites
<1>2. /\ stage = "program" /\ chan # "closed"
      /\ UNCHANGED <<conn, aborted, spawn, hostVars, chan, exit, outputVars, handleVars>>
  BY DEF ProgramWrites
<1>3. /\ wire \in Seq(Bytes) /\ filter.pending \in Seq(Bytes) /\ got \in Seq(Bytes) /\ printed \in Seq(Bytes)
  BY DEF TerminalIInv, TerminalTypeOK
<1>4. printed' \in Seq(Bytes) /\ wire' \in Seq(Bytes)
  BY <1>1, <1>3, AppendProperties
<1>5. Control'
  BY <1>2 DEF TerminalIInv, Control, SpawnOrder, ClosedForReason, OpsOver, SessionSeen, NoBoundary, Cut, Unwinding, Handed,
              hostVars, handleVars
<1>6. TerminalTypeOK'
  BY <1>2, <1>4 DEF TerminalIInv, TerminalTypeOK, hostVars, outputVars, handleVars
<1>7. filter' = filter /\ got' = got /\ out' = out /\ stage' = stage /\ chan' = chan
  BY <1>2 DEF hostVars, outputVars
<1>8. Begins(got', <<>>, printed')
  BY <1>1, <1>3, <1>7, ByteAfter DEF TerminalIInv, OutputOrder
<1>9. ~filter.published => \E k \in 0..Len(wire') : MarkerAt(filter'.pending, wire', printed', k)
  <2> SUFFICES ASSUME ~filter.published PROVE \E k \in 0..Len(wire') : MarkerAt(filter'.pending, wire', printed', k)
    OBVIOUS
  <2>1. PICK k \in 0..Len(wire) : MarkerAt(filter.pending, wire, printed, k)
    BY <1>2 DEF TerminalIInv, OutputOrder
  <2>2. QED
    BY <1>1, <1>3, <1>7, <2>1, ByteAhead
<1>10. filter.published /\ out = "open" => Begins(got', wire', printed') /\ Len(got') + Len(wire') = Len(printed')
  <2> SUFFICES ASSUME filter.published, out = "open"
               PROVE  Begins(got', wire', printed') /\ Len(got') + Len(wire') = Len(printed')
    OBVIOUS
  <2>1. Begins(got, wire, printed) /\ Len(got) + Len(wire) = Len(printed)
    BY <1>2 DEF TerminalIInv, OutputOrder
  <2>2. QED
    BY <1>1, <1>3, <1>7, <2>1, ByteBehind
<1>11. OutputOrder'
  BY <1>2, <1>7, <1>8, <1>9, <1>10 DEF TerminalIInv, OutputOrder
<1>12. QED
  BY <1>5, <1>6, <1>11 DEF TerminalIInv, Control

LEMMA ConnectionLostKeeps == ASSUME TerminalIInv, ConnectionLost PROVE TerminalIInv'
<1>1. TerminalTypeOK'
  <2>1. conn' = "lost" /\ chan' \in {"none", "open", "closing", "closed"} /\ exit' \in {"none", "code", "signal", "null"}
    BY DEF TerminalIInv, TerminalTypeOK, ConnectionLost
  <2>2. wire' = wire \/ wire' = <<>>
    BY DEF ConnectionLost
  <2>3. wire' \in Seq(Bytes)
    <3>1. wire \in Seq(Bytes)
      BY DEF TerminalIInv, TerminalTypeOK
    <3>2. <<>> \in Seq(Bytes)
      OBVIOUS
    <3>3. QED
      BY <2>2, <3>1, <3>2, Zenon
  <2>4. UNCHANGED <<aborted, spawn, hostVars, printed, outputVars, handleVars>>
    BY DEF ConnectionLost
  <2>5. QED
    BY <2>1, <2>3, <2>4 DEF TerminalIInv, TerminalTypeOK, hostVars, outputVars, handleVars
<1>2. Control'
  BY DEF TerminalIInv, Control, SpawnOrder, ClosedForReason, OpsOver, SessionSeen, NoBoundary, Cut, Unwinding, Handed,
         ConnectionLost, hostVars, handleVars
<1>3. /\ Cut' /\ UNCHANGED <<printed, filter, got, stage, out>>
      /\ (chan = "closed" => chan' = "closed")
      /\ wire' = wire \/ (wire' = <<>> /\ chan' = "closed")
  BY DEF TerminalIInv, ConnectionLost, Cut, hostVars, outputVars
<1>4. CASE wire' = wire
  <2>1. OutputOrder'
    BY <1>3, <1>4, OutputKept DEF TerminalIInv
  <2>2. QED
    BY <1>1, <1>2, <2>1 DEF TerminalIInv, Control
<1>5. CASE wire' = <<>> /\ chan' = "closed"
  <2>1. Begins(got, <<>>, printed)
    BY DEF TerminalIInv, OutputOrder
  <2>2. OutputOrder'
    BY <1>3, <1>5, <2>1 DEF TerminalIInv, OutputOrder
  <2>3. QED
    BY <1>1, <1>2, <2>2 DEF TerminalIInv, Control
<1>6. QED
  BY <1>3, <1>4, <1>5

LEMMA TerminalStart == TerminalInit => TerminalIInv
<1> SUFFICES ASSUME TerminalInit PROVE TerminalIInv
  OBVIOUS
<1>1. filter.pending = <<>> /\ ~filter.published /\ filter \in [pending : Seq(Bytes), published : BOOLEAN]
  BY DEF TerminalInit
<1>2. TerminalTypeOK
  BY <1>1, NoOpFacts DEF TerminalInit, TerminalTypeOK
<1>3. Control
  BY DEF TerminalInit, Control, SpawnOrder, ClosedForReason, OpsOver, SessionSeen, NoBoundary, Handed
<1>4. Begins(<<>>, <<>>, <<>>)
  BY DEF Begins
<1>5. OutputOrder
  BY <1>1, <1>4 DEF TerminalInit, OutputOrder
<1>6. QED
  BY <1>2, <1>3, <1>5 DEF TerminalIInv, Control

LEMMA TerminalStutters == ASSUME TerminalIInv, UNCHANGED terminalVars PROVE TerminalIInv'
<1>1. TerminalTypeOK'
  BY DEF TerminalIInv, TerminalTypeOK, terminalVars
<1>2. Control'
  BY DEF TerminalIInv, Control, SpawnOrder, ClosedForReason, OpsOver, SessionSeen, NoBoundary, Cut, Unwinding, Handed,
         terminalVars
<1>3. UNCHANGED <<printed, wire, filter, got, stage, out, chan>> /\ (Cut => Cut')
  BY DEF terminalVars, Cut, Unwinding
<1>4. OutputOrder'
  BY <1>3, OutputKept DEF TerminalIInv
<1>5. QED
  BY <1>1, <1>2, <1>4 DEF TerminalIInv, Control

LEMMA TerminalMoves == TerminalIInv /\ [TerminalNext]_terminalVars => TerminalIInv'
<1> SUFFICES ASSUME TerminalIInv, [TerminalNext]_terminalVars PROVE TerminalIInv'
  OBVIOUS
<1>1. CASE UNCHANGED terminalVars
  BY <1>1, TerminalStutters
<1>2. CASE SetupScript \/ WrapperPublishes("pid", "setup") \/ WrapperPublishes("tty", "pid")
           \/ WrapperMarks \/ WrapperFails \/ ProgramWrites \/ ProgramForks \/ \E g \in Groups : GroupEnds(g)
  BY <1>2, SetupScriptKeeps, WrapperPublishesKeeps, WrapperMarksKeeps, WrapperFailsKeeps, ProgramWritesKeeps,
     ProgramForksKeeps, GroupEndsKeeps
<1>3. CASE ChannelCloses \/ ConnectionLost \/ CallerAborts \/ Pump \/ PumpEnds
  BY <1>3, ChannelClosesKeeps, ConnectionLostKeeps, CallerAbortsKeeps, PumpKeeps, PumpEndsKeeps
<1>4. CASE SpawnStep
  BY <1>4, SetupSettlesKeeps, ExecOpensKeeps, ExecFailsKeeps, BoundaryExitKeeps, BoundarySeenKeeps, ReadsPidKeeps,
     ReadsTtyKeeps, RollBackKeeps DEF SpawnStep
<1>5. CASE DoneSettles \/ Terminate
  BY <1>5, DoneSettlesKeeps, TerminateKeeps
<1>6. CASE CloseStep
  BY <1>6, OpsDrainedKeeps, ListGroupsKeeps, TermSentKeeps, GracePollsKeeps, RaceOverKeeps, KillSentKeeps, KillPollsKeeps,
     KillShootsKeeps, KillLooksKeeps, PsThrowsKeeps, LastRaceOverKeeps, CloseVerdictKeeps, StateRemovedKeeps DEF CloseStep
<1>7. CASE \E o \in Ops : OpStarts(o) \/ OpStep(o)
  BY <1>7, OpStartsKeeps, OpLooksKeeps, OpSignalsKeeps, OpAbortedKeeps DEF OpStep
<1>8. QED
  BY <1>1, <1>2, <1>3, <1>4, <1>5, <1>6, <1>7 DEF TerminalNext

\* The parts of the inductive invariant hold in every reachable state.
THEOREM TerminalInvariant == TerminalSpec => []TerminalIInv
<1>1. TerminalInit => TerminalIInv
  BY TerminalStart
<1>2. TerminalIInv /\ [TerminalNext]_terminalVars => TerminalIInv'
  BY TerminalMoves
<1>3. QED
  BY <1>1, <1>2, PTL DEF TerminalSpec

\* terminal.ts: whatever the shell prints before the marker and however the
\* bytes are cut into chunks, the reader has a prefix of what the program wrote,
\* and a boundary is reported missing only if the marker did not come or the
\* caller or the network cut the channel.
THEOREM BoundaryIsExact == TerminalSpec => []BoundaryExact
<1>1. TerminalIInv => BoundaryExact
  <2> SUFFICES ASSUME TerminalIInv PROVE BoundaryExact
    OBVIOUS
  <2>1. IsPrefix(got, printed)
    BY BeginsPrefix DEF TerminalIInv, TerminalTypeOK, OutputOrder
  <2>2. spawn = "noboundary" => stage # "program" \/ conn = "lost" \/ aborted
    BY DEF TerminalIInv, TerminalTypeOK, NoBoundary
  <2>3. QED
    BY <2>1, <2>2 DEF BoundaryExact
<1>2. QED
  BY <1>1, TerminalInvariant, PTL

\* terminal.ts: a terminate that succeeds over a standing connection left no
\* process that ps could see and no operation in flight, and the outcome does
\* not blame the connection for what terminate did.
THEOREM TerminateIsHonest == TerminalSpec => []TerminateHonest
<1>1. TerminalIInv => TerminateHonest
  BY DEF TerminalIInv, TerminateHonest, OpsOver, SessionSeen, ClosedForReason
<1>2. QED
  BY <1>1, TerminalInvariant, PTL

=============================================================================
