---------------------------- MODULE DaemonProofs ----------------------------
(***************************************************************************)
(* Proofs about PairedDaemon, for every set of `init` runs and daemons and *)
(* every bound, and about InteractionRelay, for every set of approvals and *)
(* questions and any number of drops, mirrors and missed deadlines.        *)
(***************************************************************************)
EXTENDS PairedDaemon, InteractionRelay, WellFoundedInduction, TLAPS

----------------------------------------------------------------------------
(* The inductive invariant *)

\* An `init` that has put its file in place, whatever became of it later.
Placed == {"renamed", "done", "failed"}

\* A configuration in sight or on the disk is whole, and the `init` that minted
\* its token had got past the rename.
WholeConfig(f) ==
  f = None \/ \E i \in Inits : f = [tok |-> i, synced |-> TRUE] /\ run[i] \in Placed

\* No file is ever torn, and what the disk has, the system sees a successor of.
FilesWhole ==
  /\ WholeConfig(file)
  /\ WholeConfig(disk)
  /\ disk # None => file # None

\* A daemon that got past the start has a token of a finished `init`; one that
\* has not let nobody in.
TokenPlaced ==
  \A d \in Daemons :
    /\ token[d] # None => run[token[d]] \in Placed
    /\ st[d] \in {"serving", "closing"} => token[d] # None
    /\ st[d] = "off" => admitted[d] = <<>> /\ subs[d] = {} /\ registered[d] = {}

\* Challenges that were met are in the past, are not open, and differ.
ChallengesSpent ==
  \A d \in Daemons : \A k \in DOMAIN admitted[d] :
    /\ admitted[d][k][1] <= nonce[d]
    /\ admitted[d][k][1] # pendingHello[d]
    /\ admitted[d][k][2] = token[d]
    /\ token[d] # None
    /\ \A m \in DOMAIN admitted[d] : admitted[d][k][1] = admitted[d][m][1] => k = m

DaemonInv ==
  /\ TypeOK
  /\ FilesWhole
  /\ TokenPlaced
  /\ ChallengesSpent
  /\ ClosedLeavesNothing

----------------------------------------------------------------------------
(* Every action keeps the invariant *)

\* The initial state: no file, no token, nobody let in.
LEMMA InitDaemon == Init => DaemonInv
<1> SUFFICES ASSUME Init PROVE DaemonInv
  OBVIOUS
<1>1. TypeOK
  BY DaemonAssumption DEF Init, TypeOK, RunState
<1>2. FilesWhole /\ TokenPlaced /\ ChallengesSpent /\ ClosedLeavesNothing
  BY DEF Init, FilesWhole, WholeConfig, TokenPlaced, ChallengesSpent, ClosedLeavesNothing
<1>3. QED
  BY <1>1, <1>2 DEF DaemonInv

\* A run of `init` that goes one step further keeps what is placed placed: it
\* leaves the file alone, or replaces it by its own whole one.
LEMMA InitRunKeeps ==
  ASSUME DaemonInv, NEW i \in Inits,
         \/ InitChecks(i) \/ InitWrites(i) \/ InitSyncs(i)
         \/ InitRenames(i) \/ InitPrints(i) \/ InitFails(i)
  PROVE  DaemonInv'
<1> USE DEF DaemonInv
<1>1. /\ UNCHANGED <<daemonVars, crashes, disk, rotate>>
      /\ printed' \subseteq Inits
      /\ run' \in [Inits -> RunState]
      /\ \A j \in Inits : run[j] \in Placed => run'[j] \in Placed
      /\ file' = file \/ (file' = [tok |-> i, synced |-> TRUE] /\ run'[i] = "renamed")
  BY DEF TypeOK, RunState, Placed, InitStep, InitChecks, InitWrites, InitSyncs, InitRenames,
         InitPrints, InitFails
<1>a. [tok |-> i, synced |-> TRUE] \in Config
  BY DEF Config
<1>b. file' \in Config \union {None, Torn}
  BY <1>1, <1>a DEF TypeOK
<1>2. TypeOK'
  BY <1>1, <1>b DEF TypeOK, daemonVars, gateVars, Config
<1>3. FilesWhole'
  <2>1. WholeConfig(file)'
    BY <1>1 DEF FilesWhole, WholeConfig, Placed
  <2>2. WholeConfig(disk)'
    BY <1>1 DEF FilesWhole, WholeConfig
  <2>3. disk' # None => file' # None
    BY <1>1, <1>a, MarkerAssumption DEF FilesWhole
  <2>4. QED
    BY <2>1, <2>2, <2>3 DEF FilesWhole
<1>4. TokenPlaced'
  BY <1>1 DEF TypeOK, TokenPlaced, daemonVars, gateVars
<1>5. ChallengesSpent' /\ ClosedLeavesNothing'
  BY <1>1 DEF ChallengesSpent, ClosedLeavesNothing, clientId, daemonVars, gateVars
<1>6. QED
  BY <1>2, <1>3, <1>4, <1>5

\* Writing the directory back puts a whole file on the disk.
LEMMA FlushKeeps == ASSUME DaemonInv, DiskFlush PROVE DaemonInv'
<1> USE DEF DaemonInv, DiskFlush
<1>1. TypeOK' /\ FilesWhole' /\ TokenPlaced'
  BY DEF TypeOK, FilesWhole, WholeConfig, TokenPlaced, daemonVars, gateVars
<1>2. ChallengesSpent' /\ ClosedLeavesNothing'
  BY DEF ChallengesSpent, ClosedLeavesNothing, clientId, daemonVars, gateVars
<1>3. QED
  BY <1>1, <1>2

\* A daemon that starts, or gives up, has let nobody in yet; the token it loads
\* is that of a whole file.
LEMMA StartKeeps ==
  ASSUME DaemonInv, NEW d \in Daemons,
         main(d) \/ BootFails(d) \/ runServe(d) \/ ServeFails(d)
  PROVE  DaemonInv'
<1> USE DEF DaemonInv
<1>1. /\ UNCHANGED <<configVars, gateVars, registered, subs, crashes>>
      /\ st[d] = "off"
      /\ \/ /\ st' = [st EXCEPT ![d] = "ended"]
            /\ \E code \in 0..2 : exit' = [exit EXCEPT ![d] = code]
            /\ token' = token
         \/ /\ st' = [st EXCEPT ![d] = "serving"]
            /\ exit' = exit
            /\ \E i \in Inits : run[i] \in Placed /\ token' = [token EXCEPT ![d] = i]
  <2>1. CASE runServe(d)
    <3>1. PICK i \in Inits : file = [tok |-> i, synced |-> TRUE] /\ run[i] \in Placed
      BY <2>1 DEF runServe, loadToken, FilesWhole, WholeConfig
    <3>2. token' = [token EXCEPT ![d] = i]
      BY <2>1, <3>1 DEF runServe, loadToken
    <3>3. QED
      BY <2>1, <3>1, <3>2 DEF runServe
  <2>2. CASE \E code \in 0..2 : Ends(d, code)
    BY <2>2 DEF Ends
  <2>3. QED
    BY <2>1, <2>2 DEF main, BootFails, ServeFails
<1>a. token' \in [Daemons -> Inits \union {None}]
  BY <1>1 DEF TypeOK, Config
<1>b. exit' \in [Daemons -> 0..2]
  BY <1>1 DEF TypeOK
<1>c. st' \in [Daemons -> {"off", "serving", "closing", "ended"}]
  BY <1>1 DEF TypeOK
<1>2. TypeOK'
  BY <1>1, <1>a, <1>b, <1>c DEF TypeOK, configVars, gateVars, Config
<1>3. FilesWhole'
  BY <1>1 DEF FilesWhole, WholeConfig, configVars
<1>4. TokenPlaced'
  BY <1>1, DaemonAssumption, ZenonT(60) DEF TypeOK, TokenPlaced, configVars, gateVars
<1>5. ChallengesSpent'
  <2> SUFFICES ASSUME NEW e \in Daemons, NEW k \in DOMAIN admitted[e]
               PROVE  token'[e] = token[e]
    BY <1>1 DEF ChallengesSpent, gateVars
  <2>1. e # d
    BY <1>1 DEF TokenPlaced
  <2>2. QED
    BY <1>1, <2>1 DEF TypeOK
<1>6. ClosedLeavesNothing'
  BY <1>1 DEF TypeOK, TokenPlaced, ClosedLeavesNothing, clientId, gateVars
<1>7. QED
  BY <1>2, <1>3, <1>4, <1>5, <1>6

\* A hello opens a challenge that no accepted proof is about.
LEMMA HelloKeeps == ASSUME DaemonInv, NEW d \in Daemons, Hello(d) PROVE DaemonInv'
<1> USE DEF DaemonInv, Hello
<1>1. TypeOK'
  BY DaemonAssumption, SMTT(60) DEF TypeOK, configVars
<1>2. FilesWhole' /\ TokenPlaced' /\ ClosedLeavesNothing'
  BY DEF FilesWhole, WholeConfig, TokenPlaced, ClosedLeavesNothing, clientId, configVars
<1>3. ChallengesSpent'
  <2> SUFFICES ASSUME NEW e \in Daemons, NEW k \in DOMAIN admitted[e]
               PROVE  admitted[e][k][1] <= nonce'[e] /\ admitted[e][k][1] # pendingHello'[e]
    BY DEF ChallengesSpent
  <2>1. admitted[e][k][1] \in Nat /\ nonce[e] \in Nat
    BY DEF TypeOK
  <2>2. admitted[e][k][1] <= nonce[e] /\ admitted[e][k][1] # pendingHello[e]
    BY DEF ChallengesSpent
  <2>3. QED
    BY <2>1, <2>2, SMTT(60) DEF TypeOK
<1>4. QED
  BY <1>1, <1>2, <1>3

\* An accepted proof spends the open challenge: it differs from all that were
\* spent before, and the client id it mints is the latest.
LEMMA AcceptKeeps ==
  ASSUME DaemonInv, NEW d \in Daemons, NEW tok, NEW n \in 1..nonce[d], ProofAccepted(d, n, tok)
  PROVE  DaemonInv'
<1> USE DEF DaemonInv, ProofAccepted, Proves
<1> DEFINE Pair == (1..MaxHellos) \X Inits
<1>1. <<n, tok>> \in Pair /\ tok = token[d] /\ token[d] # None
  BY DaemonAssumption DEF TypeOK, TokenPlaced
<1>2. admitted[d] \in Seq(Pair)
  BY DEF TypeOK
<1> HIDE DEF Pair
<1>3. /\ admitted'[d] = Append(admitted[d], <<n, tok>>)
      /\ admitted'[d] \in Seq(Pair)
      /\ Len(admitted'[d]) = Len(admitted[d]) + 1
      /\ Len(admitted[d]) \in Nat
  BY <1>1, <1>2 DEF TypeOK
<1>4. \A k \in 1..(Len(admitted[d]) + 1) :
         admitted'[d][k] = IF k <= Len(admitted[d]) THEN admitted[d][k] ELSE <<n, tok>>
  BY <1>1, <1>2, <1>3
<1>5. /\ DOMAIN admitted[d] = 1..Len(admitted[d])
      /\ DOMAIN admitted'[d] = 1..(Len(admitted[d]) + 1)
  BY <1>2, <1>3
<1>6. \A e \in Daemons : e # d => admitted'[e] = admitted[e] /\ registered'[e] = registered[e]
                                /\ pendingHello'[e] = pendingHello[e]
  BY DEF TypeOK
<1>7. TypeOK'
  <2>1. admitted' \in [Daemons -> Seq(Pair)]
    BY <1>3, <1>6 DEF TypeOK, Pair
  <2>2. registered'[d] = registered[d] \union {Len(admitted[d]) + 1}
    BY DEF TypeOK
  <2>3. registered' \in [Daemons -> SUBSET Nat]
    BY <1>3 DEF TypeOK
  <2>4. \A e \in Daemons : registered'[e] \subseteq DOMAIN admitted'[e]
    BY <1>3, <1>5, <1>6, <2>2 DEF TypeOK
  <2>5. /\ pendingHello' \in [Daemons -> 0..MaxHellos]
        /\ \A e \in Daemons : pendingHello'[e] <= nonce'[e]
    BY DaemonAssumption DEF TypeOK
  <2>6. QED
    BY <2>1, <2>3, <2>4, <2>5 DEF TypeOK, configVars, Pair
<1>8. FilesWhole' /\ TokenPlaced'
  BY <1>6 DEF FilesWhole, WholeConfig, TokenPlaced, configVars
<1>9. ChallengesSpent'
  <2> SUFFICES ASSUME NEW e \in Daemons, NEW k \in DOMAIN admitted'[e]
               PROVE  /\ admitted'[e][k][1] <= nonce[e]
                      /\ admitted'[e][k][1] # pendingHello'[e]
                      /\ admitted'[e][k][2] = token[e]
                      /\ token[e] # None
                      /\ \A m \in DOMAIN admitted'[e] :
                           admitted'[e][k][1] = admitted'[e][m][1] => k = m
    BY DEF ChallengesSpent
  <2>1. CASE e # d
    BY <2>1, <1>6 DEF ChallengesSpent
  <2>2. CASE e = d
    <3>1. pendingHello'[d] = 0 /\ nonce[d] \in Nat /\ n = pendingHello[d]
      BY DEF TypeOK
    <3>2. \A j \in DOMAIN admitted[d] :
            admitted[d][j] \in Pair /\ admitted[d][j][1] \in 1..MaxHellos
      BY <1>2 DEF Pair
    <3>3. \A j \in DOMAIN admitted[d] : /\ admitted[d][j][1] <= nonce[d]
                                         /\ admitted[d][j][1] # n
                                         /\ admitted[d][j][2] = token[d]
      BY <3>1 DEF ChallengesSpent
    <3>4. \A j, m \in DOMAIN admitted[d] : admitted[d][j][1] = admitted[d][m][1] => j = m
      BY DEF ChallengesSpent
    <3>5. \A j \in DOMAIN admitted'[d] :
            \/ j \in DOMAIN admitted[d] /\ admitted'[d][j] = admitted[d][j]
            \/ j = Len(admitted[d]) + 1 /\ admitted'[d][j] = <<n, tok>>
      BY <1>3, <1>4, <1>5
    <3>6. \A j \in DOMAIN admitted'[d] : /\ admitted'[d][j][1] \in 1..nonce[d]
                                          /\ admitted'[d][j][2] = token[d]
      BY <3>1, <3>2, <3>3, <3>5, <1>1
    <3>7. \A j, m \in DOMAIN admitted'[d] : admitted'[d][j][1] = admitted'[d][m][1] => j = m
      BY <3>3, <3>4, <3>5
    <3>8. QED
      BY <2>2, <1>1, <3>1, <3>6, <3>7
  <2>3. QED
    BY <2>1, <2>2
<1>10. ClosedLeavesNothing'
  BY <1>6 DEF ClosedLeavesNothing, clientId
<1>11. QED
  BY <1>7, <1>8, <1>9, <1>10

\* A failed proof, the end of its delay, and a subscription of the client that
\* was let in change counters, timers and the monitor only.
LEMMA GateKeeps ==
  ASSUME DaemonInv, NEW d \in Daemons,
         \/ \E tok \in printed \union {Wrong} : \E n \in 1..nonce[d] : ProofFails(d, n, tok)
         \/ DelayEnds(d)
         \/ Subscribe(d)
  PROVE  DaemonInv'
<1> USE DEF DaemonInv
<1>1. /\ UNCHANGED <<configVars, st, token, exit, pendingHello, nonce, admitted, registered,
                     crashes>>
      /\ failures' \in [Daemons -> 0..MaxProofs]
      /\ sleeping' \in [Daemons -> Nat]
      /\ fatal' \in [Daemons -> BOOLEAN]
      /\ subs' \in [Daemons -> SUBSET Nat]
      /\ \A e \in Daemons : subs'[e] # subs[e] => st[e] = "serving"
  <2>1. CASE \E tok \in printed \union {Wrong} : \E n \in 1..nonce[d] : ProofFails(d, n, tok)
    BY <2>1, DaemonAssumption, SMTT(60) DEF ProofFails, TypeOK
  <2>2. CASE DelayEnds(d)
    BY <2>2, DaemonAssumption DEF DelayEnds, TypeOK
  <2>3. CASE Subscribe(d)
    <3>1. clientId(d) \in Nat
      BY DEF TypeOK, clientId
    <3>2. subs' \in [Daemons -> SUBSET Nat]
      <4>1. subs[d] \union {clientId(d)} \in SUBSET Nat /\ subs[d] \ {clientId(d)} \in SUBSET Nat
        BY <3>1 DEF TypeOK
      <4>2. subs \in [Daemons -> SUBSET Nat]
        BY DEF TypeOK
      <4>3. QED
        BY <2>3, <4>1, <4>2 DEF Subscribe
    <3>3. \A e \in Daemons : subs'[e] # subs[e] => st[e] = "serving"
      BY <2>3 DEF Subscribe, TypeOK
    <3>4. QED
      BY <2>3, <3>2, <3>3 DEF Subscribe, TypeOK, gateVars
  <2>4. QED
    BY <2>1, <2>2, <2>3
<1>2. TypeOK'
  BY <1>1 DEF TypeOK, configVars
<1>3. FilesWhole' /\ TokenPlaced' /\ ChallengesSpent' /\ ClosedLeavesNothing'
  BY <1>1, ZenonT(60) DEF FilesWhole, WholeConfig, TokenPlaced, ChallengesSpent, ClosedLeavesNothing,
              clientId, configVars
<1>4. QED
  BY <1>2, <1>3

\* The stream ends or is ended: nobody is let out of the records yet.
LEMMA EndKeeps ==
  ASSUME DaemonInv, NEW d \in Daemons, StreamEnds(d) \/ FatalFires(d)
  PROVE  DaemonInv'
<1> USE DEF DaemonInv
<1>1. /\ UNCHANGED <<configVars, token, pendingHello, nonce, failures, sleeping, admitted,
                     registered, subs, crashes>>
      /\ fatal' \in [Daemons -> BOOLEAN]
      /\ st' = st \/ (st[d] = "serving" /\ st' = [st EXCEPT ![d] = "closing"])
      /\ exit' = exit \/ exit' = [exit EXCEPT ![d] = 1]
  BY DEF StreamEnds, FatalFires, TypeOK, gateVars
<1>2. TypeOK'
  <2>1. st' \in [Daemons -> {"off", "serving", "closing", "ended"}]
    BY <1>1 DEF TypeOK
  <2>2. exit' \in [Daemons -> 0..2]
    <3>1. 1 \in 0..2
      OBVIOUS
    <3>2. exit \in [Daemons -> 0..2]
      BY DEF TypeOK
    <3>3. QED
      BY <1>1, <3>1, <3>2, Zenon
  <2>3. QED
    BY <1>1, <2>1, <2>2 DEF TypeOK, configVars
<1>3. FilesWhole' /\ ChallengesSpent'
  BY <1>1 DEF FilesWhole, WholeConfig, ChallengesSpent, configVars
<1>4. TokenPlaced' /\ ClosedLeavesNothing'
  BY <1>1 DEF TypeOK, TokenPlaced, ClosedLeavesNothing, clientId, configVars
<1>5. QED
  BY <1>2, <1>3, <1>4

\* The teardown takes the last client id out of the records and ends every
\* subscription.
LEMMA TeardownKeeps == ASSUME DaemonInv, NEW d \in Daemons, Teardown(d) PROVE DaemonInv'
<1> USE DEF DaemonInv, Teardown
<1>1. TypeOK'
  BY DEF TypeOK, configVars, gateVars
<1>2. FilesWhole' /\ TokenPlaced' /\ ChallengesSpent'
  BY DEF TypeOK, FilesWhole, WholeConfig, TokenPlaced, ChallengesSpent, configVars, gateVars
<1>3. ClosedLeavesNothing'
  <2>1. /\ Len(admitted[d]) \in Nat
        /\ registered[d] \subseteq 1..Len(admitted[d])
    BY DEF TypeOK
  <2>2. registered'[d] \subseteq 1..(Len(admitted[d]) - 1) /\ subs'[d] = {}
    BY <2>1 DEF TypeOK, clientId
  <2>3. QED
    BY <2>2 DEF TypeOK, ClosedLeavesNothing, clientId, gateVars
<1>4. QED
  BY <1>1, <1>2, <1>3

\* A crash finds a whole file on the disk, or none; every process is gone.
LEMMA CrashKeeps == ASSUME DaemonInv, HostCrashes PROVE DaemonInv' /\ file' = disk
<1> USE DEF DaemonInv
<1>1. file' = disk /\ disk' = disk
  BY DEF HostCrashes, FilesWhole, WholeConfig
<1>2. /\ run' \in [Inits -> RunState]
      /\ \A j \in Inits : run[j] \in Placed => run'[j] \in Placed
  BY DEF HostCrashes, TypeOK, RunState, Placed
<1>3. /\ st' = [d \in Daemons |-> IF st[d] = "off" THEN "off" ELSE "ended"]
      /\ \A d \in Daemons : registered'[d] = {} /\ subs'[d] = {}
      /\ UNCHANGED <<rotate, printed, token, exit, pendingHello, nonce, failures, admitted>>
  BY DEF HostCrashes
<1>4. TypeOK'
  BY <1>1, <1>2, <1>3, DaemonAssumption DEF HostCrashes, TypeOK
<1>5. FilesWhole'
  BY <1>1, <1>2 DEF FilesWhole, WholeConfig
<1>6. TokenPlaced' /\ ChallengesSpent'
  BY <1>2, <1>3 DEF TypeOK, TokenPlaced, ChallengesSpent
<1>7. ClosedLeavesNothing'
  BY <1>3 DEF ClosedLeavesNothing
<1>8. QED
  BY <1>1, <1>4, <1>5, <1>6, <1>7

\* Every step keeps the invariant.
LEMMA StepDaemon == DaemonInv /\ [Next]_vars => DaemonInv'
<1> SUFFICES ASSUME DaemonInv, [Next]_vars PROVE DaemonInv'
  OBVIOUS
<1>1. CASE \E i \in Inits : \/ InitChecks(i) \/ InitWrites(i) \/ InitSyncs(i)
                            \/ InitRenames(i) \/ InitPrints(i) \/ InitFails(i)
  BY <1>1, InitRunKeeps
<1>2. CASE \E d \in Daemons : main(d) \/ BootFails(d) \/ runServe(d) \/ ServeFails(d)
  BY <1>2, StartKeeps
<1>3. CASE \E d \in Daemons : Hello(d)
  BY <1>3, HelloKeeps
<1>4. CASE \E d \in Daemons : DelayEnds(d) \/ Subscribe(d)
  BY <1>4, GateKeeps
<1>5. CASE \E d \in Daemons : StreamEnds(d) \/ FatalFires(d)
  BY <1>5, EndKeeps
<1>6. CASE \E d \in Daemons : Teardown(d)
  BY <1>6, TeardownKeeps
<1>7. CASE \E d \in Daemons, tok \in printed \union {Wrong} : \E n \in 1..nonce[d] :
             ProofFails(d, n, tok)
  BY <1>7, GateKeeps
<1>8. CASE \E d \in Daemons, tok \in printed \union {Wrong} : \E n \in 1..nonce[d] :
             ProofAccepted(d, n, tok)
  BY <1>8, AcceptKeeps
<1>9. CASE DiskFlush
  BY <1>9, FlushKeeps
<1>10. CASE HostCrashes
  BY <1>10, CrashKeeps
<1>11. CASE UNCHANGED vars
  <2>1. TypeOK' /\ FilesWhole' /\ TokenPlaced'
    BY <1>11 DEF DaemonInv, TypeOK, FilesWhole, WholeConfig, TokenPlaced,
                 vars, configVars, daemonVars, gateVars
  <2>2. ChallengesSpent' /\ ClosedLeavesNothing'
    BY <1>11 DEF DaemonInv, ChallengesSpent, ClosedLeavesNothing, clientId,
                 vars, configVars, daemonVars, gateVars
  <2>3. QED
    BY <2>1, <2>2 DEF DaemonInv
<1>12. QED
  BY <1>1, <1>2, <1>3, <1>4, <1>5, <1>6, <1>7, <1>8, <1>9, <1>10, <1>11 DEF Next

----------------------------------------------------------------------------
(* The theorems *)

\* The invariant holds in every reachable state of every daemon and every run
\* of `init`.
THEOREM DaemonInvariant == Spec => []DaemonInv
<1>1. QED
  BY InitDaemon, StepDaemon, PTL DEF Spec

\* The configuration, the gate and the records of a connection stay well formed.
THEOREM DaemonTypeCorrect == Spec => []TypeOK
<1>1. DaemonInv => TypeOK
  BY DEF DaemonInv
<1>2. QED
  BY <1>1, DaemonInvariant, PTL

\* Each challenge lets at most one client in, and only for the token of an
\* `init` that had put it in place whole (serve.ts hello.proof).
THEOREM DaemonAdmitsOnce == Spec => []AdmitsOnce
<1>1. DaemonInv => AdmitsOnce
  BY DEF DaemonInv, ChallengesSpent, TokenPlaced, Placed, AdmitsOnce
<1>2. QED
  BY <1>1, DaemonInvariant, PTL

\* Nobody is subscribed to a daemon whose connection is over, and no client id
\* but a displaced one is left in its broker (serve.ts peer.closed).
THEOREM DaemonClosedLeavesNothing == Spec => []ClosedLeavesNothing
<1>1. DaemonInv => ClosedLeavesNothing
  BY DEF DaemonInv
<1>2. QED
  BY <1>1, DaemonInvariant, PTL

\* No crash and no concurrent or failing `init` tears the configuration, and
\* one that reached the disk is never lost (config.ts writeConfig).
THEOREM DaemonConfigSurvives == Spec => ConfigSurvives
<1>1. DaemonInv /\ DaemonInv' /\ [Next]_vars => [file' # Torn /\ (disk # None => file' # None)]_vars
  <2> SUFFICES ASSUME DaemonInv, DaemonInv', Next
               PROVE  file' # Torn /\ (disk # None => file' # None)
    OBVIOUS
  <2>1. file' # Torn
    <3>1. WholeConfig(file)'
      BY DEF DaemonInv, FilesWhole
    <3>2. CASE file' = None
      BY <3>2, MarkerAssumption
    <3>3. CASE \E i \in Inits : file' = [tok |-> i, synced |-> TRUE]
      <4>1. file' \in Config
        BY <3>3 DEF Config
      <4>2. QED
        BY <4>1, MarkerAssumption
    <3>4. QED
      BY <3>1, <3>2, <3>3 DEF WholeConfig
  <2>2. CASE HostCrashes
    BY <2>1, <2>2, CrashKeeps
  <2>3. CASE ~HostCrashes
    <3>1. \/ UNCHANGED file \/ \E i \in Inits : file' = [tok |-> i, synced |-> TRUE]
      BY <2>3 DEF Next, InitChecks, InitWrites, InitSyncs, InitRenames, InitPrints, InitFails,
           main, BootFails, runServe, ServeFails, Ends, Hello, DelayEnds, Subscribe, StreamEnds,
           FatalFires, Teardown, ProofFails, ProofAccepted, DiskFlush, configVars
    <3>2. CASE UNCHANGED file
      BY <2>1, <3>2 DEF DaemonInv, FilesWhole
    <3>3. CASE \E i \in Inits : file' = [tok |-> i, synced |-> TRUE]
      <4>1. file' \in Config
        BY <3>3 DEF Config
      <4>2. QED
        BY <2>1, <4>1, MarkerAssumption
    <3>4. QED
      BY <3>1, <3>2, <3>3
  <2>4. QED
    BY <2>2, <2>3
<1>2. QED
  BY <1>1, DaemonInvariant, PTL DEF Spec, ConfigSurvives

----------------------------------------------------------------------------
(* The relay of interactions *)

\* The proxy waits for the answer of session.attach.
Attaching == handle = "asked" \/ link = "reattach"

IsRequest(m, r) == m.t = "request" /\ m.r = r
IsClosing(m, r) == m.t \in {"closed", "answered"} /\ m.r = r

CallWaits     == \E i \in 1..Len(up[gen]) : up[gen][i].t = "attach"
AnswerWaits   == \E i \in 1..Len(down) : down[i].t = "attached"
CallOnce == \A i, j \in 1..Len(up[gen]) : up[gen][i].t = "attach" /\ up[gen][j].t = "attach" => i = j
AnswerOnce == \A i, j \in 1..Len(down) : down[i].t = "attached" /\ down[j].t = "attached" => i = j
ListedBelow(r)  == \E i \in 1..Len(down) : down[i].t = "attached" /\ r \in down[i].pending
ClosedAfter(k, r) == \E i \in (k + 1)..Len(down) : IsClosing(down[i], r)
ComesLast(r) == \E i \in 1..Len(down) : /\ IsRequest(down[i], r)
                                        /\ \A j \in (i + 1)..Len(down) : down[j].t # "attached"

\* A dispatch is counted once per claim.
Counted == \A r \in Requests : shown[r] = IF r \in surfaced THEN 1 ELSE 0

\* What a live handle holds was claimed by its mirror; a mirror is wired to a handle.
Claimed ==
  /\ handle = "live" => \A r \in pend : Kind(r) \in wired => r \in surfaced
  /\ handle = "asked" => wired = {} /\ link = "up"

\* No client of the future is known to the daemon, and a lost connection hears nothing.
Known ==
  /\ \A c \in attached : c <= gen
  /\ \A r \in Requests : \A c \in targets[r] : c <= gen
  /\ \A r \in Requests : phase[r] = "new" => targets[r] = {}
  /\ link # "down" => gen \in serving
  /\ link = "down" => gen < MaxDrops /\ down = <<>> /\ got = <<>>
  /\ \A c \in Connections : c > gen => up[c] = <<>>

\* What the proxy knows of was asked; what an earlier connection still
\* answers was asked before the present one.
Begun ==
  /\ \A r \in pend : phase[r] # "new"
  /\ \A r \in Requests : open[r] > 0 => phase[r] # "new"
  /\ \A c \in Connections : \A i \in 1..Len(up[c]) :
       up[c][i].t = "answer" => /\ phase[up[c][i].r] # "new"
                                /\ c # gen => gen \notin targets[up[c][i].r]

\* One session.attach at a time is waited for: a call, a line or a due continuation.
\* Those whose deadline has passed are none of the three.
OneAttach ==
  link # "down" =>
    /\ Attaching => CallWaits \/ AnswerWaits \/ got # <<>>
    /\ ~Attaching => ~CallWaits /\ ~AnswerWaits /\ got = <<>>
    /\ CallWaits => ~AnswerWaits /\ got = <<>>
    /\ AnswerWaits => got = <<>>
    /\ CallOnce /\ AnswerOnce

\* The lines on their way are true, or a later one corrects them.
LinesTrue ==
  \A i \in 1..Len(down) :
    /\ down[i].t = "request" =>
         /\ phase[down[i].r] # "new"
         /\ gen \in targets[down[i].r]
         /\ phase[down[i].r] = "settled" => ClosedAfter(i, down[i].r)
    /\ down[i].t \in {"closed", "answered"} => phase[down[i].r] = "settled"
    /\ down[i].t = "attached" => \A r \in down[i].pending :
         /\ phase[r] # "new"
         /\ phase[r] = "settled" /\ gen \in targets[r] => ClosedAfter(i, r)

\* So is the list of an attach answer, and so are the pending sets.
ListTrue ==
  got # <<>> => \A r \in got[1] :
    /\ phase[r] # "new"
    /\ r \notin raced /\ phase[r] = "settled" /\ gen \in targets[r] => ClosedAfter(0, r)

PendTrue ==
  handle = "live" /\ link = "up" => \A r \in pend \ (raced \union late) :
    /\ phase[r] = "settled" /\ gen \in targets[r] => ClosedAfter(0, r)
    /\ gen \notin targets[r] => r \in replayed

\* A request that waits for this client is pending in the handle or will be.
Ahead ==
  link # "down" /\ handle \in {"live", "asked"} =>
    \A r \in Waiting \ raced : gen \in targets[r] =>
      \/ CallWaits
      \/ ListedBelow(r)
      \/ got # <<>> /\ r \in got[1]
      \/ ComesLast(r)
      \/ ~Attaching /\ r \in pend

RelayInv ==
  /\ RelayTypeOK /\ Counted /\ Claimed /\ Known /\ Begun /\ OneAttach
  /\ LinesTrue /\ ListTrue /\ PendTrue /\ Ahead

\* A response to an answer, taken or dropped, belongs to a verdict the local user gave.
OwnAnswers ==
  /\ given = [r \in Requests |-> given[r]]
  /\ \A i \in 1..Len(down) : down[i].t = "answered" => given[down[i].r] # <<>>
  /\ \A r \in late : given[r] # <<>>

\* What the host is told for an answer is the answer.
ToldIsAnswer(item, ans, told) ==
  ans.custom \notin {OptionId(i) : i \in DOMAIN item.opts} =>
    /\ told.sel = ans.sel
    /\ told.custom = IF item.multi THEN ans.custom
                     ELSE IF ans.sel # <<>> THEN NoText
                     ELSE IF ans.custom = NoText THEN "" ELSE ans.custom

\* A call that answers carries the conversion of what the local user gave, for
\* the item that was asked.
Faithful(m, item) ==
  IF m.r \in Approvals
  THEN m.local \in Outcomes \union {"rogue"} /\ m.body = Decision(Normalised(m.local))
  ELSE /\ m.local \in LocalAnswers(item)
       /\ m.body = toWireAnswers(item, m.local)

\* What the caller of r was told is what the local user gave.
Carried(r, item, ans, told) ==
  IF r \in Approvals
  THEN /\ told = "allowed-once" <=> ans = "allowed-once"
       /\ told = "unavailable" <=> ans \notin {"allowed-once", "rejected", "cancelled"}
  ELSE ToldIsAnswer(item, ans, told)

\* Every answer in flight is faithful to the item, and so is every verdict it gave.
CarryInv ==
  /\ verdict = [r \in Requests |-> verdict[r]] /\ given = [r \in Requests |-> given[r]]
  /\ \A c \in Connections : \A i \in 1..Len(up[c]) :
       up[c][i].t = "answer" => Faithful(up[c][i], shape[up[c][i].r])
  /\ \A r \in Requests : given[r] # <<>> =>
       phase[r] # "new" /\ Carried(r, shape[r], given[r][1], verdict[r][1])

----------------------------------------------------------------------------
(* Lemmas on lines, calls and types of the relay *)

\* A sequence with one more element.
LEMMA AppendFacts ==
  ASSUME NEW S, NEW s \in Seq(S), NEW e \in S
  PROVE  /\ Append(s, e) \in Seq(S)
         /\ Len(s) \in Nat
         /\ Len(Append(s, e)) = Len(s) + 1
         /\ \A i \in 1..Len(s) : Append(s, e)[i] = s[i]
         /\ Append(s, e)[Len(s) + 1] = e
  BY SMT

\* A sequence without its first element.
LEMMA TailFacts ==
  ASSUME NEW S, NEW s \in Seq(S), s # <<>>
  PROVE  /\ Tail(s) \in Seq(S)
         /\ Len(s) \in Nat /\ Len(s) >= 1
         /\ Len(Tail(s)) = Len(s) - 1
         /\ \A i \in 1..Len(Tail(s)) : Tail(s)[i] = s[i + 1]
         /\ Head(s) = s[1] /\ Head(s) \in S
  BY SMT

\* A sequence with one element replaced.
LEMMA PutFacts ==
  ASSUME NEW S, NEW s \in Seq(S), NEW e \in S, NEW i \in DOMAIN s
  PROVE  /\ [s EXCEPT ![i] = e] \in Seq(S)
         /\ Len([s EXCEPT ![i] = e]) = Len(s)
         /\ i \in 1..Len(s)
         /\ [s EXCEPT ![i] = e][i] = e
         /\ \A j \in 1..Len(s) : j # i => [s EXCEPT ![i] = e][j] = s[j]
<1>1. PICK n \in Nat : s \in [1..n -> S] /\ Len(s) = n
  BY SMT
<1>2. [s EXCEPT ![i] = e] \in [1..n -> S]
  BY <1>1
<1>3. [s EXCEPT ![i] = e] \in Seq(S) /\ Len([s EXCEPT ![i] = e]) = n
  BY <1>1, <1>2, SMT
<1> QED BY <1>1, <1>3

\* A call is an attach, a detach or the answer of a request.
LEMMA CallKinds ==
  ASSUME NEW m \in Calls
  PROVE  /\ m.t \in {"attach", "lateAttach", "detach", "answer"}
         /\ m.t = "answer" => m.r \in Requests
<1>1. CASE m \in [t : {"attach", "lateAttach", "detach"}]
  BY <1>1
<1>2. CASE m \in Decided
  BY <1>2 DEF Decided, Requests
<1>3. CASE \E item \in Shapes \union {NoShape} : m \in Replied(item)
  BY <1>3 DEF Replied, Requests
<1> QED BY <1>1, <1>2, <1>3 DEF Calls

\* A line is an attach answer or speaks of one request.
LEMMA LineKinds ==
  ASSUME NEW m \in Lines
  PROVE  /\ m.t \in {"request", "closed", "answered", "refused", "attached", "dropped"}
         /\ m.t = "attached" => m.pending \subseteq Requests
         /\ m.t \notin {"attached", "dropped"} => m.r \in Requests
  BY DEF Lines

\* The lines the daemon sends.
LEMMA LineTypes ==
  /\ \A r \in Requests : \A t \in {"request", "closed", "answered", "refused"} : Line(t, r) \in Lines
  /\ \A rs \in SUBSET Requests : Attached(rs) \in Lines
  BY DEF Line, Attached, Lines

\* Sending keeps the type of the wire.
LEMMA ToClientTypes ==
  ASSUME RelayTypeOK, NEW m \in Lines, NEW c
  PROVE  ToClient(c, m) \in Seq(Lines)
  BY AppendFacts DEF ToClient, RelayTypeOK

\* So does telling the targets of a settled request.
LEMMA ToldTypes ==
  ASSUME RelayTypeOK, NEW r \in Requests, NEW w
  PROVE  Told(r, w) \in Seq(Lines)
  BY LineTypes, AppendFacts DEF Told, ToClient, RelayTypeOK

\* Dispatching keeps the types of the bridges.
LEMMA SurfaceTypes ==
  ASSUME RelayTypeOK, NEW rs \in SUBSET Requests, NEW kinds, Surface(rs, kinds)
  PROVE  /\ surfaced' \subseteq Requests
         /\ open' \in [Requests -> Nat]
         /\ shown' \in [Requests -> Nat]
  BY DEF Surface, RelayTypeOK

\* What is left of a session.attach whose deadline has passed.
Expired(calls, lines) ==
  /\ got' = got /\ got = <<>> /\ timeouts' \in 0..MaxTimeouts
  /\ calls \in [Connections -> Seq(Calls)] /\ lines \in Seq(Lines)
  /\ \A c \in Connections :
       /\ Len(calls[c]) = Len(up[c])
       /\ \A i \in 1..Len(up[c]) :
            calls[c][i] = up[c][i] \/ (c = gen /\ calls[c][i] = [t |-> "lateAttach"])
  /\ Len(lines) = Len(down)
  /\ \A i \in 1..Len(down) :
       lines[i] = down[i] \/ (lines[i] = [t |-> "dropped"] /\ down[i].t = "attached")

\* No attach is waited for any more: the one there was has expired.
LEMMA AttachExpired ==
  ASSUME RelayInv, AttachExpires, got' = got, gen' = gen, link # "down"
  PROVE  Expired(up', down') /\ ~CallWaits' /\ ~AnswerWaits'
<1>0. /\ RelayTypeOK /\ OneAttach
      /\ gen \in Connections /\ up[gen] \in Seq(Calls) /\ down \in Seq(Lines)
      /\ got = <<>>
      /\ [t |-> "lateAttach"] \in Calls /\ [t |-> "dropped"] \in Lines
  BY DEF RelayInv, RelayTypeOK, AttachExpires, Calls, Lines
<1>1. timeouts' \in 0..MaxTimeouts
  BY <1>0, RelayAssumption DEF RelayTypeOK, AttachExpires
<1>2. ASSUME NEW i \in DOMAIN up[gen], up[gen][i].t = "attach",
             up' = [up EXCEPT ![gen][i] = [t |-> "lateAttach"]], down' = down
      PROVE  Expired(up', down') /\ ~CallWaits' /\ ~AnswerWaits'
  <2> DEFINE s == [up[gen] EXCEPT ![i] = [t |-> "lateAttach"]]
  <2>1. /\ s \in Seq(Calls) /\ Len(s) = Len(up[gen]) /\ i \in 1..Len(up[gen])
        /\ s[i] = [t |-> "lateAttach"]
        /\ \A j \in 1..Len(up[gen]) : j # i => s[j] = up[gen][j]
    BY <1>0, PutFacts
  <2>2. up' = [up EXCEPT ![gen] = s]
    BY <1>2
  <2> HIDE DEF s
  <2>3. /\ up' \in [Connections -> Seq(Calls)] /\ up'[gen] = s
        /\ \A c \in Connections : c # gen => up'[c] = up[c]
    BY <1>0, <2>1, <2>2 DEF RelayTypeOK
  <2>4. CallWaits /\ CallOnce /\ ~AnswerWaits
    BY <1>0, <1>2, <2>1 DEF CallWaits, OneAttach
  <2>5. ASSUME NEW j \in 1..Len(s)
        PROVE  s[j].t # "attach"
    <3>1. CASE j = i
      BY <2>1, <3>1
    <3>2. CASE j # i
      BY <1>2, <2>1, <2>4, <3>2 DEF CallOnce
    <3> QED BY <3>1, <3>2
  <2>6. ~CallWaits'
    BY <2>3, <2>5 DEF CallWaits
  <2>7. ~AnswerWaits'
    BY <1>2, <2>4 DEF AnswerWaits
  <2>8. ASSUME NEW c \in Connections
        PROVE  /\ Len(up'[c]) = Len(up[c])
               /\ \A k \in 1..Len(up[c]) :
                    up'[c][k] = up[c][k] \/ (c = gen /\ up'[c][k] = [t |-> "lateAttach"])
    <3>1. CASE c = gen
      BY <2>1, <2>3, <3>1
    <3>2. CASE c # gen
      BY <2>3, <3>2
    <3> QED BY <3>1, <3>2
  <2> QED BY <1>0, <1>1, <1>2, <2>3, <2>6, <2>7, <2>8 DEF Expired
<1>3. ASSUME NEW i \in DOMAIN down, down[i].t = "attached",
             down' = [down EXCEPT ![i] = [t |-> "dropped"]], up' = up
      PROVE  Expired(up', down') /\ ~CallWaits' /\ ~AnswerWaits'
  <2>1. /\ down' \in Seq(Lines) /\ Len(down') = Len(down) /\ i \in 1..Len(down)
        /\ down'[i] = [t |-> "dropped"]
        /\ \A j \in 1..Len(down) : j # i => down'[j] = down[j]
    BY <1>0, <1>3, PutFacts
  <2>2. AnswerWaits /\ AnswerOnce /\ ~CallWaits
    BY <1>0, <1>3, <2>1 DEF AnswerWaits, OneAttach
  <2>3. ASSUME NEW j \in 1..Len(down)
        PROVE  down'[j].t # "attached"
    <3>1. CASE j = i
      BY <2>1, <3>1
    <3>2. CASE j # i
      BY <1>3, <2>1, <2>2, <3>2 DEF AnswerOnce
    <3> QED BY <3>1, <3>2
  <2>4. ~AnswerWaits'
    BY <2>1, <2>3 DEF AnswerWaits
  <2>5. ~CallWaits'
    BY <1>3, <2>2 DEF CallWaits
  <2>6. \A j \in 1..Len(down) :
          down'[j] = down[j] \/ (down'[j] = [t |-> "dropped"] /\ down[j].t = "attached")
    BY <1>3, <2>1
  <2>7. up' \in [Connections -> Seq(Calls)]
    BY <1>0, <1>3 DEF RelayTypeOK
  <2> QED BY <1>0, <1>1, <1>3, <2>1, <2>4, <2>5, <2>6, <2>7 DEF Expired
<1> QED BY <1>2, <1>3 DEF AttachExpires

\* Giving an attach up changes what AttachExpired says, the handle and the channel.
LEMMA TimesOut ==
  ASSUME RelayInv, AttachTimesOut \/ ReattachTimesOut
  PROVE  /\ Expired(up', down') /\ ~CallWaits' /\ ~AnswerWaits'
         /\ link # "down" /\ link' = "up"
         /\ UNCHANGED <<hostVars, attachVars, gen, wired, surfaced, shown, wirings, replayed, raced, late>>
         /\ handle' \in {"none", "detached"} \/ (handle' = handle /\ handle \notin {"asked", "live"})
         /\ pend' \subseteq pend
         /\ open' = open \/ open' = [r \in Requests |-> 0]
<1>1. link # "down" /\ link' = "up"
  BY DEF RelayInv, Claimed, AttachTimesOut, ReattachTimesOut
<1>2. AttachExpires /\ gen' = gen /\ got' = got
  BY DEF AttachTimesOut, ReattachTimesOut, AttachExpires
<1>3. Expired(up', down') /\ ~CallWaits' /\ ~AnswerWaits'
  BY <1>1, <1>2, AttachExpired
<1>4. handle' \in {"none", "detached"} \/ (handle' = handle /\ handle \notin {"asked", "live"})
  BY DEF RelayInv, Claimed, AttachTimesOut, ReattachTimesOut
<1>5. /\ UNCHANGED <<hostVars, attachVars, gen, wired, surfaced, shown, wirings, replayed, raced, late>>
      /\ pend' \subseteq pend
      /\ open' = open \/ open' = [r \in Requests |-> 0]
  BY DEF AttachTimesOut, ReattachTimesOut, proxyVars
<1> QED BY <1>1, <1>3, <1>4, <1>5

\* Every step keeps the types; a line that races with an attach continuation is no
\* attach answer, because there is only one.
LEMMA TypeStep ==
  ASSUME RelayInv, [RelayNext]_relayVars
  PROVE  RelayTypeOK'
<1> USE DEF RelayTypeOK, attachVars, hostVars, chanVars, handleVars, proxyVars, lateVars
<1>0. RelayTypeOK /\ Waiting \subseteq Requests /\ gen \in Connections
  BY DEF RelayInv, Waiting
<1>1. ASSUME NEW r \in Requests, NEW who \in SUBSET Ids,
             NEW item \in Shapes \union {NoShape}, HostAsks(r, item, who)
      PROVE  RelayTypeOK'
  <2>1. down' \in Seq(Lines)
    BY <1>0, <1>1, LineTypes, AppendFacts DEF HostAsks, ToClient
  <2> QED BY <1>0, <1>1, <2>1 DEF HostAsks
<1>2. ASSUME NEW r \in Requests, HostAborts(r) \/ RivalAnswers(r)
      PROVE  RelayTypeOK'
  <2>1. Told(r, NoOne) \in Seq(Lines) /\ Told(r, Rival) \in Seq(Lines)
    BY <1>0, ToldTypes
  <2>2. down' \in Seq(Lines)
    BY <1>2, <2>1 DEF HostAborts, RivalAnswers
  <2>3. phase' \in [Requests -> {"new", "pending", "settled"}]
    BY <1>0, <1>2 DEF HostAborts, RivalAnswers
  <2> QED BY <1>0, <1>2, <2>2, <2>3 DEF HostAborts, RivalAnswers
<1>3. ASSUME NEW r \in Requests, QuestionLeft(r)
      PROVE  RelayTypeOK'
  BY <1>0, <1>3 DEF QuestionLeft
<1>4. ASSUME NEW r \in Requests, NEW local, NEW body, UserAnswers(r, local, body),
             [t |-> "answer", r |-> r, body |-> body, local |-> local] \in Calls
      PROVE  RelayTypeOK'
  <2>1. up' \in [Connections -> Seq(Calls)]
    BY <1>0, <1>4, AppendFacts DEF UserAnswers
  <2>2. open' \in [Requests -> Nat]
    BY <1>0, <1>4 DEF UserAnswers
  <2> QED BY <1>0, <1>4, <2>1, <2>2 DEF UserAnswers
<1>5. ASSUME NEW r \in Approvals, NEW out \in Outcomes \union {"rogue"}, UserDecides(r, out)
      PROVE  RelayTypeOK'
  <2>1. [t |-> "answer", r |-> r, body |-> Decision(Normalised(out)), local |-> out] \in Calls
    BY DEF Calls, Decided
  <2> QED BY <1>4, <1>5, <2>1 DEF UserDecides, Requests
<1>6. ASSUME NEW r \in Questions, NEW ans \in LocalAnswers(shape[r]), UserReplies(r, ans)
      PROVE  RelayTypeOK'
  <2>1. shape[r] \in Shapes \union {NoShape}
    BY <1>0 DEF Requests
  <2>2. [t |-> "answer", r |-> r, body |-> toWireAnswers(shape[r], ans), local |-> ans] \in Replied(shape[r])
    BY DEF Replied
  <2>3. [t |-> "answer", r |-> r, body |-> toWireAnswers(shape[r], ans), local |-> ans] \in Calls
    BY <2>1, <2>2 DEF Calls
  <2> QED BY <1>4, <1>6, <2>3 DEF UserReplies, Requests
<1>7. CASE Receive
  <2>1. /\ Tail(down) \in Seq(Lines) /\ Head(down) \in Lines
        /\ down' = Tail(down)
        /\ Head(down) = down[1] /\ Len(down) \in Nat /\ Len(down) >= 1
    BY <1>0, <1>7, TailFacts DEF Receive
  <2>2. /\ Head(down).t = "attached" => Head(down).pending \subseteq Requests
        /\ Head(down).t \notin {"attached", "dropped"} => Head(down).r \in Requests
    BY <2>1, LineKinds
  <2>3. got' \in {<<>>} \union {<<rs>> : rs \in SUBSET Requests}
    BY <1>0, <1>7, <2>2 DEF Receive
  <2>4. raced' \subseteq Requests
    <3>1. got # <<>> => Head(down).t # "attached"
      BY <2>1, <1>0 DEF RelayInv, OneAttach, AnswerWaits, Known
    <3> QED BY <1>0, <1>7, <2>2, <3>1 DEF Receive
  <2>5. /\ pend' \subseteq Requests /\ surfaced' \subseteq Requests
        /\ open' \in [Requests -> Nat] /\ shown' \in [Requests -> Nat]
    BY <1>0, <1>7, <2>2, SurfaceTypes DEF Receive
  <2>6. late' \subseteq Requests
    BY <1>0, <1>7, <2>2 DEF Receive
  <2> QED BY <1>0, <1>7, <2>1, <2>3, <2>4, <2>5, <2>6 DEF Receive
<1>8. CASE AttachAsks
  <2>1. [t |-> "attach"] \in Calls
    BY DEF Calls
  <2>2. up' \in [Connections -> Seq(Calls)]
    BY <1>0, <1>8, <2>1, AppendFacts DEF AttachAsks
  <2> QED BY <1>0, <1>8, <2>2 DEF AttachAsks
<1>9. CASE AttachContinues
  BY <1>0, <1>9 DEF AttachContinues
<1>10. CASE ReattachContinues
  <2>1. got[1] \subseteq Requests
    BY <1>0, <1>10 DEF ReattachContinues
  <2>2. /\ pend' \subseteq Requests /\ surfaced' \subseteq Requests
        /\ open' \in [Requests -> Nat] /\ shown' \in [Requests -> Nat]
    BY <1>0, <1>10, <2>1, SurfaceTypes DEF ReattachContinues
  <2> QED BY <1>0, <1>10, <2>1, <2>2 DEF ReattachContinues
<1>11. CASE Wire
  <2>1. /\ surfaced' \subseteq Requests
        /\ open' \in [Requests -> Nat] /\ shown' \in [Requests -> Nat]
    BY <1>0, <1>11, SurfaceTypes DEF Wire
  <2> QED BY <1>0, <1>11, <2>1, RelayAssumption DEF Wire
<1>12. CASE Unwire
  BY <1>0, <1>12 DEF Unwire
<1>13. CASE Detach
  <2>1. [t |-> "detach"] \in Calls
    BY DEF Calls
  <2>2. up' \in [Connections -> Seq(Calls)]
    BY <1>0, <1>13, <2>1, AppendFacts DEF Detach
  <2> QED BY <1>0, <1>13, <2>2 DEF Detach
<1>14. CASE Drop
  BY <1>0, <1>14 DEF Drop
<1>15. CASE Reconnect
  <2>1. gen + 1 \in Connections /\ gen + 1 \in Ids
    BY <1>0, <1>15, RelayAssumption DEF RelayInv, Known, Reconnect, Connections, Ids, Rival
  <2>2. [t |-> "attach"] \in Calls
    BY DEF Calls
  <2>3. up' \in [Connections -> Seq(Calls)]
    <3>1. Append(up[gen + 1], [t |-> "attach"]) \in Seq(Calls)
      BY <1>0, <2>1, <2>2, AppendFacts
    <3> QED BY <1>0, <1>15, <2>1, <3>1 DEF Reconnect
  <2> QED BY <1>0, <1>15, <2>1, <2>3 DEF Reconnect
<1>16. ASSUME NEW c \in Connections, Serve(c)
       PROVE  RelayTypeOK'
  <2>1. Head(up[c]) \in Calls /\ Tail(up[c]) \in Seq(Calls)
    BY <1>0, <1>16, TailFacts DEF Serve
  <2>2. up' \in [Connections -> Seq(Calls)]
    BY <1>0, <1>16, <2>1 DEF Serve
  <2>3. c \in Ids
    BY RelayAssumption DEF Connections, Ids, Rival
  <2>4. attached' \subseteq Ids
    BY <1>0, <1>16, <2>3 DEF Serve
  <2>5. /\ Head(up[c]).t \in {"attach", "lateAttach", "detach", "answer"}
        /\ Head(up[c]).t = "answer" => Head(up[c]).r \in Requests
    BY <2>1, CallKinds
  <2>6. /\ phase' \in [Requests -> {"new", "pending", "settled"}]
        /\ UNCHANGED <<shape, targets>>
    BY <1>0, <1>16, <2>5 DEF Serve
  <2>7. down' \in Seq(Lines)
    <3>1. ToClient(c, Attached(Waiting)) \in Seq(Lines)
      BY <1>0, LineTypes, ToClientTypes
    <3>2. Head(up[c]).t = "answer" =>
            /\ ToClient(c, Line("answered", Head(up[c]).r)) \in Seq(Lines)
            /\ ToClient(c, Line("refused", Head(up[c]).r)) \in Seq(Lines)
      BY <1>0, <2>5, LineTypes, ToClientTypes
    <3> QED BY <1>0, <1>16, <2>5, <3>1, <3>2 DEF Serve
  <2> QED BY <1>0, <1>16, <2>2, <2>4, <2>6, <2>7 DEF Serve
<1>17. ASSUME NEW c \in Connections, ConnectionEnds(c)
       PROVE  RelayTypeOK'
  <2>1. /\ phase' \in [Requests -> {"new", "pending", "settled"}]
        /\ targets' \in [Requests -> SUBSET Ids]
        /\ up' \in [Connections -> Seq(Calls)]
    BY <1>0, <1>17 DEF ConnectionEnds
  <2> QED BY <1>0, <1>17, <2>1 DEF ConnectionEnds
<1>18. CASE UNCHANGED relayVars
  BY <1>0, <1>18 DEF relayVars
<1>19. CASE AttachTimesOut \/ ReattachTimesOut
  <2>1. /\ up' \in [Connections -> Seq(Calls)] /\ down' \in Seq(Lines)
        /\ timeouts' \in 0..MaxTimeouts /\ got' = got
    BY <1>19, TimesOut DEF Expired
  <2>2. /\ UNCHANGED <<phase, shape, targets, serving, attached, gen, wired, surfaced, shown, wirings,
                        replayed, raced, late>>
        /\ pend' \subseteq Requests /\ link' = "up"
    BY <1>0, <1>19, TimesOut
  <2>3. handle' \in {"none", "asked", "live", "detached"} /\ open' \in [Requests -> Nat]
    BY <1>0, <1>19, TimesOut
  <2> QED BY <1>0, <2>1, <2>2, <2>3
<1> QED
  BY <1>1, <1>2, <1>3, <1>5, <1>6, <1>7, <1>8, <1>9, <1>10, <1>11, <1>12, <1>13, <1>14, <1>15,
     <1>16, <1>17, <1>18, <1>19 DEF RelayNext, Requests

\* Dispatching counts each claim once and leaves nothing unclaimed.
LEMMA SurfaceClaims ==
  ASSUME RelayTypeOK, Counted, NEW rs \in SUBSET Requests, NEW kinds, Surface(rs, kinds)
  PROVE  /\ Counted'
         /\ surfaced \subseteq surfaced'
         /\ \A r \in rs : Kind(r) \in kinds => r \in surfaced'
  BY DEF Surface, RelayTypeOK, Counted, claim

\* Every step keeps count of what was dispatched.
LEMMA ClaimStep ==
  ASSUME RelayInv, [RelayNext]_relayVars
  PROVE  Counted' /\ Claimed'
<1> USE DEF attachVars, hostVars, chanVars, handleVars, proxyVars, lateVars
<1>0. RelayTypeOK /\ Counted /\ Claimed
  BY DEF RelayInv
<1>1. CASE UNCHANGED <<handle, pend, wired, surfaced, shown, link>>
  BY <1>0, <1>1 DEF Counted, Claimed
<1>2. CASE Receive
  <2>1. Head(down) \in Lines
    BY <1>0, <1>2, TailFacts DEF Receive, RelayTypeOK
  <2>2. UNCHANGED <<handle, wired, link>>
    BY <1>2 DEF Receive
  <2>3. CASE UNCHANGED <<surfaced, shown>> /\ pend' \subseteq pend
    BY <1>0, <2>2, <2>3 DEF Counted, Claimed
  <2>4. CASE Head(down).t = "request" /\ pend' = pend \union {Head(down).r} /\ Surface({Head(down).r}, wired)
    <3>1. {Head(down).r} \in SUBSET Requests
      BY <2>1, <2>4, LineKinds
    <3>2. /\ Counted'
          /\ surfaced \subseteq surfaced'
          /\ Kind(Head(down).r) \in wired => Head(down).r \in surfaced'
      BY <1>0, <2>4, <3>1, SurfaceClaims
    <3> QED BY <1>0, <2>2, <2>4, <3>2 DEF Claimed
  <2> QED BY <1>2, <2>3, <2>4 DEF Receive
<1>3. CASE AttachAsks
  BY <1>0, <1>3 DEF AttachAsks, Counted, Claimed
<1>4. CASE AttachContinues
  BY <1>0, <1>4 DEF AttachContinues, Counted, Claimed
<1>5. CASE ReattachContinues
  <2>1. got[1] \in SUBSET Requests
    BY <1>0, <1>5 DEF ReattachContinues, RelayTypeOK
  <2>2. CASE handle = "live"
    <3>1. Surface(got[1], wired) /\ pend' = got[1] /\ UNCHANGED <<handle, wired>>
      BY <1>5, <2>2 DEF ReattachContinues
    <3>2. Counted' /\ \A r \in got[1] : Kind(r) \in wired => r \in surfaced'
      BY <1>0, <2>1, <3>1, SurfaceClaims
    <3> QED BY <1>5, <2>2, <3>1, <3>2 DEF Claimed, ReattachContinues
  <2>3. CASE handle # "live"
    BY <1>0, <1>5, <2>3 DEF ReattachContinues, Counted, Claimed
  <2> QED BY <2>2, <2>3
<1>6. CASE Wire
  <2> DEFINE kinds == IF link = "up" THEN {"approval", "question"} ELSE {"approval"}
  <2>1. Surface(pend, kinds) /\ wired' = kinds /\ UNCHANGED <<handle, pend, link>> /\ handle = "live"
    BY <1>6 DEF Wire
  <2>2. pend \in SUBSET Requests
    BY <1>0 DEF RelayTypeOK
  <2> HIDE DEF kinds
  <2>3. Counted' /\ \A r \in pend : Kind(r) \in kinds => r \in surfaced'
    BY <1>0, <2>1, <2>2, SurfaceClaims
  <2> QED BY <2>1, <2>3 DEF Claimed
<1>7. CASE Unwire
  BY <1>0, <1>7 DEF Unwire, Counted, Claimed
<1>8. CASE Detach
  BY <1>0, <1>8 DEF Detach, Counted, Claimed
<1>9. CASE Drop
  BY <1>0, <1>9 DEF Drop, Counted, Claimed, RelayTypeOK
<1>10. CASE Reconnect
  BY <1>0, <1>10 DEF Reconnect, Counted, Claimed
<1>12. CASE AttachTimesOut \/ ReattachTimesOut
  <2>1. /\ UNCHANGED <<shown, surfaced>>
        /\ handle' \in {"none", "detached"} \/ (handle' = handle /\ handle \notin {"asked", "live"})
    BY <1>12, TimesOut
  <2>2. Counted'
    BY <1>0, <2>1 DEF Counted
  <2>3. handle' # "asked" /\ handle' # "live"
    BY <2>1
  <2>4. Claimed'
    BY <2>3 DEF Claimed
  <2> QED BY <2>2, <2>4
<1>11. CASE \/ \E r \in Requests, who \in SUBSET Ids :
                \E item \in IF r \in Questions THEN Shapes ELSE {NoShape} : HostAsks(r, item, who)
            \/ \E r \in Requests : HostAborts(r) \/ RivalAnswers(r) \/ QuestionLeft(r)
            \/ \E r \in Approvals, out \in Outcomes \union {"rogue"} : UserDecides(r, out)
            \/ \E r \in Questions : \E ans \in LocalAnswers(shape[r]) : UserReplies(r, ans)
            \/ \E c \in Connections : Serve(c) \/ ConnectionEnds(c)
  BY <1>1, <1>11, ZenonT(60) DEF HostAsks, HostAborts, RivalAnswers, QuestionLeft, UserDecides,
     UserReplies, UserAnswers, Serve, ConnectionEnds
<1> QED
  BY <1>1, <1>2, <1>3, <1>4, <1>5, <1>6, <1>7, <1>8, <1>9, <1>10, <1>11, <1>12
     DEF RelayNext, relayVars

\* Nothing is sent to a lost connection.
LEMMA ToldEmpty ==
  ASSUME link = "down", NEW r, NEW w, NEW m
  PROVE  Told(r, w) = down /\ ToClient(w, m) = down
  BY DEF Told, ToClient

\* No step lets the daemon know a client of the future.
LEMMA KnownStep ==
  ASSUME RelayInv, [RelayNext]_relayVars
  PROVE  Known'
<1> USE DEF attachVars, hostVars, chanVars, handleVars, proxyVars, lateVars
<1>0. /\ RelayTypeOK /\ Known
      /\ gen \in Nat /\ MaxDrops \in Nat
      /\ Connections \subseteq Int
      /\ \A c \in Ids : c \in Int
  BY RelayAssumption DEF RelayInv, Connections, RelayTypeOK, Ids, Rival
<1>1. CASE UNCHANGED <<phase, targets, attached, gen, link, serving, down, got, up>>
  BY <1>0, <1>1 DEF Known
<1>2. ASSUME NEW r \in Requests, NEW who \in SUBSET Ids, NEW item, HostAsks(r, item, who)
      PROVE  Known'
  <2>1. link = "down" => down' = down
    BY <1>2, ToldEmpty DEF HostAsks
  <2> QED BY <1>0, <1>2, <2>1 DEF HostAsks, Known, RelayTypeOK
<1>3. ASSUME NEW r \in Requests, HostAborts(r) \/ RivalAnswers(r)
      PROVE  Known'
  <2>1. link = "down" => down' = down
    BY <1>3, ToldEmpty DEF HostAborts, RivalAnswers
  <2>2. \A q \in Requests : phase'[q] = "new" => phase[q] = "new"
    BY <1>0, <1>3 DEF HostAborts, RivalAnswers, RelayTypeOK
  <2>3. UNCHANGED <<targets, attached, gen, link, serving, got, up>>
    BY <1>3 DEF HostAborts, RivalAnswers
  <2> QED BY <1>0, <2>1, <2>2, <2>3 DEF Known
<1>4. ASSUME NEW r \in Requests, NEW local, NEW body, UserAnswers(r, local, body)
      PROVE  Known'
  BY <1>0, <1>4 DEF UserAnswers, Known, RelayTypeOK
<1>5. CASE Receive
  <2>1. link # "down"
    BY <1>0, <1>5 DEF Receive, Known
  <2> QED BY <1>0, <1>5, <2>1 DEF Receive, Known
<1>6. CASE AttachAsks
  <2>1. UNCHANGED <<phase, targets, attached, gen, link, serving, down, got>>
    BY <1>6 DEF AttachAsks
  <2>2. \A c \in Connections : c > gen => up'[c] = up[c]
    BY <1>0, <1>6 DEF AttachAsks, RelayTypeOK
  <2> QED BY <1>0, <2>1, <2>2 DEF Known
<1>7. CASE AttachContinues \/ ReattachContinues
  <2>1. UNCHANGED <<phase, targets, attached, gen, serving, down, up>> /\ got # <<>>
    BY <1>7 DEF AttachContinues, ReattachContinues
  <2>2. link # "down" /\ link' # "down"
    <3>1. link # "down"
      BY <1>0, <2>1 DEF Known
    <3> QED BY <1>7, <3>1 DEF AttachContinues, ReattachContinues
  <2> QED BY <1>0, <2>1, <2>2 DEF Known
<1>8. CASE Detach
  <2>1. UNCHANGED <<phase, targets, attached, gen, link, serving, down, got>>
    BY <1>8 DEF Detach
  <2>2. \A c \in Connections : c > gen => up'[c] = up[c]
    BY <1>0, <1>8 DEF Detach, RelayTypeOK
  <2> QED BY <1>0, <2>1, <2>2 DEF Known
<1>9. CASE Drop
  BY <1>0, <1>9, ZenonT(60) DEF Drop, Known
<1>10. CASE Reconnect
  BY <1>0, <1>10 DEF Reconnect, Known, RelayTypeOK
<1>11. ASSUME NEW c \in Connections, Serve(c)
       PROVE  Known'
  <2>1. c <= gen
    <3>1. ~(c > gen)
      BY <1>0, <1>11 DEF Serve, Known
    <3> QED BY <1>0, <3>1
  <2>2. link = "down" => down' = down
    BY <1>11, ToldEmpty DEF Serve
  <2>3. \A r \in Requests : phase'[r] = "new" => phase[r] = "new"
    BY <1>0, <1>11 DEF Serve, RelayTypeOK
  <2>4. targets' = targets /\ attached' \subseteq attached \union {c}
    BY <1>11 DEF Serve
  <2>5. \A d \in Connections : d > gen => up'[d] = <<>>
    BY <1>0, <1>11 DEF Serve, Known, RelayTypeOK
  <2> QED BY <1>0, <1>11, <2>1, <2>2, <2>3, <2>4, <2>5 DEF Serve, Known
<1>12. ASSUME NEW c \in Connections, ConnectionEnds(c)
       PROVE  Known'
  BY <1>0, <1>12 DEF ConnectionEnds, Known, RelayTypeOK, Waiting
<1>13. CASE Wire \/ Unwire \/ \E r \in Requests : QuestionLeft(r)
  BY <1>1, <1>13 DEF Wire, Unwire, QuestionLeft
<1>14. CASE AttachTimesOut \/ ReattachTimesOut
  <2>1. /\ UNCHANGED <<phase, targets, attached, gen, serving>>
        /\ link # "down" /\ link' = "up"
    BY <1>14, TimesOut
  <2>2. ASSUME NEW c \in Connections, c > gen
        PROVE  up'[c] = <<>>
    <3>1. up'[c] \in Seq(Calls) /\ Len(up'[c]) = Len(up[c]) /\ up[c] = <<>>
      BY <1>0, <1>14, <2>2, TimesOut DEF Known, Expired
    <3> QED BY <3>1
  <2> QED BY <1>0, <2>1, <2>2 DEF Known
<1> QED
  BY <1>1, <1>2, <1>3, <1>4, <1>5, <1>6, <1>7, <1>8, <1>9, <1>10, <1>11, <1>12, <1>13, <1>14
     DEF RelayNext, relayVars, UserDecides, UserReplies, Requests

\* A request is never new again, a settled one stays settled, and no target is added.
LEMMA PhaseStep ==
  ASSUME RelayInv, [RelayNext]_relayVars, NEW q \in Requests
  PROVE  /\ phase[q] # "new" => phase'[q] # "new" /\ targets'[q] \subseteq targets[q]
         /\ phase[q] = "settled" => phase'[q] = "settled" /\ targets'[q] = targets[q]
<1> USE DEF attachVars, hostVars, chanVars, handleVars, proxyVars, lateVars
<1>0. RelayTypeOK
  BY DEF RelayInv
<1>1. CASE UNCHANGED <<phase, targets>>
  BY <1>1
<1>2. ASSUME NEW r \in Requests, NEW who, NEW item, HostAsks(r, item, who)
      PROVE  /\ phase[q] # "new" => phase'[q] # "new" /\ targets'[q] \subseteq targets[q]
             /\ phase[q] = "settled" => phase'[q] = "settled" /\ targets'[q] = targets[q]
  BY <1>0, <1>2 DEF HostAsks, RelayTypeOK
<1>3. ASSUME NEW r \in Requests, HostAborts(r) \/ RivalAnswers(r)
      PROVE  /\ phase[q] # "new" => phase'[q] # "new" /\ targets'[q] \subseteq targets[q]
             /\ phase[q] = "settled" => phase'[q] = "settled" /\ targets'[q] = targets[q]
  BY <1>0, <1>3 DEF HostAborts, RivalAnswers, RelayTypeOK
<1>4. ASSUME NEW c \in Connections, Serve(c)
      PROVE  /\ phase[q] # "new" => phase'[q] # "new" /\ targets'[q] \subseteq targets[q]
             /\ phase[q] = "settled" => phase'[q] = "settled" /\ targets'[q] = targets[q]
  BY <1>0, <1>4 DEF Serve, RelayTypeOK
<1>5. ASSUME NEW c \in Connections, ConnectionEnds(c)
      PROVE  /\ phase[q] # "new" => phase'[q] # "new" /\ targets'[q] \subseteq targets[q]
             /\ phase[q] = "settled" => phase'[q] = "settled" /\ targets'[q] = targets[q]
  BY <1>0, <1>5 DEF ConnectionEnds, RelayTypeOK, Waiting
<1>6. CASE \/ Receive \/ AttachAsks \/ AttachContinues \/ ReattachContinues
           \/ AttachTimesOut \/ ReattachTimesOut
           \/ Wire \/ Unwire \/ Detach \/ Drop \/ Reconnect
  BY <1>1, <1>6 DEF Receive, AttachAsks, AttachContinues, ReattachContinues, AttachTimesOut, ReattachTimesOut,
     AttachExpires, Wire, Unwire, Detach,
     Drop, Reconnect
<1>7. CASE \/ \E r \in Requests : QuestionLeft(r)
           \/ \E r \in Approvals, out \in Outcomes \union {"rogue"} : UserDecides(r, out)
           \/ \E r \in Questions : \E ans \in LocalAnswers(shape[r]) : UserReplies(r, ans)
  BY <1>1, <1>7 DEF QuestionLeft, UserDecides, UserReplies, UserAnswers
<1> QED
  BY <1>1, <1>2, <1>3, <1>4, <1>5, <1>6, <1>7 DEF RelayNext, relayVars

\* A call in flight was there before, or is a new one of the present connection.
LEMMA CallsStep ==
  ASSUME RelayInv, [RelayNext]_relayVars, NEW c \in Connections, NEW i \in 1..Len(up'[c])
  PROVE  \/ \E k \in 1..Len(up[c]) : up'[c][i] = up[c][k]
         \/ c = gen' /\ (up'[c][i].t = "answer" => up'[c][i].r \in Requests /\ open[up'[c][i].r] > 0 /\ Faithful(up'[c][i], shape[up'[c][i].r]))
<1> USE DEF attachVars, hostVars, chanVars, handleVars, proxyVars, lateVars
<1>0. /\ RelayTypeOK
      /\ up[c] \in Seq(Calls) /\ gen \in Connections
      /\ Len(up[c]) \in Nat
  BY DEF RelayInv, RelayTypeOK
<1>1. CASE up'[c] = up[c]
  BY <1>1
<1>2. ASSUME NEW m \in Calls, up'[c] = Append(up[c], m), c = gen',
             m.t = "answer" => m.r \in Requests /\ open[m.r] > 0 /\ Faithful(m, shape[m.r])
      PROVE  \/ \E k \in 1..Len(up[c]) : up'[c][i] = up[c][k]
             \/ c = gen' /\ (up'[c][i].t = "answer" => up'[c][i].r \in Requests /\ open[up'[c][i].r] > 0 /\ Faithful(up'[c][i], shape[up'[c][i].r]))
  <2>1. /\ Len(up'[c]) = Len(up[c]) + 1
        /\ \A j \in 1..Len(up[c]) : up'[c][j] = up[c][j]
        /\ up'[c][Len(up[c]) + 1] = m
    BY <1>0, <1>2, AppendFacts
  <2>2. i \in 1..Len(up[c]) \/ i = Len(up[c]) + 1
    BY <1>0, <2>1
  <2> QED BY <1>2, <2>1, <2>2
<1>3. ASSUME NEW r \in Requests, NEW local, NEW body, UserAnswers(r, local, body),
             [t |-> "answer", r |-> r, body |-> body, local |-> local] \in Calls,
             Faithful([t |-> "answer", r |-> r, body |-> body, local |-> local], shape[r])
      PROVE  \/ \E k \in 1..Len(up[c]) : up'[c][i] = up[c][k]
             \/ c = gen' /\ (up'[c][i].t = "answer" => up'[c][i].r \in Requests /\ open[up'[c][i].r] > 0 /\ Faithful(up'[c][i], shape[up'[c][i].r]))
  <2> DEFINE m == [t |-> "answer", r |-> r, body |-> body, local |-> local]
  <2>1. up'[c] = up[c] \/ (c = gen' /\ up'[c] = Append(up[c], m))
    BY <1>0, <1>3 DEF UserAnswers, RelayTypeOK
  <2>2. m \in Calls /\ m.r \in Requests /\ open[m.r] > 0 /\ Faithful(m, shape[m.r])
    BY <1>3 DEF UserAnswers
  <2> HIDE DEF m
  <2> QED BY <1>1, <1>2, <2>1, <2>2
<1>4. ASSUME NEW r \in Approvals, NEW out \in Outcomes \union {"rogue"}, UserDecides(r, out)
      PROVE  \/ \E k \in 1..Len(up[c]) : up'[c][i] = up[c][k]
             \/ c = gen' /\ (up'[c][i].t = "answer" => up'[c][i].r \in Requests /\ open[up'[c][i].r] > 0 /\ Faithful(up'[c][i], shape[up'[c][i].r]))
  <2>1. [t |-> "answer", r |-> r, body |-> Decision(Normalised(out)), local |-> out] \in Calls
    BY DEF Calls, Decided
  <2>2. Faithful([t |-> "answer", r |-> r, body |-> Decision(Normalised(out)), local |-> out], shape[r])
    BY DEF Faithful
  <2> QED BY <1>3, <1>4, <2>1, <2>2 DEF UserDecides, Requests
<1>5. ASSUME NEW r \in Questions, NEW ans \in LocalAnswers(shape[r]), UserReplies(r, ans)
      PROVE  \/ \E k \in 1..Len(up[c]) : up'[c][i] = up[c][k]
             \/ c = gen' /\ (up'[c][i].t = "answer" => up'[c][i].r \in Requests /\ open[up'[c][i].r] > 0 /\ Faithful(up'[c][i], shape[up'[c][i].r]))
  <2>1. shape[r] \in Shapes \union {NoShape}
    BY <1>0 DEF Requests, RelayTypeOK
  <2>2. [t |-> "answer", r |-> r, body |-> toWireAnswers(shape[r], ans), local |-> ans] \in Replied(shape[r])
    BY DEF Replied
  <2>3. [t |-> "answer", r |-> r, body |-> toWireAnswers(shape[r], ans), local |-> ans] \in Calls
    BY <2>1, <2>2 DEF Calls
  <2>4. Faithful([t |-> "answer", r |-> r, body |-> toWireAnswers(shape[r], ans), local |-> ans], shape[r])
    BY RelayAssumption, Zenon DEF Faithful
  <2> QED BY <1>3, <1>5, <2>3, <2>4 DEF UserReplies, Requests
<1>6. CASE AttachAsks \/ Detach \/ Reconnect
  <2>1. \A s \in {"attach", "detach"} : [t |-> s] \in Calls /\ [t |-> s].t # "answer"
    BY DEF Calls
  <2>2. \/ up'[c] = up[c]
        \/ c = gen' /\ up'[c] = Append(up[c], [t |-> "attach"])
        \/ c = gen' /\ up'[c] = Append(up[c], [t |-> "detach"])
    BY <1>0, <1>6 DEF AttachAsks, Detach, Reconnect, RelayTypeOK
  <2> QED BY <1>1, <1>2, <2>1, <2>2
<1>7. ASSUME NEW d \in Connections, Serve(d)
      PROVE  \/ \E k \in 1..Len(up[c]) : up'[c][i] = up[c][k]
             \/ c = gen' /\ (up'[c][i].t = "answer" => up'[c][i].r \in Requests /\ open[up'[c][i].r] > 0 /\ Faithful(up'[c][i], shape[up'[c][i].r]))
  <2>1. CASE c # d
    BY <1>0, <1>1, <1>7, <2>1 DEF Serve, RelayTypeOK
  <2>2. CASE c = d
    <3>1. up[c] # <<>> /\ up'[c] = Tail(up[c])
      BY <1>0, <1>7, <2>2 DEF Serve, RelayTypeOK
    <3>2. Len(up'[c]) = Len(up[c]) - 1 /\ \A j \in 1..Len(up'[c]) : up'[c][j] = up[c][j + 1]
      BY <1>0, <3>1, TailFacts
    <3> QED BY <1>0, <3>2
  <2> QED BY <2>1, <2>2
<1>8. ASSUME NEW d \in Connections, ConnectionEnds(d)
      PROVE  \E k \in 1..Len(up[c]) : up'[c][i] = up[c][k]
  <2>1. up'[c] = up[c] \/ up'[c] = <<>>
    BY <1>0, <1>8 DEF ConnectionEnds, RelayTypeOK
  <2> QED BY <1>1, <2>1
<1>9. CASE \/ Receive \/ AttachContinues \/ ReattachContinues \/ Wire \/ Unwire \/ Drop
  BY <1>1, <1>9 DEF Receive, AttachContinues, ReattachContinues, Wire, Unwire, Drop
<1>11. CASE AttachTimesOut \/ ReattachTimesOut
  <2>1. /\ Len(up'[c]) = Len(up[c]) /\ gen' = gen
        /\ up'[c][i] = up[c][i] \/ (c = gen /\ up'[c][i] = [t |-> "lateAttach"])
    BY <1>11, TimesOut DEF Expired
  <2>2. [t |-> "lateAttach"].t # "answer"
    OBVIOUS
  <2> QED BY <2>1, <2>2
<1>10. CASE \/ \E r \in Requests : HostAborts(r) \/ RivalAnswers(r) \/ QuestionLeft(r)
            \/ \E r \in Requests, who \in SUBSET Ids :
                 \E item \in IF r \in Questions THEN Shapes ELSE {NoShape} : HostAsks(r, item, who)
            \/ UNCHANGED relayVars
  BY <1>1, <1>10 DEF QuestionLeft, HostAborts, RivalAnswers, HostAsks, relayVars
<1> QED
  BY <1>4, <1>5, <1>6, <1>7, <1>8, <1>9, <1>10, <1>11 DEF RelayNext

\* Dialogs are opened only for requests that were asked.
LEMMA SurfaceBegun ==
  ASSUME RelayTypeOK, Begun, NEW rs \in SUBSET Requests, NEW kinds, Surface(rs, kinds),
         \A r \in rs : phase[r] # "new"
  PROVE  \A r \in Requests : open'[r] > 0 => phase[r] # "new"
  BY DEF RelayTypeOK, Begun, Surface

\* Every step keeps what the proxy knows of within what was asked.
LEMMA BegunStep ==
  ASSUME RelayInv, [RelayNext]_relayVars
  PROVE  Begun'
<1> USE DEF attachVars, hostVars, chanVars, handleVars, proxyVars, lateVars
<1>0. RelayTypeOK /\ Begun /\ Known /\ gen \in Nat /\ MaxDrops \in Nat
  BY RelayAssumption DEF RelayInv, RelayTypeOK, Connections
<1>1. \A r \in Requests : phase[r] # "new" => phase'[r] # "new"
  BY PhaseStep
<1>2. \A c \in Connections : \A i \in 1..Len(up'[c]) :
        up'[c][i].t = "answer" => /\ phase'[up'[c][i].r] # "new"
                                  /\ c # gen' => gen' \notin targets'[up'[c][i].r]
  <2> SUFFICES ASSUME NEW c \in Connections, NEW i \in 1..Len(up'[c]), up'[c][i].t = "answer"
               PROVE  /\ phase'[up'[c][i].r] # "new"
                      /\ c # gen' => gen' \notin targets'[up'[c][i].r]
    OBVIOUS
  <2>1. CASE \E k \in 1..Len(up[c]) : up'[c][i] = up[c][k]
    <3> PICK k \in 1..Len(up[c]) : up'[c][i] = up[c][k]
      BY <2>1
    <3>1. /\ up[c][k].t = "answer"
          /\ phase[up[c][k].r] # "new"
          /\ c # gen => gen \notin targets[up[c][k].r]
      BY <1>0 DEF Begun
    <3>2. up[c] \in Seq(Calls) /\ up[c][k] \in Calls
      BY <1>0 DEF RelayTypeOK
    <3>3. up[c][k].r \in Requests
      BY <3>1, <3>2, CallKinds
    <3>4. phase'[up[c][k].r] # "new" /\ targets'[up[c][k].r] \subseteq targets[up[c][k].r]
      BY <3>1, <3>3, PhaseStep, SMTT(60)
    <3>5. gen' = gen \/ gen' = gen + 1
      BY DEF RelayNext, relayVars, HostAsks, HostAborts, RivalAnswers, QuestionLeft, UserDecides,
         UserReplies, UserAnswers, Receive, AttachAsks, AttachContinues, ReattachContinues,
     AttachTimesOut, ReattachTimesOut, AttachExpires, Wire,
         Unwire, Detach, Drop, Reconnect, Serve, ConnectionEnds
    <3>6. \A d \in targets[up[c][k].r] : d <= gen
      BY <1>0, <3>3 DEF Known
    <3>7. gen' # gen => gen' \notin targets[up[c][k].r]
      BY <1>0, <3>5, <3>6
    <3> QED BY <3>1, <3>4, <3>7
  <2>2. CASE c = gen' /\ up'[c][i].r \in Requests /\ open[up'[c][i].r] > 0
    BY <1>0, <1>1, <2>2 DEF Begun
  <2> QED BY <2>1, <2>2, CallsStep
<1>3. (\A r \in pend' : phase'[r] # "new") /\ (\A r \in Requests : open'[r] > 0 => phase'[r] # "new")
  <2>1. CASE pend' \subseteq pend /\ \A r \in Requests : open'[r] > 0 => open[r] > 0
    BY <1>0, <1>1, <2>1 DEF Begun, RelayTypeOK
  <2>2. ASSUME NEW rs \in SUBSET Requests, NEW kinds, Surface(rs, kinds), phase' = phase,
               \A r \in rs : phase[r] # "new", pend' \subseteq pend \union rs
        PROVE  (\A r \in pend' : phase'[r] # "new") /\ (\A r \in Requests : open'[r] > 0 => phase'[r] # "new")
    BY <1>0, <2>2, SurfaceBegun DEF Begun
  <2>3. CASE Receive
    <3>1. /\ Head(down) \in Lines /\ Head(down) = down[1] /\ Len(down) \in Nat /\ Len(down) >= 1
      BY <1>0, <2>3, TailFacts DEF Receive, RelayTypeOK
    <3>2. CASE UNCHANGED open /\ pend' \subseteq pend
      BY <2>1, <3>2
    <3>3. CASE Head(down).t = "request" /\ pend' = pend \union {Head(down).r} /\ Surface({Head(down).r}, wired)
      <4>1. phase[Head(down).r] # "new" /\ Head(down).r \in Requests
        BY <3>1, <3>3, LineKinds DEF RelayInv, LinesTrue
      <4>2. phase' = phase
        BY <2>3 DEF Receive
      <4> QED BY <2>2, <3>3, <4>1, <4>2
    <3> QED BY <2>3, <3>2, <3>3 DEF Receive
  <2>4. got # <<>> => got[1] \in SUBSET Requests /\ \A r \in got[1] : phase[r] # "new"
    BY <1>0 DEF RelayInv, ListTrue, RelayTypeOK
  <2>5. CASE AttachContinues
    BY <1>0, <2>4, <2>5 DEF AttachContinues, Begun
  <2>6. CASE ReattachContinues
    <3>1. CASE handle = "live"
      BY <2>2, <2>4, <2>6, <3>1 DEF ReattachContinues
    <3>2. CASE handle # "live"
      BY <2>1, <2>6, <3>2 DEF ReattachContinues
    <3> QED BY <3>1, <3>2
  <2>7. CASE Wire
    <3>1. pend \in SUBSET Requests /\ \A r \in pend : phase[r] # "new"
      BY <1>0 DEF Begun, RelayTypeOK
    <3> QED BY <2>2, <2>7, <3>1 DEF Wire
  <2>8. CASE Detach \/ Drop \/ Unwire \/ Reconnect \/ AttachAsks \/ UNCHANGED relayVars
    BY <2>1, <2>8 DEF Detach, Drop, Unwire, Reconnect, AttachAsks, relayVars
  <2>9. ASSUME NEW r \in Requests, QuestionLeft(r) \/ \E local, body : UserAnswers(r, local, body)
        PROVE  (\A q \in pend' : phase'[q] # "new") /\ (\A q \in Requests : open'[q] > 0 => phase'[q] # "new")
    BY <1>0, <2>1, <2>9 DEF QuestionLeft, UserAnswers, RelayTypeOK
  <2>10. CASE \/ \E r \in Requests : HostAborts(r) \/ RivalAnswers(r)
              \/ \E r \in Requests, who \in SUBSET Ids :
                   \E item \in IF r \in Questions THEN Shapes ELSE {NoShape} : HostAsks(r, item, who)
              \/ \E c \in Connections : Serve(c) \/ ConnectionEnds(c)
    BY <2>1, <2>10 DEF HostAborts, RivalAnswers, HostAsks, Serve, ConnectionEnds
  <2>11. CASE AttachTimesOut \/ ReattachTimesOut
    <3>1. pend' \subseteq pend /\ \A r \in Requests : open'[r] > 0 => open[r] > 0
      BY <1>0, <2>11, TimesOut
    <3> QED BY <2>1, <3>1
  <2> QED BY <2>3, <2>5, <2>6, <2>7, <2>8, <2>9, <2>10, <2>11
          DEF RelayNext, UserDecides, UserReplies, Requests
<1> QED BY <1>2, <1>3 DEF Begun

\* A line is sent: what the lines on their way say already still holds.
LEMMA DownGrows ==
  ASSUME RelayTypeOK, NEW m \in Lines, down' = Append(down, m)
  PROVE  /\ AnswerWaits' <=> AnswerWaits \/ m.t = "attached"
         /\ AnswerOnce /\ ~(AnswerWaits /\ m.t = "attached") => AnswerOnce'
         /\ \A r : ListedBelow(r) \/ (m.t = "attached" /\ r \in m.pending) => ListedBelow(r)'
         /\ \A r : \A k \in 0..Len(down) : ClosedAfter(k, r) \/ IsClosing(m, r) => ClosedAfter(k, r)'
         /\ \A r : ComesLast(r) /\ m.t # "attached" => ComesLast(r)'
         /\ \A r : IsRequest(m, r) => ComesLast(r)'
<1>1. /\ Len(down) \in Nat
      /\ Len(down') = Len(down) + 1
      /\ \A i \in 1..Len(down) : down'[i] = down[i]
      /\ down'[Len(down) + 1] = m
  BY AppendFacts DEF RelayTypeOK
<1>2. PICK n \in Nat : n = Len(down)
  BY <1>1
<1>3. /\ Len(down') = n + 1 /\ n + 1 \in 1..(n + 1)
      /\ \A i \in 1..n : down'[i] = down[i]
      /\ \A i \in 1..(n + 1) : i \in 1..n \/ i = n + 1
      /\ \A i \in 1..n : i \in 1..(n + 1)
      /\ down'[n + 1] = m
  BY <1>1, <1>2
<1>4. AnswerWaits' <=> AnswerWaits \/ m.t = "attached"
  BY <1>2, <1>3 DEF AnswerWaits
<1>5. AnswerOnce /\ ~(AnswerWaits /\ m.t = "attached") => AnswerOnce'
  BY <1>2, <1>3 DEF AnswerWaits, AnswerOnce
<1>6. ASSUME NEW r
      PROVE  ListedBelow(r) \/ (m.t = "attached" /\ r \in m.pending) => ListedBelow(r)'
  BY <1>2, <1>3 DEF ListedBelow
<1>7. ASSUME NEW r, NEW k \in 0..Len(down)
      PROVE  ClosedAfter(k, r) \/ IsClosing(m, r) => ClosedAfter(k, r)'
  <2>1. ClosedAfter(k, r) => ClosedAfter(k, r)'
    BY <1>2, <1>3 DEF ClosedAfter, IsClosing
  <2>2. n + 1 \in (k + 1)..(n + 1)
    BY <1>2
  <2>3. IsClosing(m, r) => ClosedAfter(k, r)'
    BY <1>3, <2>2 DEF ClosedAfter, IsClosing
  <2> QED BY <2>1, <2>3
<1>8. ASSUME NEW r, ComesLast(r), m.t # "attached"
      PROVE  ComesLast(r)'
  <2> PICK i \in 1..n : IsRequest(down[i], r) /\ \A j \in (i + 1)..n : down[j].t # "attached"
    BY <1>2, <1>8 DEF ComesLast
  <2>1. i \in 1..(n + 1) /\ IsRequest(down'[i], r)
    BY <1>3 DEF IsRequest
  <2>2. ASSUME NEW j \in (i + 1)..(n + 1)
        PROVE  down'[j].t # "attached"
    <3>1. CASE j = n + 1
      BY <1>3, <1>8, <3>1
    <3>2. CASE j # n + 1
      <4>1. j \in (i + 1)..n /\ j \in 1..n
        BY <3>2
      <4> QED BY <1>3, <4>1
    <3> QED BY <3>1, <3>2
  <2> QED BY <1>3, <2>1, <2>2 DEF ComesLast, IsRequest
<1>9. ASSUME NEW r, IsRequest(m, r)
      PROVE  ComesLast(r)'
  <2>1. \A j \in (n + 1 + 1)..(n + 1) : FALSE
    OBVIOUS
  <2> QED BY <1>3, <1>9, <2>1 DEF ComesLast, IsRequest
<1> QED BY <1>4, <1>5, <1>6, <1>7, <1>8, <1>9

\* The predecessor of a positive number.
LEMMA OneLess ==
  ASSUME NEW k \in Nat, k >= 1
  PROVE  \E n \in Nat : k = n + 1 /\ k - 1 = n
<1>1. k - 1 \in Nat /\ k = (k - 1) + 1
  BY SMTT(60)
<1> QED BY <1>1

\* The first line is received: the others move up by one.
LEMMA DownTaken ==
  ASSUME RelayTypeOK, down # <<>>, down' = Tail(down)
  PROVE  /\ AnswerWaits' => AnswerWaits
         /\ AnswerWaits => AnswerWaits' \/ down[1].t = "attached"
         /\ AnswerOnce => AnswerOnce'
         /\ AnswerOnce /\ down[1].t = "attached" => ~AnswerWaits'
         /\ \A r : ListedBelow(r) => ListedBelow(r)' \/ (down[1].t = "attached" /\ r \in down[1].pending)
         /\ \A r : \A k \in 0..Len(down) : ClosedAfter(k + 1, r) => ClosedAfter(k, r)'
         /\ \A r : ClosedAfter(0, r) => ClosedAfter(0, r)' \/ IsClosing(down[1], r)
         /\ \A r : ComesLast(r) => ComesLast(r)' \/ (IsRequest(down[1], r) /\ ~AnswerWaits')
<1>1. /\ Len(down) \in Nat /\ Len(down) >= 1
      /\ Len(down') = Len(down) - 1
      /\ \A i \in 1..Len(down') : down'[i] = down[i + 1]
  BY TailFacts DEF RelayTypeOK
<1>2. PICK n \in Nat : Len(down) = n + 1 /\ Len(down') = n
  BY <1>1, OneLess, ZenonT(30)
<1>3. /\ \A i \in 1..n : down'[i] = down[i + 1]
      /\ \A i \in 1..n : i + 1 \in 1..(n + 1) /\ i + 1 # 1
      /\ \A i \in 1..(n + 1) : i = 1 \/ (i - 1 \in 1..n /\ down'[i - 1] = down[i])
      /\ 1 \in 1..(n + 1)
  BY <1>1, <1>2
<1>4. /\ AnswerWaits' => AnswerWaits
      /\ AnswerWaits => AnswerWaits' \/ down[1].t = "attached"
  <2>1. AnswerWaits' => AnswerWaits
    BY <1>2, <1>3 DEF AnswerWaits
  <2>2. ASSUME NEW i \in 1..(n + 1), down[i].t = "attached", down[1].t # "attached"
        PROVE  AnswerWaits'
    <3>1. i - 1 \in 1..n /\ down'[i - 1] = down[i]
      BY <1>3, <2>2
    <3> QED BY <1>2, <2>2, <3>1 DEF AnswerWaits
  <2> QED BY <1>2, <2>1, <2>2 DEF AnswerWaits
<1>5. AnswerOnce => AnswerOnce'
  BY <1>2, <1>3 DEF AnswerOnce
<1>6. AnswerOnce /\ down[1].t = "attached" => ~AnswerWaits'
  BY <1>2, <1>3 DEF AnswerOnce, AnswerWaits
<1>7. ASSUME NEW r
      PROVE  ListedBelow(r) => ListedBelow(r)' \/ (down[1].t = "attached" /\ r \in down[1].pending)
  <2>1. ASSUME NEW i \in 1..(n + 1), i # 1, down[i].t = "attached", r \in down[i].pending
        PROVE  ListedBelow(r)'
    <3>1. i - 1 \in 1..n /\ down'[i - 1] = down[i]
      BY <1>3, <2>1
    <3> QED BY <1>2, <2>1, <3>1 DEF ListedBelow
  <2> QED BY <1>2, <2>1 DEF ListedBelow
<1>8. ASSUME NEW r, NEW k \in 0..Len(down), ClosedAfter(k + 1, r)
      PROVE  ClosedAfter(k, r)'
  <2> PICK i \in (k + 2)..(n + 1) : IsClosing(down[i], r)
    BY <1>2, <1>8 DEF ClosedAfter
  <2>1. i - 1 \in (k + 1)..n /\ i \in 1..(n + 1) /\ i # 1
    BY <1>2
  <2>2. IsClosing(down'[i - 1], r)
    BY <1>3, <2>1
  <2> QED BY <1>2, <2>1, <2>2 DEF ClosedAfter, IsClosing
<1>9. ASSUME NEW r, ClosedAfter(0, r), ~IsClosing(down[1], r)
      PROVE  ClosedAfter(0, r)'
  <2> PICK i \in 1..(n + 1) : IsClosing(down[i], r)
    BY <1>2, <1>9 DEF ClosedAfter
  <2>1. i - 1 \in 1..n /\ down'[i - 1] = down[i]
    BY <1>3, <1>9
  <2> QED BY <1>2, <2>1, SMTT(60) DEF ClosedAfter, IsClosing
<1>10. ASSUME NEW r, ComesLast(r)
       PROVE  ComesLast(r)' \/ (IsRequest(down[1], r) /\ ~AnswerWaits')
  <2> PICK i \in 1..(n + 1) : IsRequest(down[i], r) /\ \A j \in (i + 1)..(n + 1) : down[j].t # "attached"
    BY <1>2, <1>10 DEF ComesLast
  <2>1. CASE i = 1
    <3>1. \A j \in 1..n : j + 1 \in (i + 1)..(n + 1)
      BY <2>1
    <3>2. ~AnswerWaits'
      BY <1>2, <1>3, <3>1 DEF AnswerWaits
    <3> QED BY <2>1, <3>2
  <2>2. CASE i # 1
    <3>1. i - 1 \in 1..n /\ IsRequest(down'[i - 1], r)
      BY <1>3, <2>2
    <3>2. ASSUME NEW j \in (i - 1 + 1)..n
          PROVE  down'[j].t # "attached"
      <4>1. j \in 1..n /\ j + 1 \in (i + 1)..(n + 1)
        OBVIOUS
      <4> QED BY <1>3, <4>1
    <3> QED BY <1>2, <3>1, <3>2 DEF ComesLast, IsRequest
  <2> QED BY <2>1, <2>2
<1> QED BY <1>4, <1>5, <1>6, <1>7, <1>8, <1>9, <1>10

\* A call is sent on the present connection.
LEMMA CallsGrow ==
  ASSUME RelayTypeOK, NEW m \in Calls, gen' = gen, up'[gen] = Append(up[gen], m)
  PROVE  /\ CallWaits' <=> CallWaits \/ m.t = "attach"
         /\ CallOnce /\ ~(CallWaits /\ m.t = "attach") => CallOnce'
<1>1. /\ Len(up[gen]) \in Nat
      /\ Len(up'[gen]) = Len(up[gen]) + 1
      /\ \A i \in 1..Len(up[gen]) : up'[gen][i] = up[gen][i]
      /\ up'[gen][Len(up[gen]) + 1] = m
  BY AppendFacts DEF RelayTypeOK
<1>2. PICK n \in Nat : n = Len(up[gen])
  BY <1>1
<1>3. /\ Len(up'[gen']) = n + 1 /\ n + 1 \in 1..(n + 1)
      /\ \A i \in 1..n : up'[gen'][i] = up[gen][i]
      /\ \A i \in 1..(n + 1) : i \in 1..n \/ i = n + 1
      /\ \A i \in 1..n : i \in 1..(n + 1)
      /\ up'[gen'][n + 1] = m
  BY <1>1, <1>2
<1>4. CallWaits' <=> CallWaits \/ m.t = "attach"
  BY <1>2, <1>3 DEF CallWaits
<1>5. CallOnce /\ ~(CallWaits /\ m.t = "attach") => CallOnce'
  BY <1>2, <1>3 DEF CallWaits, CallOnce
<1> QED BY <1>4, <1>5

\* The first call of the present connection is served.
LEMMA CallTaken ==
  ASSUME RelayTypeOK, gen' = gen, up[gen] # <<>>, up'[gen] = Tail(up[gen])
  PROVE  /\ CallWaits' => CallWaits
         /\ CallWaits => CallWaits' \/ Head(up[gen]).t = "attach"
         /\ Head(up[gen]).t = "attach" => CallWaits
         /\ CallOnce => CallOnce'
         /\ CallOnce /\ Head(up[gen]).t = "attach" => ~CallWaits'
<1>1. /\ Len(up[gen]) \in Nat /\ Len(up[gen]) >= 1
      /\ Len(up'[gen]) = Len(up[gen]) - 1
      /\ \A i \in 1..Len(up'[gen]) : up'[gen][i] = up[gen][i + 1]
      /\ Head(up[gen]) = up[gen][1]
  BY TailFacts DEF RelayTypeOK
<1>2. PICK n \in Nat : Len(up[gen]) = n + 1 /\ Len(up'[gen']) = n
  BY <1>1, OneLess, ZenonT(30)
<1>3. /\ \A i \in 1..n : up'[gen'][i] = up[gen][i + 1]
      /\ \A i \in 1..n : i + 1 \in 1..(n + 1) /\ i + 1 # 1
      /\ \A i \in 1..(n + 1) : i = 1 \/ (i - 1 \in 1..n /\ up'[gen'][i - 1] = up[gen][i])
      /\ 1 \in 1..(n + 1)
  BY <1>1, <1>2
<1>4. /\ CallWaits' => CallWaits
      /\ CallWaits => CallWaits' \/ Head(up[gen]).t = "attach"
      /\ Head(up[gen]).t = "attach" => CallWaits
  BY <1>1, <1>2, <1>3 DEF CallWaits
<1>5. ASSUME CallOnce
      PROVE  CallOnce'
  <2> SUFFICES ASSUME NEW i \in 1..n, NEW j \in 1..n,
                      up'[gen'][i].t = "attach", up'[gen'][j].t = "attach"
               PROVE  i = j
    BY <1>2 DEF CallOnce
  <2>1. /\ i + 1 \in 1..(n + 1) /\ up[gen][i + 1].t = "attach"
        /\ j + 1 \in 1..(n + 1) /\ up[gen][j + 1].t = "attach"
    BY <1>3
  <2>2. i + 1 = j + 1
    BY <1>2, <1>5, <2>1 DEF CallOnce
  <2> QED BY <2>2
<1>6. ASSUME CallOnce, Head(up[gen]).t = "attach"
      PROVE  ~CallWaits'
  <2> SUFFICES ASSUME NEW i \in 1..n, up'[gen'][i].t = "attach"
               PROVE  FALSE
    BY <1>2 DEF CallWaits
  <2>1. i + 1 \in 1..(n + 1) /\ up[gen][i + 1].t = "attach" /\ i + 1 # 1
    BY <1>3
  <2> QED BY <1>1, <1>2, <1>3, <1>6, <2>1 DEF CallOnce
<1> QED BY <1>4, <1>5, <1>6

\* The present connection hears of the end of every request it is a target of.
LEMMA ToldIs ==
  ASSUME RelayInv, NEW r \in Requests, NEW w \in {NoOne, Rival}, link # "down"
  PROVE  Told(r, w) = IF gen \in targets[r] THEN Append(down, Line("closed", r)) ELSE down
<1>1. gen \in serving /\ gen \in Nat
  BY RelayAssumption DEF RelayInv, Known, RelayTypeOK, Connections
<1>2. gen # w
  BY <1>1 DEF NoOne, Rival
<1> QED BY <1>1, <1>2 DEF Told, ToClient

\* A line other than an attach answer leaves the attach where it is.
LEMMA OneAttachGrows ==
  ASSUME RelayInv, NEW m \in Lines, down' = Append(down, m), m.t # "attached",
         UNCHANGED <<gen, link, got, handle>>, up'[gen] = up[gen]
  PROVE  OneAttach'
<1>1. RelayTypeOK /\ OneAttach
  BY DEF RelayInv
<1>2. /\ AnswerWaits' <=> AnswerWaits
      /\ AnswerOnce => AnswerOnce'
  BY <1>1, DownGrows
<1>3. (CallWaits' <=> CallWaits) /\ (CallOnce' <=> CallOnce) /\ (Attaching' <=> Attaching)
  BY DEF CallWaits, CallOnce, Attaching
<1> QED BY <1>1, <1>2, <1>3 DEF OneAttach

\* So does a call other than session.attach.
LEMMA OneAttachCalls ==
  ASSUME RelayInv, NEW m \in Calls, up'[gen] = Append(up[gen], m), m.t # "attach",
         UNCHANGED <<gen, link, got, down>>, Attaching' <=> Attaching
  PROVE  OneAttach'
<1>1. RelayTypeOK /\ OneAttach
  BY DEF RelayInv
<1>2. /\ CallWaits' <=> CallWaits
      /\ CallOnce => CallOnce'
  BY <1>1, CallsGrow
<1>3. (AnswerWaits' <=> AnswerWaits) /\ (AnswerOnce' <=> AnswerOnce)
  BY DEF AnswerWaits, AnswerOnce
<1> QED BY <1>1, <1>2, <1>3 DEF OneAttach

\* So does a step that sends nothing on the present connection.
LEMMA OneAttachSame ==
  ASSUME RelayInv, UNCHANGED <<gen, link, got, down>>, up'[gen] = up[gen], Attaching' <=> Attaching
  PROVE  OneAttach'
<1>1. OneAttach
  BY DEF RelayInv
<1>2. (CallWaits' <=> CallWaits) /\ (CallOnce' <=> CallOnce)
  BY DEF CallWaits, CallOnce
<1>3. (AnswerWaits' <=> AnswerWaits) /\ (AnswerOnce' <=> AnswerOnce)
  BY DEF AnswerWaits, AnswerOnce
<1> QED BY <1>1, <1>2, <1>3 DEF OneAttach

\* Every step keeps the attach in one place.
LEMMA OneAttachStep ==
  ASSUME RelayInv, [RelayNext]_relayVars
  PROVE  OneAttach'
<1> USE DEF attachVars, hostVars, chanVars, handleVars, proxyVars, lateVars
<1>0. RelayTypeOK /\ OneAttach /\ Known /\ Claimed /\ gen \in Nat /\ gen \in Connections
  BY RelayAssumption DEF RelayInv, RelayTypeOK, Connections
<1> SUFFICES ASSUME link' # "down"
             PROVE  OneAttach'
  BY DEF OneAttach
<1>1. CASE UNCHANGED <<gen, link, got, down, up, handle>>
  BY <1>1, OneAttachSame DEF Attaching
<1>2. ASSUME NEW r \in Requests, NEW who, NEW item, HostAsks(r, item, who)
      PROVE  OneAttach'
  <2>1. Line("request", r) \in Lines /\ Line("request", r).t # "attached"
    BY LineTypes DEF Line
  <2>2. UNCHANGED <<gen, link, got, up, handle>>
    BY <1>2 DEF HostAsks
  <2>3. down' = down \/ down' = Append(down, Line("request", r))
    BY <1>2 DEF HostAsks, ToClient
  <2> QED BY <1>1, <2>1, <2>2, <2>3, OneAttachGrows
<1>3. ASSUME NEW r \in Requests, HostAborts(r) \/ RivalAnswers(r)
      PROVE  OneAttach'
  <2>1. Line("closed", r) \in Lines /\ Line("closed", r).t # "attached"
    BY LineTypes DEF Line
  <2>2. UNCHANGED <<gen, link, got, up, handle>>
    BY <1>3 DEF HostAborts, RivalAnswers
  <2>3. down' = down \/ down' = Append(down, Line("closed", r))
    BY <1>3 DEF HostAborts, RivalAnswers, Told, ToClient
  <2> QED BY <1>1, <2>1, <2>2, <2>3, OneAttachGrows
<1>4. ASSUME NEW r \in Requests, NEW local, NEW body, UserAnswers(r, local, body),
             [t |-> "answer", r |-> r, body |-> body, local |-> local] \in Calls
      PROVE  OneAttach'
  <2> DEFINE m == [t |-> "answer", r |-> r, body |-> body, local |-> local]
  <2>1. up'[gen] = up[gen] \/ up'[gen] = Append(up[gen], m)
    BY <1>0, <1>4 DEF UserAnswers, RelayTypeOK
  <2>2. UNCHANGED <<gen, link, got, down, handle>> /\ (Attaching' <=> Attaching)
    BY <1>4 DEF UserAnswers, Attaching
  <2>3. m \in Calls /\ m.t # "attach"
    BY <1>4
  <2> HIDE DEF m
  <2> QED BY <2>1, <2>2, <2>3, OneAttachCalls, OneAttachSame
<1>5. ASSUME NEW r \in Approvals, NEW out \in Outcomes \union {"rogue"}, UserDecides(r, out)
      PROVE  OneAttach'
  <2>1. [t |-> "answer", r |-> r, body |-> Decision(Normalised(out)), local |-> out] \in Calls
    BY DEF Calls, Decided
  <2> QED BY <1>4, <1>5, <2>1 DEF UserDecides, Requests
<1>6. ASSUME NEW r \in Questions, NEW ans \in LocalAnswers(shape[r]), UserReplies(r, ans)
      PROVE  OneAttach'
  <2>1. shape[r] \in Shapes \union {NoShape}
    BY <1>0 DEF Requests, RelayTypeOK
  <2>2. [t |-> "answer", r |-> r, body |-> toWireAnswers(shape[r], ans), local |-> ans] \in Replied(shape[r])
    BY DEF Replied
  <2>3. [t |-> "answer", r |-> r, body |-> toWireAnswers(shape[r], ans), local |-> ans] \in Calls
    BY <2>1, <2>2 DEF Calls
  <2> QED BY <1>4, <1>6, <2>3 DEF UserReplies, Requests
<1>7. CASE Receive
  <2>1. /\ down # <<>> /\ down' = Tail(down)
        /\ UNCHANGED <<gen, link, handle, up>>
        /\ down[1] = Head(down)
    BY <1>0, <1>7, TailFacts DEF Receive, RelayTypeOK
  <2>2. (CallWaits' <=> CallWaits) /\ (CallOnce' <=> CallOnce) /\ (Attaching' <=> Attaching)
    BY <2>1 DEF CallWaits, CallOnce, Attaching
  <2>3. /\ AnswerWaits' => AnswerWaits
        /\ AnswerWaits => AnswerWaits' \/ down[1].t = "attached"
        /\ AnswerOnce => AnswerOnce'
        /\ AnswerOnce /\ down[1].t = "attached" => ~AnswerWaits'
    BY <1>0, <2>1, DownTaken
  <2>4. down[1].t = "attached" => AnswerWaits
    BY <1>0, <1>7, TailFacts DEF Receive, RelayTypeOK, AnswerWaits
  <2>5. IF down[1].t = "attached" THEN got' # <<>> ELSE got' = got
    <3>1. \/ Head(down).t \in {"request", "closed", "answered", "refused", "dropped"} /\ got' = got
          \/ Head(down).t = "attached" /\ got' = <<Head(down).pending>>
      BY <1>7 DEF Receive
    <3>2. <<Head(down).pending>> # <<>>
      OBVIOUS
    <3> QED BY <2>1, <3>1, <3>2
  <2> QED BY <1>0, <2>1, <2>2, <2>3, <2>4, <2>5 DEF OneAttach
<1>8. CASE AttachAsks
  <2>1. [t |-> "attach"] \in Calls
    BY DEF Calls
  <2>2. up'[gen] = Append(up[gen], [t |-> "attach"]) /\ UNCHANGED <<gen, link, got, down>>
    BY <1>0, <1>8 DEF AttachAsks, RelayTypeOK
  <2>3. (CallWaits' <=> TRUE) /\ (CallOnce /\ ~CallWaits => CallOnce')
    BY <1>0, <2>1, <2>2, CallsGrow
  <2>4. (AnswerWaits' <=> AnswerWaits) /\ (AnswerOnce' <=> AnswerOnce)
    BY <2>2 DEF AnswerWaits, AnswerOnce
  <2>5. ~Attaching /\ Attaching' /\ link = "up"
    BY <1>8 DEF AttachAsks, Attaching
  <2> QED BY <1>0, <2>2, <2>3, <2>4, <2>5 DEF OneAttach
<1>9. CASE AttachContinues \/ ReattachContinues
  <2>1. UNCHANGED <<gen, up, down>> /\ got # <<>> /\ got' = <<>>
    BY <1>9 DEF AttachContinues, ReattachContinues
  <2>2. (CallWaits' <=> CallWaits) /\ (CallOnce' <=> CallOnce)
    BY <2>1 DEF CallWaits, CallOnce
  <2>3. (AnswerWaits' <=> AnswerWaits) /\ (AnswerOnce' <=> AnswerOnce)
    BY <2>1 DEF AnswerWaits, AnswerOnce
  <2>4. ~Attaching' /\ link # "down"
    BY <1>0, <1>9 DEF AttachContinues, ReattachContinues, Attaching, Claimed
  <2> QED BY <1>0, <2>1, <2>2, <2>3, <2>4 DEF OneAttach
<1>10. CASE Detach
  <2>1. [t |-> "detach"] \in Calls /\ [t |-> "detach"].t # "attach"
    BY DEF Calls
  <2>2. /\ up'[gen] = up[gen] \/ up'[gen] = Append(up[gen], [t |-> "detach"])
        /\ UNCHANGED <<gen, link, got, down>>
        /\ Attaching' <=> Attaching
    BY <1>0, <1>10 DEF Detach, RelayTypeOK, Attaching
  <2> QED BY <2>1, <2>2, OneAttachCalls, OneAttachSame
<1>11. CASE Reconnect
  <2>1. /\ gen' = gen + 1 /\ gen + 1 \in Connections
        /\ down = <<>> /\ got = <<>> /\ UNCHANGED <<down, got, handle>>
        /\ up[gen + 1] = <<>> /\ link = "down"
    BY <1>0, <1>11, RelayAssumption DEF Reconnect, Known, Connections
  <2>2. ~AnswerWaits' /\ AnswerOnce'
    BY <2>1 DEF AnswerWaits, AnswerOnce
  <2>3. CASE handle = "live"
    <3>1. up'[gen'] = <<[t |-> "attach"]>> /\ link' = "reattach"
      BY <1>0, <1>11, <2>1, <2>3 DEF Reconnect, RelayTypeOK
    <3>2. CallWaits' /\ CallOnce' /\ Attaching'
      BY <3>1 DEF CallWaits, CallOnce, Attaching
    <3> QED BY <2>1, <2>2, <3>2 DEF OneAttach
  <2>4. CASE handle # "live"
    <3>1. up'[gen'] = <<>> /\ link' = "up" /\ handle # "asked"
      BY <1>0, <1>11, <2>1, <2>4 DEF Reconnect, Claimed
    <3>2. ~CallWaits' /\ CallOnce' /\ ~Attaching'
      BY <2>1, <3>1 DEF CallWaits, CallOnce, Attaching
    <3> QED BY <2>1, <2>2, <3>2 DEF OneAttach
  <2> QED BY <2>3, <2>4
<1>12. ASSUME NEW c \in Connections, Serve(c)
       PROVE  OneAttach'
  <2>1. UNCHANGED <<gen, link, got, handle>> /\ (Attaching' <=> Attaching)
    BY <1>12 DEF Serve, Attaching
  <2>2. CASE c # gen
    <3>1. up'[gen] = up[gen] /\ down' = down
      BY <1>0, <1>12, <2>2 DEF Serve, ToClient, RelayTypeOK
    <3> QED BY <2>1, <3>1, OneAttachSame
  <2>3. CASE c = gen
    <3>1. up[gen] # <<>> /\ up'[gen] = Tail(up[gen])
      BY <1>0, <1>12, <2>3 DEF Serve, RelayTypeOK
    <3>2. Head(up[gen]) \in Calls
      BY <1>0, <3>1, TailFacts DEF RelayTypeOK
    <3>3. /\ CallWaits' => CallWaits
          /\ CallWaits => CallWaits' \/ Head(up[gen]).t = "attach"
          /\ Head(up[gen]).t = "attach" => CallWaits
          /\ CallOnce => CallOnce'
          /\ CallOnce /\ Head(up[gen]).t = "attach" => ~CallWaits'
      BY <1>0, <2>1, <3>1, CallTaken
    <3>4. CASE Head(up[gen]).t = "attach"
      <4>1. Attached(Waiting) \in Lines /\ Attached(Waiting).t = "attached"
        BY LineTypes DEF Attached, Waiting
      <4>2. down' = Append(down, Attached(Waiting))
        BY <1>12, <2>1, <2>3, <3>4 DEF Serve, ToClient
      <4>3. /\ AnswerWaits'
            /\ AnswerOnce /\ ~AnswerWaits => AnswerOnce'
        BY <1>0, <4>1, <4>2, DownGrows
      <4> QED BY <1>0, <2>1, <3>3, <3>4, <4>3 DEF OneAttach
    <3>5. CASE Head(up[gen]).t # "attach"
      <4>1. (AnswerWaits' <=> AnswerWaits) /\ (AnswerOnce => AnswerOnce')
        <5>1. CASE down' = down
          BY <5>1 DEF AnswerWaits, AnswerOnce
        <5>2. ASSUME NEW m \in Lines, m.t # "attached", down' = Append(down, m)
              PROVE  (AnswerWaits' <=> AnswerWaits) /\ (AnswerOnce => AnswerOnce')
          BY <1>0, <5>2, DownGrows
        <5>3. CASE Head(up[gen]).t = "answer"
          <6>1. Head(up[gen]).r \in Requests
            BY <3>2, <5>3, CallKinds
          <6>2. \A s \in {"answered", "refused"} :
                  Line(s, Head(up[gen]).r) \in Lines /\ Line(s, Head(up[gen]).r).t # "attached"
            BY <6>1, LineTypes DEF Line
          <6>3. \/ down' = down
                \/ down' = Append(down, Line("answered", Head(up[gen]).r))
                \/ down' = Append(down, Line("refused", Head(up[gen]).r))
            BY <1>12, <2>3, <5>3 DEF Serve, ToClient
          <6> QED BY <5>1, <5>2, <6>2, <6>3
        <5>4. CASE Head(up[gen]).t \in {"detach", "lateAttach"}
          BY <1>12, <2>3, <5>1, <5>4 DEF Serve
        <5> QED BY <3>2, <3>5, <5>3, <5>4, CallKinds
      <4> QED BY <1>0, <2>1, <3>3, <3>5, <4>1 DEF OneAttach
    <3> QED BY <3>4, <3>5
  <2> QED BY <2>2, <2>3
<1>13. ASSUME NEW c \in Connections, ConnectionEnds(c)
       PROVE  OneAttach'
  <2>1. /\ UNCHANGED <<gen, link, got, handle, down>> /\ (Attaching' <=> Attaching)
        /\ up'[gen] = up[gen]
    BY <1>0, <1>13 DEF ConnectionEnds, RelayTypeOK, Attaching
  <2> QED BY <2>1, OneAttachSame
<1>14. CASE Drop
  BY <1>14 DEF Drop
<1>15. CASE \/ Wire \/ Unwire \/ \E r \in Requests : QuestionLeft(r)
  BY <1>1, <1>15 DEF Wire, Unwire, QuestionLeft
<1>16. CASE AttachTimesOut \/ ReattachTimesOut
  <2>1. ~CallWaits' /\ ~AnswerWaits' /\ got' = <<>> /\ link' = "up"
    BY <1>16, TimesOut DEF Expired
  <2>2. handle' # "asked"
    BY <1>16, TimesOut
  <2>3. ~Attaching' /\ CallOnce' /\ AnswerOnce'
    BY <2>1, <2>2 DEF Attaching, CallWaits, CallOnce, AnswerWaits, AnswerOnce
  <2> QED BY <2>1, <2>3 DEF OneAttach
<1> QED
  BY <1>1, <1>2, <1>3, <1>5, <1>6, <1>7, <1>8, <1>9, <1>10, <1>11, <1>12, <1>13, <1>14, <1>15,
     <1>16 DEF RelayNext, relayVars

\* What the proxy was told, holds and will hear.
Truth == LinesTrue /\ ListTrue /\ PendTrue /\ Ahead

\* A step that tells this client nothing changes no request it is a target of.
LEMMA TruthQuiet ==
  ASSUME RelayInv, link # "down", [RelayNext]_relayVars,
         UNCHANGED <<down, gen, link, got, handle, pend, raced, late, replayed>>,
         CallWaits => CallWaits',
         \A q \in Requests : gen \in targets'[q] => phase'[q] = phase[q] /\ gen \in targets[q],
         \A q \in Requests : phase[q] # "new" /\ gen \in targets[q] => gen \in targets'[q]
  PROVE  Truth'
<1>0. RelayTypeOK /\ LinesTrue /\ ListTrue /\ PendTrue /\ Ahead /\ Begun
  BY DEF RelayInv
<1>1. \A q \in Requests : phase[q] # "new" => phase'[q] # "new"
  BY PhaseStep
<1>2. \A q \in Requests : phase[q] = "settled" => phase'[q] = "settled"
  BY PhaseStep
<1>3. \A k, r : ClosedAfter(k, r)' <=> ClosedAfter(k, r)
  BY DEF ClosedAfter, IsClosing
<1>4. LinesTrue'
  <2> SUFFICES ASSUME NEW i \in 1..Len(down)
               PROVE  LinesTrue!(i)'
    BY DEF LinesTrue
  <2>1. down[i] \in Lines
    BY <1>0 DEF RelayTypeOK
  <2>2. CASE down[i].t = "request"
    BY <1>0, <1>1, <1>3, <2>1, <2>2, LineKinds DEF LinesTrue
  <2>3. CASE down[i].t \in {"closed", "answered"}
    BY <1>0, <1>2, <2>1, <2>3, LineKinds DEF LinesTrue
  <2>4. CASE down[i].t = "attached"
    BY <1>0, <1>1, <1>3, <2>1, <2>4, LineKinds DEF LinesTrue
  <2>5. CASE down[i].t \in {"refused", "dropped"}
    BY <2>5
  <2> QED BY <2>1, <2>2, <2>3, <2>4, <2>5, LineKinds
<1>5. ListTrue'
  <2>1. got # <<>> => got[1] \subseteq Requests
    BY <1>0 DEF RelayTypeOK
  <2> QED BY <1>0, <1>1, <1>3, <2>1 DEF ListTrue
<1>6. PendTrue'
  <2>1. \A r \in pend : r \in Requests /\ phase[r] # "new"
    BY <1>0 DEF RelayTypeOK, Begun
  <2> QED BY <1>0, <1>3, <2>1 DEF PendTrue
<1>7. Ahead'
  <2>1. \A r : (ListedBelow(r)' <=> ListedBelow(r)) /\ (ComesLast(r)' <=> ComesLast(r))
    BY DEF ListedBelow, ComesLast, IsRequest
  <2>2. Attaching' <=> Attaching
    BY DEF Attaching
  <2>3. \A r \in Waiting' : gen' \in targets'[r] => r \in Waiting /\ gen \in targets[r]
    BY DEF Waiting
  <2> QED BY <1>0, <2>1, <2>2, <2>3 DEF Ahead
<1> QED BY <1>4, <1>5, <1>6, <1>7 DEF Truth

\* A step that tells this client of a change tells it the truth.
LEMMA TruthTells ==
  ASSUME RelayInv, link # "down", [RelayNext]_relayVars,
         UNCHANGED <<gen, link, got, handle, pend, raced, late, replayed>>,
         NEW m \in Lines, down' = Append(down, m),
         CallWaits => CallWaits' \/ m.t = "attached",
         m.t = "attached" => m.pending = Waiting',
         m.t = "request" => phase'[m.r] = "pending" /\ gen \in targets'[m.r],
         m.t \in {"closed", "answered"} => phase'[m.r] = "settled",
         \A q \in Requests : phase[q] # "new" => targets'[q] = targets[q],
         \A q \in Requests : \/ phase'[q] = phase[q]
                             \/ phase[q] = "new" /\ phase'[q] = "pending" /\ IsRequest(m, q)
                             \/ phase[q] = "pending" /\ phase'[q] = "settled" /\ IsClosing(m, q)
  PROVE  Truth'
<1>0. RelayTypeOK /\ LinesTrue /\ ListTrue /\ PendTrue /\ Ahead /\ Begun /\ Len(down) \in Nat
  BY DEF RelayInv, RelayTypeOK
<1>1. \A q \in Requests : phase[q] # "new" => phase'[q] # "new"
  BY PhaseStep
<1>2. \A q \in Requests : phase[q] = "settled" => phase'[q] = "settled"
  BY PhaseStep
<1>3. \A r : \A k \in 0..Len(down) : ClosedAfter(k, r) \/ IsClosing(m, r) => ClosedAfter(k, r)'
  BY <1>0, DownGrows
<1>4. \A q \in Requests : phase[q] # "new" /\ phase'[q] = "settled" => phase[q] = "settled" \/ IsClosing(m, q)
  OBVIOUS
<1>5. LinesTrue'
  <2>1. /\ Len(down') = Len(down) + 1
        /\ \A i \in 1..Len(down) : down'[i] = down[i]
        /\ down'[Len(down) + 1] = m
    BY <1>0, AppendFacts DEF RelayTypeOK
  <2> SUFFICES ASSUME NEW i \in 1..Len(down')
               PROVE  LinesTrue!(i)'
    BY DEF LinesTrue
  <2>2. CASE i \in 1..Len(down)
    <3>1. down'[i] = down[i] /\ down[i] \in Lines /\ i \in 0..Len(down)
      BY <1>0, <2>1, <2>2 DEF RelayTypeOK
    <3>2. CASE down[i].t = "request"
      <4>1. /\ down[i].r \in Requests
            /\ phase[down[i].r] # "new" /\ gen \in targets[down[i].r]
            /\ phase[down[i].r] = "settled" => ClosedAfter(i, down[i].r)
        BY <1>0, <2>2, <3>1, <3>2, LineKinds DEF LinesTrue
      <4>2. phase'[down[i].r] = "settled" => ClosedAfter(i, down[i].r)'
        BY <1>3, <1>4, <3>1, <4>1
      <4> QED BY <1>1, <3>1, <3>2, <4>1, <4>2
    <3>3. CASE down[i].t \in {"closed", "answered"}
      BY <1>0, <1>2, <2>2, <3>1, <3>3, LineKinds DEF LinesTrue
    <3>4. CASE down[i].t = "attached"
      <4>1. down[i].pending \subseteq Requests
        BY <3>1, <3>4, LineKinds
      <4>2. ASSUME NEW r \in down[i].pending
            PROVE  /\ phase'[r] # "new"
                   /\ phase'[r] = "settled" /\ gen \in targets'[r] => ClosedAfter(i, r)'
        <5>1. /\ r \in Requests /\ phase[r] # "new"
              /\ phase[r] = "settled" /\ gen \in targets[r] => ClosedAfter(i, r)
          BY <1>0, <2>2, <3>4, <4>1 DEF LinesTrue
        <5> QED BY <1>1, <1>3, <1>4, <3>1, <5>1
      <4> QED BY <3>1, <3>4, <4>2
    <3>5. CASE down[i].t \in {"refused", "dropped"}
      BY <3>1, <3>5
    <3> QED BY <3>1, <3>2, <3>3, <3>4, <3>5, LineKinds
  <2>3. CASE i = Len(down) + 1
    <3>1. down'[i] = m
      BY <2>1, <2>3
    <3>2. m.t = "attached" => \A r \in m.pending : phase'[r] = "pending"
      BY DEF Waiting
    <3> QED BY <3>1, <3>2
  <2> QED BY <1>0, <2>1, <2>2, <2>3
<1>6. ListTrue'
  <2>1. got # <<>> => got[1] \subseteq Requests
    BY <1>0 DEF RelayTypeOK
  <2>2. ASSUME got # <<>>, NEW r \in got[1]
        PROVE  /\ phase'[r] # "new"
               /\ r \notin raced /\ phase'[r] = "settled" /\ gen \in targets'[r] => ClosedAfter(0, r)'
    <3>1. /\ r \in Requests /\ phase[r] # "new"
          /\ r \notin raced /\ phase[r] = "settled" /\ gen \in targets[r] => ClosedAfter(0, r)
      BY <1>0, <2>1, <2>2 DEF ListTrue
    <3> QED BY <1>0, <1>1, <1>3, <1>4, <3>1
  <2> QED BY <2>2 DEF ListTrue
<1>7. PendTrue'
  <2>1. ASSUME handle = "live", link = "up", NEW r \in pend \ (raced \union late)
        PROVE  /\ phase'[r] = "settled" /\ gen \in targets'[r] => ClosedAfter(0, r)'
               /\ gen \notin targets'[r] => r \in replayed
    <3>1. /\ r \in Requests /\ phase[r] # "new"
          /\ phase[r] = "settled" /\ gen \in targets[r] => ClosedAfter(0, r)
          /\ gen \notin targets[r] => r \in replayed
      BY <1>0, <2>1 DEF PendTrue, Begun, RelayTypeOK
    <3> QED BY <1>0, <1>3, <1>4, <3>1
  <2> QED BY <2>1 DEF PendTrue
<1>8. Ahead'
  <2>1. Attaching' <=> Attaching
    BY DEF Attaching
  <2>2. ASSUME handle \in {"live", "asked"}, NEW r \in Waiting' \ raced, gen \in targets'[r]
        PROVE  \/ CallWaits'
               \/ ListedBelow(r)'
               \/ got # <<>> /\ r \in got[1]
               \/ ComesLast(r)'
               \/ ~Attaching /\ r \in pend
    <3>1. r \in Requests /\ phase'[r] = "pending"
      BY DEF Waiting
    <3>2. CASE m.t = "attached"
      <4>1. r \in m.pending
        BY <3>2
      <4> QED BY <1>0, <3>2, <4>1, DownGrows
    <3>3. CASE IsRequest(m, r)
      BY <1>0, <3>3, DownGrows
    <3>4. CASE m.t # "attached" /\ ~IsRequest(m, r)
      <4>1. phase[r] = "pending"
        BY <3>1, <3>4
      <4>2. r \in Waiting \ raced /\ gen \in targets[r]
        BY <2>2, <3>1, <4>1 DEF Waiting
      <4>3. \/ CallWaits
            \/ ListedBelow(r)
            \/ got # <<>> /\ r \in got[1]
            \/ ComesLast(r)
            \/ ~Attaching /\ r \in pend
        BY <1>0, <2>2, <4>2 DEF Ahead
      <4>4. ListedBelow(r) => ListedBelow(r)'
        BY <1>0, DownGrows
      <4>5. ComesLast(r) => ComesLast(r)'
        BY <1>0, <3>4, DownGrows
      <4> QED BY <3>4, <4>3, <4>4, <4>5
    <3> QED BY <3>2, <3>3, <3>4
  <2> QED BY <2>1, <2>2 DEF Ahead
<1> QED BY <1>5, <1>6, <1>7, <1>8 DEF Truth

\* Nothing can be wrong on a channel that is down or was just connected.
LEMMA TruthSilent ==
  ASSUME down' = <<>>, got' = <<>>, link' = "up" => handle' \notin {"live", "asked"},
         link' = "reattach" => CallWaits', link' \in {"down", "reattach", "up"}
  PROVE  Truth'
<1>1. LinesTrue'
  BY DEF LinesTrue
<1> QED BY <1>1 DEF Truth, ListTrue, PendTrue, Ahead

\* A line is handled: the pending set follows it, or the line has raced.
LEMMA TruthReceive ==
  ASSUME RelayInv, Receive
  PROVE  Truth'
<1> USE DEF attachVars, hostVars, chanVars, handleVars, proxyVars, lateVars
<1>0. /\ RelayTypeOK /\ LinesTrue /\ ListTrue /\ PendTrue /\ Ahead /\ Begun /\ OneAttach
      /\ down # <<>> /\ down' = Tail(down) /\ link # "down"
  BY DEF RelayInv, Receive, Known
<1> DEFINE m == down[1]
<1>1. /\ Len(down) \in Nat /\ Len(down) >= 1
      /\ Len(down') = Len(down) - 1
      /\ \A i \in 1..Len(down') : down'[i] = down[i + 1]
      /\ m = Head(down) /\ m \in Lines
  BY <1>0, TailFacts DEF RelayTypeOK
<1>2. PICK n \in Nat : Len(down) = n + 1 /\ Len(down') = n
  BY <1>1, OneLess, ZenonT(30)
<1>3. /\ UNCHANGED <<phase, targets, up, gen, link, handle, replayed, wired>>
      /\ raced' = IF got # <<>> /\ m.t # "dropped" THEN raced \union {m.r} ELSE raced
      /\ late' = late \/ (m.t = "answered" /\ late' = late \union {m.r})
      /\ m.t = "request" =>
           /\ got' = got
           /\ handle = "live" => pend' = pend \union {m.r}
      /\ m.t \in {"closed", "answered", "refused"} =>
           /\ got' = got
           /\ \/ pend' = IF handle = "live" /\ m.t # "refused" THEN pend \ {m.r} ELSE pend
              \/ m.t = "answered" /\ pend' = pend /\ late' = late \union {m.r}
      /\ m.t = "dropped" => got' = got /\ pend' = pend
      /\ m.t = "attached" => got' = <<m.pending>> /\ pend' = pend
  BY <1>0, <1>1 DEF Receive
<1>4. /\ m.t \in {"request", "closed", "answered", "refused", "attached", "dropped"}
      /\ m.t = "attached" => m.pending \subseteq Requests
      /\ m.t \notin {"attached", "dropped"} => m.r \in Requests
  BY <1>1, LineKinds
<1>5. /\ m.t = "request" =>
           /\ gen \in targets[m.r]
           /\ phase[m.r] = "settled" => ClosedAfter(1, m.r)
      /\ m.t \in {"closed", "answered"} => phase[m.r] = "settled"
      /\ m.t = "attached" => \A r \in m.pending :
           /\ phase[r] # "new"
           /\ phase[r] = "settled" /\ gen \in targets[r] => ClosedAfter(1, r)
  <2>1. 1 \in 1..Len(down)
    BY <1>1
  <2> QED BY <1>0, <2>1 DEF LinesTrue
<1>6. /\ m.t = "attached" => got = <<>> /\ AnswerWaits
      /\ \A r : ListedBelow(r) => ListedBelow(r)' \/ (m.t = "attached" /\ r \in m.pending)
      /\ \A r : \A k \in 0..Len(down) : ClosedAfter(k + 1, r) => ClosedAfter(k, r)'
      /\ \A r : ClosedAfter(0, r) => ClosedAfter(0, r)' \/ IsClosing(m, r)
      /\ \A r : ComesLast(r) => ComesLast(r)' \/ (IsRequest(m, r) /\ ~AnswerWaits')
      /\ AnswerWaits => AnswerWaits' \/ m.t = "attached"
  <2>1. m.t = "attached" => AnswerWaits
    <3>1. 1 \in 1..Len(down)
      BY <1>1
    <3> QED BY <3>1 DEF AnswerWaits
  <2>2. m.t = "attached" => got = <<>>
    BY <1>0, <2>1 DEF OneAttach
  <2> QED BY <1>0, <2>1, <2>2, DownTaken
<1>7. \A r : ClosedAfter(1, r) => ClosedAfter(0, r)'
  <2>1. 0 \in 0..Len(down) /\ 0 + 1 = 1
    BY <1>1
  <2> QED BY <1>6, <2>1
<1> HIDE DEF m
<1>8. LinesTrue'
  <2> SUFFICES ASSUME NEW i \in 1..n
               PROVE  LinesTrue!(i)'
    BY <1>2 DEF LinesTrue
  <2>1. down'[i] = down[i + 1] /\ i + 1 \in 1..Len(down) /\ i \in 0..Len(down)
    BY <1>1, <1>2
  <2>2. \A r : ClosedAfter(i + 1, r) => ClosedAfter(i, r)'
    BY <1>6, <2>1
  <2>3. LinesTrue!(i + 1)
    BY <1>0, <2>1 DEF LinesTrue
  <2> QED BY <1>3, <2>1, <2>2, <2>3
<1>9. ListTrue'
  <2>1. CASE m.t = "attached"
    <3>1. got' = <<m.pending>> /\ got'[1] = m.pending
      BY <1>3, <2>1
    <3> QED BY <1>3, <1>5, <1>7, <2>1, <3>1 DEF ListTrue
  <2>2. CASE m.t # "attached"
    <3>1. got' = got
      BY <1>3, <1>4, <2>2
    <3>2. ASSUME got # <<>>, NEW r \in got[1]
          PROVE  /\ phase[r] # "new"
                 /\ r \notin raced' /\ phase[r] = "settled" /\ gen \in targets[r] => ClosedAfter(0, r)'
      <4>1. /\ phase[r] # "new"
            /\ r \notin raced /\ phase[r] = "settled" /\ gen \in targets[r] => ClosedAfter(0, r)
        BY <1>0, <3>2 DEF ListTrue
      <4>2. r \notin raced' => r \notin raced /\ ~IsClosing(m, r)
        BY <1>3, <3>2 DEF IsClosing
      <4> QED BY <1>6, <4>1, <4>2
    <3> QED BY <1>3, <3>1, <3>2 DEF ListTrue
  <2> QED BY <2>1, <2>2
<1>10. PendTrue'
  <2> SUFFICES ASSUME handle = "live", link = "up", NEW r \in pend' \ (raced' \union late')
               PROVE  /\ phase[r] = "settled" /\ gen \in targets[r] => ClosedAfter(0, r)'
                      /\ gen \notin targets[r] => r \in replayed
    BY <1>3 DEF PendTrue
  <2>1. got = <<>> /\ m.t # "attached"
    BY <1>0, <1>6 DEF OneAttach, Attaching
  <2>2. raced' = raced /\ r \notin late
    BY <1>3, <2>1
  <2>3. CASE m.t = "request" /\ r = m.r
    BY <1>5, <1>7, <2>3
  <2>4. CASE r \in pend /\ ~IsClosing(m, r)
    <3>1. /\ phase[r] = "settled" /\ gen \in targets[r] => ClosedAfter(0, r)
          /\ gen \notin targets[r] => r \in replayed
      BY <1>0, <2>2, <2>4 DEF PendTrue
    <3> QED BY <1>6, <2>4, <3>1
  <2>5. \/ m.t = "request" /\ r = m.r
        \/ r \in pend /\ ~IsClosing(m, r)
    BY <1>3, <1>4, <2>1 DEF IsClosing
  <2> QED BY <2>3, <2>4, <2>5
<1>11. Ahead'
  <2>0. (CallWaits' <=> CallWaits) /\ (Attaching' <=> Attaching) /\ Waiting' = Waiting
    BY <1>3 DEF CallWaits, Attaching, Waiting
  <2> SUFFICES ASSUME handle \in {"live", "asked"}, NEW r \in Waiting \ raced', gen \in targets[r]
               PROVE  \/ CallWaits
                      \/ ListedBelow(r)'
                      \/ got' # <<>> /\ r \in got'[1]
                      \/ ComesLast(r)'
                      \/ ~Attaching /\ r \in pend'
    BY <1>3, <2>0 DEF Ahead
  <2>1. r \in Requests /\ phase[r] = "pending" /\ r \notin raced
    BY <1>3 DEF Waiting
  <2>2. \/ CallWaits
        \/ ListedBelow(r)
        \/ got # <<>> /\ r \in got[1]
        \/ ComesLast(r)
        \/ ~Attaching /\ r \in pend
    BY <1>0, <2>1 DEF Ahead
  <2>3. CASE m.t = "attached" /\ r \in m.pending
    <3>1. got' = <<m.pending>>
      BY <1>3, <2>3
    <3>2. <<m.pending>> # <<>> /\ <<m.pending>>[1] = m.pending
      OBVIOUS
    <3> QED BY <2>3, <3>1, <3>2
  <2>4. CASE got # <<>> /\ r \in got[1]
    <3>1. got' = got
      BY <1>3, <1>4, <1>6, <2>4
    <3> QED BY <2>4, <3>1
  <2>5. CASE IsRequest(m, r) /\ ~AnswerWaits'
    <3>1. m.t = "request" /\ m.r = r
      BY <2>5 DEF IsRequest
    <3>2. got = <<>>
      BY <1>3, <3>1
    <3>3. ~AnswerWaits
      BY <1>6, <2>5, <3>1
    <3>4. CASE Attaching
      BY <1>0, <3>2, <3>3, <3>4 DEF OneAttach
    <3>5. CASE ~Attaching
      <4>1. handle = "live"
        BY <3>5 DEF Attaching
      <4> QED BY <1>3, <3>1, <3>5, <4>1
    <3> QED BY <3>4, <3>5
  <2>6. CASE ~Attaching /\ r \in pend
    <3>1. ~(m.t \in {"closed", "answered"} /\ m.r = r)
      BY <1>5, <2>1
    <3>2. r \in pend'
      <4>1. handle = "live"
        BY <2>6 DEF Attaching
      <4> QED BY <1>3, <1>4, <2>6, <3>1, <4>1
    <3> QED BY <2>6, <3>2
  <2> QED BY <1>6, <2>2, <2>3, <2>4, <2>5, <2>6
<1> QED BY <1>8, <1>9, <1>10, <1>11 DEF Truth

\* The continuation of an attach takes over the replayed list.
LEMMA TruthContinues ==
  ASSUME RelayInv, AttachContinues \/ ReattachContinues
  PROVE  Truth'
<1> USE DEF attachVars, hostVars, chanVars, handleVars, proxyVars, lateVars
<1>0. /\ RelayTypeOK /\ LinesTrue /\ ListTrue /\ Ahead /\ OneAttach /\ Claimed
      /\ got # <<>> /\ link # "down" /\ Attaching
  BY DEF RelayInv, AttachContinues, ReattachContinues, Known, Attaching
<1>1. /\ UNCHANGED <<phase, targets, up, gen, down, raced>>
      /\ got' = <<>> /\ replayed' = got[1] /\ link' = "up" /\ handle' # "asked"
      /\ handle' = "live" => pend' = got[1] /\ handle \in {"live", "asked"}
  BY <1>0 DEF AttachContinues, ReattachContinues, Claimed
<1>2. \A k, r : ClosedAfter(k, r)' <=> ClosedAfter(k, r)
  BY <1>1 DEF ClosedAfter, IsClosing
<1>3. LinesTrue'
  BY <1>0, <1>1, <1>2 DEF LinesTrue
<1>4. PendTrue'
  BY <1>0, <1>1, <1>2 DEF PendTrue, ListTrue
<1>5. Ahead'
  <2>1. \A r : ComesLast(r)' <=> ComesLast(r)
    BY <1>1 DEF ComesLast, IsRequest
  <2>2. ~CallWaits /\ ~AnswerWaits
    BY <1>0 DEF OneAttach
  <2>3. \A r : ~ListedBelow(r)
    BY <2>2 DEF ListedBelow, AnswerWaits
  <2>4. ~Attaching' /\ Waiting' = Waiting
    BY <1>1 DEF Attaching, Waiting
  <2> QED BY <1>0, <1>1, <2>1, <2>2, <2>3, <2>4 DEF Ahead
<1> QED BY <1>1, <1>3, <1>4, <1>5 DEF Truth, ListTrue

\* A call is served, of the present connection or of a lost one.
LEMMA TruthServe ==
  ASSUME RelayInv, [RelayNext]_relayVars, NEW c \in Connections, Serve(c), link # "down"
  PROVE  Truth'
<1> USE DEF attachVars, hostVars, chanVars, handleVars, proxyVars, lateVars
<1>0. /\ RelayTypeOK /\ Begun
      /\ UNCHANGED <<gen, link, got, handle, pend, raced, late, replayed, targets>>
      /\ up[c] # <<>>
  BY DEF RelayInv, Serve
<1> DEFINE m == Head(up[c])
<1>1. /\ m \in Calls /\ m = up[c][1] /\ Len(up[c]) \in Nat /\ Len(up[c]) >= 1
      /\ up' = [up EXCEPT ![c] = Tail(@)]
      /\ up'[c] = Tail(up[c])
  BY <1>0, TailFacts DEF Serve, RelayTypeOK
<1>2. m.t \in {"attach", "lateAttach", "detach", "answer"} /\ (m.t = "answer" => m.r \in Requests)
  BY <1>1, CallKinds
<1>3. CASE c # gen
  <2>1. down' = down /\ up'[gen] = up[gen]
    BY <1>0, <1>3 DEF Serve, ToClient, RelayTypeOK
  <2>2. m.t = "answer" => gen \notin targets[m.r]
    <3>1. 1 \in 1..Len(up[c])
      BY <1>1
    <3> QED BY <1>0, <1>1, <1>3, <3>1 DEF Begun
  <2>3. \A q \in Requests : phase'[q] = phase[q] \/ (m.t = "answer" /\ q = m.r)
    BY <1>0, <1>2 DEF Serve, RelayTypeOK
  <2>4. CallWaits' <=> CallWaits
    BY <1>0, <2>1 DEF CallWaits
  <2>5. \A q \in Requests : gen \in targets'[q] => phase'[q] = phase[q] /\ gen \in targets[q]
    BY <1>0, <2>2, <2>3
  <2> QED BY <1>0, <2>1, <2>4, <2>5, TruthQuiet
<1>4. CASE c = gen
  <2>1. /\ CallWaits => CallWaits' \/ m.t = "attach"
    BY <1>0, <1>1, <1>4, CallTaken
  <2>2. CASE m.t = "attach"
    <3> DEFINE l == Attached(Waiting)
    <3>1. l \in Lines /\ l.t = "attached" /\ l.pending = Waiting
      BY LineTypes DEF Attached, Waiting
    <3>2. down' = Append(down, l) /\ phase' = phase
      BY <1>4, <2>2 DEF Serve, ToClient
    <3>3. Waiting' = Waiting
      BY <3>2 DEF Waiting
    <3> HIDE DEF l
    <3> QED BY <1>0, <2>1, <3>1, <3>2, <3>3, TruthTells
  <2>3. CASE m.t \in {"detach", "lateAttach"}
    <3>1. down' = down /\ phase' = phase
      BY <2>3 DEF Serve
    <3> QED BY <1>0, <2>1, <2>3, <3>1, TruthQuiet
  <2>4. CASE m.t = "answer" /\ phase[m.r] = "pending" /\ c \in targets[m.r]
    <3> DEFINE l == Line("answered", m.r)
    <3>1. l \in Lines /\ l.t = "answered" /\ l.r = m.r
      BY <1>2, <2>4, LineTypes DEF Line
    <3>2. down' = Append(down, l) /\ phase' = [phase EXCEPT ![m.r] = "settled"]
      BY <1>4, <2>4 DEF Serve, ToClient
    <3>3. phase'[m.r] = "settled" /\ \A q \in Requests : q # m.r => phase'[q] = phase[q]
      BY <1>0, <1>2, <2>4, <3>2 DEF RelayTypeOK
    <3>4. IsClosing(l, m.r)
      BY <3>1 DEF IsClosing
    <3> HIDE DEF l
    <3> QED BY <1>0, <2>1, <2>4, <3>1, <3>2, <3>3, <3>4, TruthTells
  <2>5. CASE m.t = "answer" /\ ~(phase[m.r] = "pending" /\ c \in targets[m.r])
    <3> DEFINE l == Line("refused", m.r)
    <3>1. l \in Lines /\ l.t = "refused"
      BY <1>2, <2>5, LineTypes DEF Line
    <3>2. down' = Append(down, l) /\ phase' = phase
      BY <1>4, <2>5 DEF Serve, ToClient
    <3> HIDE DEF l
    <3> QED BY <1>0, <2>1, <2>5, <3>1, <3>2, TruthTells
  <2> QED BY <1>2, <2>2, <2>3, <2>4, <2>5
<1> QED BY <1>3, <1>4

\* An attach is given up: nobody waits for the lines on their way.
LEMMA TruthTimesOut ==
  ASSUME RelayInv, AttachTimesOut \/ ReattachTimesOut
  PROVE  Truth'
<1>0. /\ RelayTypeOK /\ LinesTrue /\ UNCHANGED <<phase, targets, gen>>
      /\ got' = <<>> /\ handle' \notin {"live", "asked"}
  BY TimesOut DEF RelayInv, Expired, hostVars
<1>1. PICK n \in Nat :
        /\ Len(down) = n /\ Len(down') = n
        /\ \A i \in 1..n :
             down'[i] = down[i] \/ (down'[i] = [t |-> "dropped"] /\ down[i].t = "attached")
  <2>1. Len(down) \in Nat
    BY <1>0 DEF RelayTypeOK
  <2> QED BY <2>1, TimesOut DEF Expired
<1>2. ASSUME NEW k \in Nat, NEW r, ClosedAfter(k, r)
      PROVE  ClosedAfter(k, r)'
  <2> PICK i \in (k + 1)..n : IsClosing(down[i], r)
    BY <1>1, <1>2 DEF ClosedAfter
  <2>1. i \in 1..n /\ down'[i] = down[i]
    BY <1>1 DEF IsClosing
  <2> QED BY <1>1, <2>1 DEF ClosedAfter, IsClosing
<1>3. LinesTrue'
  <2> SUFFICES ASSUME NEW i \in 1..n
               PROVE  LinesTrue!(i)'
    BY <1>1 DEF LinesTrue
  <2>1. CASE down'[i] = down[i]
    <3>1. LinesTrue!(i)
      BY <1>0, <1>1 DEF LinesTrue
    <3> QED BY <1>0, <1>2, <2>1, <3>1
  <2>2. CASE down'[i] = [t |-> "dropped"]
    BY <2>2
  <2> QED BY <1>1, <2>1, <2>2
<1> QED BY <1>0, <1>3 DEF Truth, ListTrue, PendTrue, Ahead

\* Every step keeps the lists true and the waiting requests ahead.
LEMMA TruthStep ==
  ASSUME RelayInv, [RelayNext]_relayVars
  PROVE  Truth'
<1> USE DEF attachVars, hostVars, chanVars, handleVars, proxyVars, lateVars
<1>0. /\ RelayTypeOK /\ Known /\ Claimed /\ LinesTrue /\ ListTrue /\ PendTrue /\ Ahead /\ OneAttach
      /\ gen \in Nat /\ gen \in Connections
  BY RelayAssumption DEF RelayInv, RelayTypeOK, Connections
<1>1. CASE link = "down" /\ link' = "down"
  <2>1. RelayTypeOK' /\ Known'
    BY TypeStep, KnownStep
  <2> QED BY <1>1, <2>1, TruthSilent DEF Known
<1>2. CASE link # "down" /\ UNCHANGED <<phase, targets, down, gen, link, got, handle, pend, raced, late, replayed>>
           /\ (CallWaits => CallWaits')
  BY <1>0, <1>2, TruthQuiet
<1>3. CASE link # "down" /\ UNCHANGED <<phase, targets, down, gen, link, got, handle, pend, raced, late, replayed, up>>
  <2>1. CallWaits => CallWaits'
    BY <1>3 DEF CallWaits
  <2> QED BY <1>2, <1>3, <2>1
<1>4. ASSUME NEW r \in Requests, NEW who \in SUBSET Ids, NEW item, HostAsks(r, item, who), link # "down"
      PROVE  Truth'
  <2>1. /\ UNCHANGED <<gen, link, got, handle, pend, raced, late, replayed, up>>
        /\ phase[r] = "new" /\ phase'[r] = "pending" /\ targets'[r] = who
        /\ \A q \in Requests : q # r => phase'[q] = phase[q] /\ targets'[q] = targets[q]
    BY <1>0, <1>4 DEF HostAsks, RelayTypeOK
  <2>2. CallWaits => CallWaits'
    BY <2>1 DEF CallWaits
  <2>3. CASE gen \in who
    <3> DEFINE l == Line("request", r)
    <3>1. l \in Lines /\ l.t = "request" /\ l.r = r /\ IsRequest(l, r)
      BY LineTypes DEF Line, IsRequest
    <3>2. down' = Append(down, l)
      BY <1>4, <2>3 DEF HostAsks, ToClient
    <3> HIDE DEF l
    <3> QED BY <1>4, <2>1, <2>2, <2>3, <3>1, <3>2, TruthTells
  <2>4. CASE gen \notin who
    <3>1. down' = down
      BY <1>4, <2>4 DEF HostAsks
    <3> QED BY <1>4, <2>1, <2>2, <2>4, <3>1, TruthQuiet
  <2> QED BY <2>3, <2>4
<1>5. ASSUME NEW r \in Requests, HostAborts(r) \/ RivalAnswers(r), link # "down"
      PROVE  Truth'
  <2>1. /\ UNCHANGED <<gen, link, got, handle, pend, raced, late, replayed, up, targets>>
        /\ phase[r] = "pending" /\ phase'[r] = "settled"
        /\ \A q \in Requests : q # r => phase'[q] = phase[q]
    BY <1>0, <1>5 DEF HostAborts, RivalAnswers, RelayTypeOK
  <2>2. CallWaits => CallWaits'
    BY <2>1 DEF CallWaits
  <2>3. down' = IF gen \in targets[r] THEN Append(down, Line("closed", r)) ELSE down
    <3>1. NoOne \in {NoOne, Rival} /\ Rival \in {NoOne, Rival}
      OBVIOUS
    <3>2. \A w \in {NoOne, Rival} :
            Told(r, w) = IF gen \in targets[r] THEN Append(down, Line("closed", r)) ELSE down
      BY <1>5, ToldIs
    <3>3. down' = Told(r, NoOne) \/ down' = Told(r, Rival)
      BY <1>5 DEF HostAborts, RivalAnswers
    <3> QED BY <3>1, <3>2, <3>3
  <2>4. CASE gen \in targets[r]
    <3> DEFINE l == Line("closed", r)
    <3>1. l \in Lines /\ l.t = "closed" /\ l.r = r /\ IsClosing(l, r)
      BY LineTypes DEF Line, IsClosing
    <3>2. down' = Append(down, l)
      BY <2>3, <2>4
    <3> HIDE DEF l
    <3> QED BY <1>5, <2>1, <2>2, <3>1, <3>2, TruthTells
  <2>5. CASE gen \notin targets[r]
    BY <1>5, <2>1, <2>2, <2>3, <2>5, TruthQuiet
  <2> QED BY <2>4, <2>5
<1>6. ASSUME NEW r \in Requests, NEW local, NEW body, UserAnswers(r, local, body), link # "down",
             [t |-> "answer", r |-> r, body |-> body, local |-> local] \in Calls
      PROVE  Truth'
  <2> DEFINE m == [t |-> "answer", r |-> r, body |-> body, local |-> local]
  <2>1. up'[gen] = up[gen] \/ up'[gen] = Append(up[gen], m)
    BY <1>0, <1>6 DEF UserAnswers, RelayTypeOK
  <2>2. UNCHANGED <<phase, targets, down, gen, link, got, handle, pend, raced, late, replayed>> /\ m \in Calls
    BY <1>6 DEF UserAnswers
  <2> HIDE DEF m
  <2>3. CallWaits => CallWaits'
    <3>1. CASE up'[gen] = up[gen]
      BY <2>2, <3>1 DEF CallWaits
    <3>2. CASE up'[gen] = Append(up[gen], m)
      BY <1>0, <2>2, <3>2, CallsGrow
    <3> QED BY <2>1, <3>1, <3>2
  <2> QED BY <1>2, <1>6, <2>2, <2>3
<1>7. ASSUME NEW r \in Approvals, NEW out \in Outcomes \union {"rogue"}, UserDecides(r, out), link # "down"
      PROVE  Truth'
  <2>1. [t |-> "answer", r |-> r, body |-> Decision(Normalised(out)), local |-> out] \in Calls
    BY DEF Calls, Decided
  <2> QED BY <1>6, <1>7, <2>1 DEF UserDecides, Requests
<1>8. ASSUME NEW r \in Questions, NEW ans \in LocalAnswers(shape[r]), UserReplies(r, ans), link # "down"
      PROVE  Truth'
  <2>1. shape[r] \in Shapes \union {NoShape}
    BY <1>0 DEF Requests, RelayTypeOK
  <2>2. [t |-> "answer", r |-> r, body |-> toWireAnswers(shape[r], ans), local |-> ans] \in Replied(shape[r])
    BY DEF Replied
  <2>3. [t |-> "answer", r |-> r, body |-> toWireAnswers(shape[r], ans), local |-> ans] \in Calls
    BY <2>1, <2>2 DEF Calls
  <2> QED BY <1>6, <1>8, <2>3 DEF UserReplies, Requests
<1>9. CASE AttachAsks \/ (Detach /\ link # "down")
  <2>1. UNCHANGED <<phase, targets, down, gen, link, got, raced, replayed>> /\ link # "down"
    BY <1>9 DEF AttachAsks, Detach
  <2>2. \A k, r : ClosedAfter(k, r)' <=> ClosedAfter(k, r)
    BY <2>1 DEF ClosedAfter, IsClosing
  <2>3. LinesTrue' /\ ListTrue'
    BY <1>0, <2>1, <2>2 DEF LinesTrue, ListTrue
  <2>4. CASE AttachAsks
    <3>1. [t |-> "attach"] \in Calls
      BY DEF Calls
    <3>2. up'[gen] = Append(up[gen], [t |-> "attach"]) /\ handle' = "asked"
      BY <1>0, <2>4 DEF AttachAsks, RelayTypeOK
    <3>3. CallWaits'
      BY <1>0, <2>1, <3>1, <3>2, CallsGrow
    <3> QED BY <2>3, <3>2, <3>3 DEF Truth, PendTrue, Ahead
  <2>5. CASE Detach
    BY <2>3, <2>5 DEF Detach, Truth, PendTrue, Ahead
  <2> QED BY <1>9, <2>4, <2>5
<1>10. CASE Reconnect
  <2>1. /\ gen' = gen + 1 /\ gen + 1 \in Connections
        /\ down' = <<>> /\ got' = <<>> /\ handle' = handle
        /\ up[gen + 1] = <<>> /\ link = "down"
    BY <1>0, <1>10, RelayAssumption DEF Reconnect, Known, Connections
  <2>2. CASE handle = "live"
    <3>1. up'[gen'] = <<[t |-> "attach"]>> /\ link' = "reattach"
      BY <1>0, <1>10, <2>1, <2>2 DEF Reconnect, RelayTypeOK
    <3>2. CallWaits'
      BY <3>1 DEF CallWaits
    <3> QED BY <2>1, <3>1, <3>2, TruthSilent
  <2>3. CASE handle # "live"
    <3>1. link' = "up" /\ handle' \notin {"live", "asked"}
      BY <1>0, <1>10, <2>1, <2>3 DEF Reconnect, Claimed
    <3> QED BY <2>1, <3>1, TruthSilent
  <2> QED BY <2>2, <2>3
<1>11. CASE Drop
  BY <1>11, TruthSilent DEF Drop
<1>12. ASSUME NEW c \in Connections, ConnectionEnds(c), link # "down"
       PROVE  Truth'
  <2>1. /\ UNCHANGED <<down, gen, link, got, handle, pend, raced, late, replayed>>
        /\ c # gen /\ up'[gen] = up[gen]
    BY <1>0, <1>12 DEF ConnectionEnds, RelayTypeOK
  <2>2. CallWaits => CallWaits'
    BY <2>1 DEF CallWaits
  <2>3. ASSUME NEW q \in Requests
        PROVE  /\ gen \in targets'[q] => phase'[q] = phase[q] /\ gen \in targets[q]
               /\ gen \in targets[q] => gen \in targets'[q]
    BY <1>0, <1>12, <2>1, <2>3 DEF ConnectionEnds, RelayTypeOK
  <2> QED BY <1>12, <2>1, <2>2, <2>3, TruthQuiet
<1>13. CASE link # "down" /\ (Wire \/ Unwire \/ (\E r \in Requests : QuestionLeft(r)) \/ UNCHANGED relayVars)
  BY <1>3, <1>13 DEF Wire, Unwire, QuestionLeft, relayVars
<1>14. CASE link = "down" /\ link' # "down"
  <2>1. Reconnect
    BY <1>14 DEF RelayNext, relayVars, HostAsks, HostAborts, RivalAnswers, QuestionLeft, UserDecides,
       UserReplies, UserAnswers, Receive, AttachAsks, AttachContinues, ReattachContinues,
     AttachTimesOut, ReattachTimesOut, AttachExpires, Wire,
       Unwire, Detach, Drop, Serve, ConnectionEnds
  <2> QED BY <1>10, <2>1
<1>15. CASE link # "down"
  BY <1>4, <1>5, <1>7, <1>8, <1>9, <1>10, <1>11, <1>12, <1>13, <1>15, TruthServe, TruthReceive,
     TruthContinues, TruthTimesOut DEF RelayNext
<1> QED BY <1>1, <1>14, <1>15

\* The interactions of every host, every proxy and every number of drops keep
\* the invariant of the relay.
THEOREM RelayInvariant == RelaySpec => []RelayInv
<1>1. RelayInit => RelayInv
  <2> SUFFICES ASSUME RelayInit
               PROVE  RelayInv
    OBVIOUS
  <2>1. RelayTypeOK
    BY RelayAssumption DEF RelayInit, RelayTypeOK, Connections, Ids, Rival
  <2>2. Len(up[gen]) = 0 /\ Len(down) = 0
    BY RelayAssumption DEF RelayInit, Connections
  <2>3. Known
    BY RelayAssumption DEF RelayInit, Known, Connections, Ids, Rival
  <2>4. Counted /\ Claimed
    BY DEF RelayInit, Counted, Claimed
  <2>5. Begun
    BY DEF RelayInit, Begun
  <2>6. OneAttach
    BY <2>2 DEF RelayInit, OneAttach, Attaching, CallWaits, AnswerWaits, CallOnce, AnswerOnce
  <2>7. LinesTrue /\ ListTrue /\ PendTrue /\ Ahead
    BY <2>2 DEF RelayInit, LinesTrue, ListTrue, PendTrue, Ahead
  <2> QED BY <2>1, <2>3, <2>4, <2>5, <2>6, <2>7 DEF RelayInv
<1>2. RelayInv /\ [RelayNext]_relayVars => RelayInv'
  <2> SUFFICES ASSUME RelayInv, [RelayNext]_relayVars
               PROVE  RelayInv'
    OBVIOUS
  <2>1. Truth'
    BY TruthStep
  <2> QED BY <2>1, TypeStep, ClaimStep, KnownStep, BegunStep, OneAttachStep DEF RelayInv, Truth
<1> QED BY <1>1, <1>2, PTL DEF RelaySpec

\* A user is asked each interaction once per mirror, and what waits for this
\* client is in front of the user when the channel is quiet.
THEOREM AskedOnce == RelaySpec => []ShownOnce
<1>1. RelayInv => ShownOnce
  <2> SUFFICES ASSUME RelayInv
               PROVE  ShownOnce
    OBVIOUS
  <2>1. \A r \in Requests : shown[r] = IF r \in surfaced THEN 1 ELSE 0
    BY DEF RelayInv, Counted
  <2>2. ASSUME Quiet, NEW r \in Waiting \ raced, gen \in targets[r]
        PROVE  r \in pend
    <3>1. ~Attaching /\ ~CallWaits
      BY <2>2 DEF RelayInv, OneAttach, Attaching, Quiet
    <3>2. ~ListedBelow(r) /\ ~ComesLast(r)
      BY <2>2 DEF Quiet, ListedBelow, ComesLast
    <3> QED BY <2>2, <3>1, <3>2 DEF RelayInv, Ahead, Quiet
  <2>3. ASSUME Quiet, NEW r \in Waiting \ raced, gen \in targets[r], Kind(r) \in wired
        PROVE  shown[r] = 1
    BY <2>1, <2>2, <2>3 DEF RelayInv, Claimed, Quiet, Waiting
  <2> QED BY <2>1, <2>2, <2>3 DEF ShownOnce
<1> QED BY <1>1, RelayInvariant, PTL

----------------------------------------------------------------------------
(* The conversions of an answer *)

\* A set of numbers that is not empty has a least element.
LEMMA LeastNumber ==
  ASSUME NEW T \in SUBSET Nat, T # {}
  PROVE  \E x \in T : \A y \in T : x <= y
<1> DEFINE R == OpToRel(<, Nat)
<1>1. PICK x \in T : \A y \in T : ~(<<y, x>> \in R)
  BY NatLessThanWellFounded, WFMin, Zenon
<1>2. R = {ss \in Nat \X Nat : ss[1] < ss[2]}
  BY Zenon DEF OpToRel
<1> HIDE DEF R
<1>3. \A m, n \in Nat : n < m => <<n, m>> \in R
  BY <1>2
<1>4. ASSUME NEW y \in T
      PROVE  x <= y
  <2>1. ~(y < x)
    BY <1>1, <1>3
  <2> QED BY <2>1
<1> QED BY <1>4

\* What a question carries: as many option ids as options, and labels.
LEMMA ItemFacts ==
  ASSUME NEW item \in Shapes \union {NoShape}
  PROVE  /\ Len(item.opts) \in Nat
         /\ DOMAIN item.opts = 1..Len(item.opts)
         /\ \A i \in DOMAIN item.opts : OptionId(i) # ""
         /\ \A i, j \in DOMAIN item.opts : OptionId(i) = OptionId(j) => i = j
<1> DEFINE opts == item.opts
<1>0. OptionIds \in Seq(STRING) /\ Len(OptionIds) \in Nat /\ DOMAIN OptionIds = 1..Len(OptionIds)
  <2>1. OptionIds \in Seq(STRING)
    BY OptionAssumption, Zenon
  <2> QED BY <2>1
<1>1. opts \in Seq(STRING) /\ Len(opts) <= Len(OptionIds)
  <2>1. CASE item \in Shapes
    BY <2>1, OptionAssumption, Zenon
  <2>2. CASE item = NoShape
    <3>1. item.opts = <<>>
      BY <2>2 DEF NoShape
    <3> QED BY <1>0, <3>1
  <2> QED BY <2>1, <2>2
<1>2. /\ OptionIds \in Seq(STRING)
      /\ \A i, j \in DOMAIN OptionIds : OptionIds[i] = OptionIds[j] => i = j
      /\ \A i \in DOMAIN OptionIds : OptionIds[i] # ""
  BY OptionAssumption, Zenon
<1> HIDE DEF opts
<1>3. Len(opts) \in Nat /\ DOMAIN opts = 1..Len(opts)
  BY <1>1
<1>4. \A i \in DOMAIN opts : i \in DOMAIN OptionIds
  BY <1>0, <1>1, <1>3
<1>5. /\ \A i \in DOMAIN opts : OptionId(i) # ""
      /\ \A i, j \in DOMAIN opts : OptionId(i) = OptionId(j) => i = j
  BY <1>2, <1>4, Zenon DEF OptionId
<1> QED BY <1>3, <1>5 DEF opts

\* The option whose id a label is sent as.
FirstWith(item, label) ==
  CHOOSE i \in DOMAIN item.opts : item.opts[i] = label /\ \A j \in 1..(i - 1) : item.opts[j] # label

\* A label that was offered has a first option.
LEMMA FirstIs ==
  ASSUME NEW item \in Shapes \union {NoShape}, NEW label \in Range(item.opts)
  PROVE  FirstWith(item, label) \in DOMAIN item.opts /\ item.opts[FirstWith(item, label)] = label
<1> DEFINE T == {i \in DOMAIN item.opts : item.opts[i] = label}
<1>0. Len(item.opts) \in Nat /\ DOMAIN item.opts = 1..Len(item.opts)
  BY ItemFacts
<1>1. T \in SUBSET Nat /\ T # {}
  BY <1>0 DEF Range
<1>2. PICK x \in T : \A y \in T : x <= y
  BY <1>1, LeastNumber
<1>3. \A j \in 1..(x - 1) : j \in DOMAIN item.opts /\ ~(x <= j)
  BY <1>0, <1>2
<1>4. \E i \in DOMAIN item.opts : item.opts[i] = label /\ \A j \in 1..(i - 1) : item.opts[j] # label
  BY <1>2, <1>3
<1> QED BY <1>4 DEF FirstWith

\* The options with an id, and the label an id is read as.
Idx(item, v) == {i \in DOMAIN item.opts : OptionId(i) = v}
LabelOf(item, v) == item.opts[CHOOSE i \in Idx(item, v) : TRUE]

\* An option id names its option alone.
LEMMA IdxIs ==
  ASSUME NEW item \in Shapes \union {NoShape}, NEW i \in DOMAIN item.opts
  PROVE  Idx(item, OptionId(i)) = {i} /\ LabelOf(item, OptionId(i)) = item.opts[i]
<1>1. Idx(item, OptionId(i)) = {i}
  BY ItemFacts DEF Idx
<1> QED BY <1>1 DEF LabelOf

\* The ids of the labels an answer chose.
IdsOf(item, ans) == [i \in DOMAIN ans.sel |-> OptionId(FirstWith(item, ans.sel[i]))]

\* What a local answer is, and that each chosen label is sent as an id that is
\* read as that label.
LEMMA AnswerFacts ==
  ASSUME NEW item \in Shapes \union {NoShape}, NEW ans \in LocalAnswers(item)
  PROVE  /\ Len(ans.sel) \in Nat /\ DOMAIN ans.sel = 1..Len(ans.sel)
         /\ ans.sel = [i \in 1..Len(ans.sel) |-> ans.sel[i]]
         /\ item.multi \/ Len(ans.sel) <= 1
         /\ \A i \in DOMAIN ans.sel :
              /\ ans.sel[i] \in Range(item.opts)
              /\ Idx(item, IdsOf(item, ans)[i]) # {}
              /\ LabelOf(item, IdsOf(item, ans)[i]) = ans.sel[i]
         /\ IdsOf(item, ans) \in Seq({OptionId(i) : i \in DOMAIN item.opts})
         /\ Len(IdsOf(item, ans)) = Len(ans.sel)
<1>1. PICK n \in 0..(IF item.multi THEN Len(item.opts) ELSE 1) : ans.sel \in [1..n -> Range(item.opts)]
  BY DEF LocalAnswers
<1>0. Len(item.opts) \in Nat
  BY ItemFacts
<1>2. n \in Nat /\ Len(ans.sel) = n /\ DOMAIN ans.sel = 1..n /\ (item.multi \/ n <= 1)
  <2>1. CASE item.multi
    <3>1. n \in 0..Len(item.opts)
      BY <1>1, <2>1
    <3> QED BY <1>0, <1>1, <2>1, <3>1
  <2>2. CASE ~item.multi
    <3>1. n \in 0..1
      BY <1>1, <2>2
    <3> QED BY <1>1, <3>1
  <2> QED BY <2>1, <2>2
<1>3. ASSUME NEW i \in 1..n
      PROVE  /\ ans.sel[i] \in Range(item.opts)
             /\ Idx(item, IdsOf(item, ans)[i]) # {}
             /\ LabelOf(item, IdsOf(item, ans)[i]) = ans.sel[i]
             /\ IdsOf(item, ans)[i] \in {OptionId(j) : j \in DOMAIN item.opts}
  <2> DEFINE k == FirstWith(item, ans.sel[i])
  <2>1. ans.sel[i] \in Range(item.opts)
    BY <1>1
  <2>2. k \in DOMAIN item.opts /\ item.opts[k] = ans.sel[i]
    BY <2>1, FirstIs
  <2>3. IdsOf(item, ans)[i] = OptionId(k)
    BY <1>2 DEF IdsOf
  <2> HIDE DEF k
  <2>4. Idx(item, OptionId(k)) = {k} /\ LabelOf(item, OptionId(k)) = item.opts[k]
    BY <2>2, IdxIs
  <2> QED BY <2>1, <2>2, <2>3, <2>4
<1>4. IdsOf(item, ans) \in [1..n -> {OptionId(j) : j \in DOMAIN item.opts}]
  BY <1>2, <1>3 DEF IdsOf
<1>5. IdsOf(item, ans) \in Seq({OptionId(i) : i \in DOMAIN item.opts}) /\ Len(IdsOf(item, ans)) = n
  BY <1>2, <1>4
<1> QED BY <1>1, <1>2, <1>3, <1>5

\* The wire form in these words.
LEMMA WireIs ==
  ASSUME NEW item \in Shapes \union {NoShape}, NEW ans \in LocalAnswers(item)
  PROVE  toWireAnswers(item, ans) =
           IF item.multi
           THEN [many |-> TRUE,
                 vals |-> IF ans.custom # NoText THEN Append(IdsOf(item, ans), ans.custom)
                                                 ELSE IdsOf(item, ans)]
           ELSE [many |-> FALSE,
                 vals |-> <<IF IdsOf(item, ans) # <<>> THEN IdsOf(item, ans)[1]
                            ELSE IF ans.custom # NoText THEN ans.custom ELSE "">>]
<1>1. \A i \in DOMAIN ans.sel : ans.sel[i] \in Range(item.opts)
  BY AnswerFacts
<1> DEFINE idOf(label) == IF label \in Range(item.opts) THEN OptionId(FirstWith(item, label)) ELSE label
<1>2. [i \in DOMAIN ans.sel |-> idOf(ans.sel[i])] = IdsOf(item, ans)
  BY <1>1 DEF IdsOf
<1> QED BY <1>2, Zenon DEF toWireAnswers, FirstWith

\* Reading values of which none was typed.
LEMMA ReadsChosen ==
  ASSUME NEW item \in Shapes \union {NoShape}, NEW w, NEW n \in Nat, DOMAIN w.vals = 1..n,
         item.multi \/ ~w.many,
         \A i \in 1..n : Idx(item, w.vals[i]) # {}
  PROVE  Restored(item, w) = [sel |-> [i \in 1..n |-> LabelOf(item, w.vals[i])], custom |-> NoText]
<1>1. {i \in DOMAIN w.vals : Idx(item, w.vals[i]) = {}} = {}
  OBVIOUS
<1> QED BY <1>1, Zenon DEF Restored, Idx, LabelOf

\* And of which the last one was typed.
LEMMA ReadsTyped ==
  ASSUME NEW item \in Shapes \union {NoShape}, NEW w, NEW S, w.vals \in Seq(S),
         NEW n \in Nat, Len(w.vals) = n + 1,
         item.multi \/ ~w.many,
         \A i \in 1..n : Idx(item, w.vals[i]) # {},
         Idx(item, w.vals[n + 1]) = {}
  PROVE  Restored(item, w) = [sel    |-> [i \in 1..n |-> LabelOf(item, w.vals[i])],
                              custom |-> w.vals[n + 1]]
<1> DEFINE typed == {i \in DOMAIN w.vals : Idx(item, w.vals[i]) = {}}
           k == CHOOSE i \in typed : TRUE
           took == [i \in 1..(Len(w.vals) - 1) |-> LabelOf(item, w.vals[IF i < k THEN i ELSE i + 1])]
<1>1. typed = {n + 1}
  OBVIOUS
<1>2. k = n + 1 /\ typed # {} /\ ~\E i, j \in typed : i # j
  BY <1>1
<1>3. Restored(item, w) = [sel |-> took, custom |-> w.vals[k]]
  BY <1>2, Zenon DEF Restored, Idx, LabelOf
<1>4. took = [i \in 1..n |-> LabelOf(item, w.vals[i])]
  BY <1>2
<1> QED BY <1>2, <1>3, <1>4

\* What the host is told for an answer is the answer.
LEMMA AnswerArrives ==
  ASSUME NEW item \in Shapes \union {NoShape}, NEW ans \in LocalAnswers(item)
  PROVE  ToldIsAnswer(item, ans, Restored(item, toWireAnswers(item, ans)))
<1> SUFFICES ASSUME ans.custom \notin {OptionId(i) : i \in DOMAIN item.opts}
             PROVE  LET told == Restored(item, toWireAnswers(item, ans)) IN
                    /\ told.sel = ans.sel
                    /\ told.custom = IF item.multi THEN ans.custom
                                     ELSE IF ans.sel # <<>> THEN NoText
                                     ELSE IF ans.custom = NoText THEN "" ELSE ans.custom
  BY DEF ToldIsAnswer
<1> DEFINE w == toWireAnswers(item, ans)
           ids == IdsOf(item, ans)
           n == Len(ans.sel)
<1>1. /\ n \in Nat
      /\ ans.sel = [i \in 1..n |-> ans.sel[i]]
      /\ ids \in Seq({OptionId(i) : i \in DOMAIN item.opts}) /\ Len(ids) = n
      /\ \A i \in 1..n : Idx(item, ids[i]) # {} /\ LabelOf(item, ids[i]) = ans.sel[i]
      /\ item.multi \/ n <= 1
  BY AnswerFacts
<1>2. Idx(item, ans.custom) = {} /\ Idx(item, "") = {}
  BY ItemFacts, Zenon DEF Idx
<1>3. w = IF item.multi
          THEN [many |-> TRUE, vals |-> IF ans.custom # NoText THEN Append(ids, ans.custom) ELSE ids]
          ELSE [many |-> FALSE,
                vals |-> <<IF ids # <<>> THEN ids[1]
                           ELSE IF ans.custom # NoText THEN ans.custom ELSE "">>]
  BY WireIs, ZenonT(60)
<1> HIDE DEF w, ids, n
\* No value was typed.
<1>4. CASE item.multi /\ ans.custom = NoText
  <2>1. w.vals = ids
    BY <1>3, <1>4
  <2>2. DOMAIN w.vals = 1..n
    BY <1>1, <2>1
  <2>3. Restored(item, w) = [sel |-> [i \in 1..n |-> LabelOf(item, w.vals[i])], custom |-> NoText]
    <3>1. n \in Nat /\ \A i \in 1..n : Idx(item, w.vals[i]) # {}
      BY <1>1, <2>1
    <3> QED BY <1>4, <2>2, <3>1, ReadsChosen, Zenon
  <2>4. [i \in 1..n |-> LabelOf(item, w.vals[i])] = ans.sel
    BY <1>1, <2>1
  <2> QED BY <1>4, <2>3, <2>4 DEF w
\* The last one was.
<1>5. CASE item.multi /\ ans.custom # NoText
  <2>1. w.vals = Append(ids, ans.custom)
    BY <1>3, <1>5
  <2>2. w.vals \in Seq({OptionId(i) : i \in DOMAIN item.opts} \union {ans.custom})
    BY <1>1, <2>1
  <2>3. Len(w.vals) = n + 1 /\ w.vals[n + 1] = ans.custom /\ \A i \in 1..n : w.vals[i] = ids[i]
    BY <1>1, <2>1
  <2>4. /\ \A i \in 1..n : Idx(item, w.vals[i]) # {}
        /\ Idx(item, w.vals[n + 1]) = {}
    BY <1>1, <1>2, <2>3
  <2>5. n \in Nat /\ Len(w.vals) = n + 1
    BY <1>1, <2>3
  <2>6. Restored(item, w) = [sel    |-> [i \in 1..n |-> LabelOf(item, w.vals[i])],
                             custom |-> w.vals[n + 1]]
    BY <1>5, <2>2, <2>4, <2>5, ReadsTyped, Zenon
  <2>7. [i \in 1..n |-> LabelOf(item, w.vals[i])] = ans.sel
    BY <1>1, <2>3
  <2> QED BY <1>5, <2>3, <2>6, <2>7 DEF w
\* A single-select item: its one choice, or a typed text.
<1>6. CASE ~item.multi /\ n = 1
  <2>1. w.vals = <<ids[1]>> /\ w.many = FALSE
    <3>1. ids # <<>>
      BY <1>1, <1>6
    <3>2. w = [many |-> FALSE, vals |-> <<ids[1]>>]
      BY <1>3, <1>6, <3>1, Zenon
    <3> QED BY <3>2
  <2>2. DOMAIN w.vals = 1..1 /\ w.vals[1] = ids[1]
    BY <2>1
  <2>3. Restored(item, w) = [sel |-> [i \in 1..1 |-> LabelOf(item, w.vals[i])], custom |-> NoText]
    <3>1. \A i \in 1..1 : Idx(item, w.vals[i]) # {}
      BY <1>1, <1>6, <2>2
    <3>2. ~w.many /\ 1 \in Nat
      BY <2>1
    <3> QED BY <2>2, <3>1, <3>2, ReadsChosen, Zenon
  <2>4. [i \in 1..1 |-> LabelOf(item, w.vals[i])] = ans.sel /\ ans.sel # <<>>
    BY <1>1, <1>6, <2>2
  <2> QED BY <1>6, <2>3, <2>4 DEF w
<1>7. CASE ~item.multi /\ n = 0
  <2> DEFINE t == IF ans.custom # NoText THEN ans.custom ELSE ""
  <2>1. w.vals = <<t>> /\ w.many = FALSE
    <3>1. ids = <<>>
      BY <1>1, <1>7
    <3>2. w = [many |-> FALSE, vals |-> <<t>>]
      BY <1>3, <1>7, <3>1, Zenon
    <3> QED BY <3>2
  <2>2. Idx(item, t) = {}
    BY <1>2
  <2> HIDE DEF t
  <2>3. w.vals \in Seq({t}) /\ Len(w.vals) = 0 + 1 /\ w.vals[0 + 1] = t
    BY <2>1
  <2>4. Restored(item, w) = [sel |-> [i \in 1..0 |-> LabelOf(item, w.vals[i])], custom |-> w.vals[0 + 1]]
    <3>1. \A i \in 1..0 : Idx(item, w.vals[i]) # {}
      OBVIOUS
    <3>2. ~w.many /\ 0 \in Nat /\ Idx(item, w.vals[0 + 1]) = {}
      BY <2>1, <2>2, <2>3
    <3>3. w.vals \in Seq({t}) /\ Len(w.vals) = 0 + 1
      BY <2>3
    <3> QED BY <3>1, <3>2, <3>3, ReadsTyped, Zenon
  <2>5. [i \in 1..0 |-> LabelOf(item, w.vals[i])] = ans.sel /\ ans.sel = <<>>
    BY <1>1, <1>7
  <2>6. Restored(item, w).sel = ans.sel /\ Restored(item, w).custom = t
    BY <2>3, <2>4, <2>5
  <2>7. t = IF ans.custom = NoText THEN "" ELSE ans.custom
    BY DEF t
  <2> QED BY <1>7, <2>5, <2>6, <2>7, Zenon DEF w
<1>8. item.multi \/ n = 0 \/ n = 1
  BY <1>1
<1> QED BY <1>4, <1>5, <1>6, <1>7, <1>8, Zenon

\* An approval: granted iff allowed, unavailable iff nobody could decide.
LEMMA DecisionArrives ==
  ASSUME NEW out \in Outcomes \union {"rogue"}
  PROVE  /\ ToOutcome(Decision(Normalised(out))) = "allowed-once" <=> out = "allowed-once"
         /\ ToOutcome(Decision(Normalised(out))) = "unavailable"
              <=> out \notin {"allowed-once", "rejected", "cancelled"}
  BY DEF ToOutcome, Decision, Normalised, Outcomes, NoText

----------------------------------------------------------------------------
(* Answers in flight and verdicts *)

\* The item of a request is fixed once it was asked.
LEMMA ShapeStep ==
  ASSUME RelayInv, [RelayNext]_relayVars, NEW q \in Requests, phase[q] # "new"
  PROVE  shape'[q] = shape[q]
<1> USE DEF attachVars, hostVars, chanVars, handleVars, proxyVars, lateVars
<1>1. ASSUME NEW r \in Requests, NEW who, NEW item, HostAsks(r, item, who)
      PROVE  shape'[q] = shape[q]
  BY <1>1 DEF HostAsks, RelayInv, RelayTypeOK
<1>2. CASE UNCHANGED shape
  BY <1>2
<1> QED
  BY <1>1, <1>2 DEF RelayNext, relayVars, HostAborts, RivalAnswers, QuestionLeft, UserDecides,
     UserReplies, UserAnswers, Receive, AttachAsks, AttachContinues, ReattachContinues,
     AttachTimesOut, ReattachTimesOut, AttachExpires, Wire,
     Unwire, Detach, Drop, Reconnect, Serve, ConnectionEnds

\* Verdicts are given by an answer that is served, and by nothing else.
LEMMA VerdictStep ==
  ASSUME RelayInv, [RelayNext]_relayVars
  PROVE  \/ UNCHANGED <<verdict, given>>
         \/ \E c \in Connections : Serve(c)
<1> USE DEF attachVars, hostVars, chanVars, handleVars, proxyVars, lateVars
<1> QED
  BY DEF RelayNext, relayVars, HostAsks, HostAborts, RivalAnswers, QuestionLeft, UserDecides,
     UserReplies, UserAnswers, Receive, AttachAsks, AttachContinues, ReattachContinues,
     AttachTimesOut, ReattachTimesOut, AttachExpires, Wire,
     Unwire, Detach, Drop, Reconnect, ConnectionEnds

\* A verdict of the local user stays one.
LEMMA GivenStays ==
  ASSUME RelayInv, OwnAnswers, [RelayNext]_relayVars
  PROVE  /\ given' = [r \in Requests |-> given'[r]]
         /\ \A r \in Requests : given[r] # <<>> => given'[r] # <<>>
<1>1. CASE UNCHANGED <<verdict, given>>
  BY <1>1 DEF OwnAnswers
<1>2. ASSUME NEW c \in Connections, Serve(c)
      PROVE  /\ given' = [r \in Requests |-> given'[r]]
             /\ \A r \in Requests : given[r] # <<>> => given'[r] # <<>>
  <2>1. given' = given \/ given' = [given EXCEPT ![Head(up[c]).r] = <<Head(up[c]).local>>]
    BY <1>2 DEF Serve, hostVars
  <2> QED BY <2>1 DEF OwnAnswers
<1> QED BY <1>1, <1>2, VerdictStep

\* Every step keeps the responses within the verdicts of the local user.
LEMMA OwnAnswersStep ==
  ASSUME RelayInv, OwnAnswers, [RelayNext]_relayVars
  PROVE  OwnAnswers'
<1> USE DEF attachVars, hostVars, chanVars, handleVars, proxyVars, lateVars
<1>0. /\ RelayTypeOK /\ down \in Seq(Lines) /\ Len(down) \in Nat
      /\ given' = [r \in Requests |-> given'[r]]
      /\ \A r \in Requests : given[r] # <<>> => given'[r] # <<>>
      /\ late \subseteq Requests
  BY GivenStays DEF RelayInv, RelayTypeOK
<1> DEFINE Backed(m) == m.t = "answered" => given'[m.r] # <<>>
<1>1. ASSUME NEW i \in 1..Len(down)
      PROVE  Backed(down[i])
  <2>1. down[i] \in Lines
    BY <1>0
  <2> QED BY <1>0, <2>1, LineKinds DEF OwnAnswers
<1>2. ASSUME UNCHANGED late \/ late' = {}, UNCHANGED down \/ down' = <<>>
      PROVE  OwnAnswers'
  BY <1>0, <1>1, <1>2 DEF OwnAnswers
<1>3. ASSUME NEW m \in Lines, down' = Append(down, m), Backed(m), late' = late
      PROVE  OwnAnswers'
  <2>1. /\ Len(down') = Len(down) + 1
        /\ \A i \in 1..Len(down) : down'[i] = down[i]
        /\ down'[Len(down) + 1] = m
    BY <1>0, <1>3, AppendFacts
  <2>2. ASSUME NEW i \in 1..Len(down')
        PROVE  Backed(down'[i])
    <3>1. i \in 1..Len(down) \/ i = Len(down) + 1
      BY <1>0, <2>1
    <3> QED BY <1>1, <1>3, <2>1, <3>1
  <2>3. \A r \in late' : given'[r] # <<>>
    BY <1>0, <1>3 DEF OwnAnswers
  <2> QED BY <1>0, <2>2, <2>3 DEF OwnAnswers
<1>4. ASSUME NEW r \in Requests, \/ HostAborts(r) \/ RivalAnswers(r)
                                 \/ \E who, item : HostAsks(r, item, who)
      PROVE  OwnAnswers'
  <2>1. \A t \in {"request", "closed"} : Line(t, r) \in Lines /\ Line(t, r).t # "answered"
    BY LineTypes DEF Line
  <2>2. /\ late' = late
        /\ \/ down' = down \/ down' = Append(down, Line("request", r))
           \/ down' = Append(down, Line("closed", r))
    BY <1>4 DEF HostAborts, RivalAnswers, HostAsks, Told, ToClient
  <2> QED BY <1>2, <1>3, <2>1, <2>2
<1>5. ASSUME NEW c \in Connections, Serve(c)
      PROVE  OwnAnswers'
  <2> DEFINE m == Head(up[c])
  <2>1. m \in Calls
    BY <1>0, <1>5, TailFacts DEF Serve, RelayTypeOK
  <2>2. late' = late
    BY <1>5 DEF Serve
  <2>3. CASE m.t = "answer" /\ phase[m.r] = "pending" /\ c \in targets[m.r]
    <3>1. m.r \in Requests
      BY <2>1, <2>3, CallKinds
    <3>2. /\ given' = [given EXCEPT ![m.r] = <<m.local>>]
          /\ down' = down \/ down' = Append(down, Line("answered", m.r))
      BY <1>5, <2>3 DEF Serve, ToClient
    <3>3. Line("answered", m.r) \in Lines /\ Line("answered", m.r).r = m.r
      BY <3>1, LineTypes DEF Line
    <3>4. given'[m.r] # <<>>
      <4>1. given'[m.r] = <<m.local>>
        BY <3>1, <3>2 DEF OwnAnswers
      <4> QED BY <4>1
    <3> QED BY <1>2, <1>3, <2>2, <3>2, <3>3, <3>4
  <2>4. CASE m.t = "answer" /\ ~(phase[m.r] = "pending" /\ c \in targets[m.r])
    <3>1. down' = down \/ down' = Append(down, Line("refused", m.r))
      BY <1>5, <2>4 DEF Serve, ToClient
    <3>2. Line("refused", m.r) \in Lines /\ Line("refused", m.r).t # "answered"
      BY <2>1, <2>4, CallKinds, LineTypes DEF Line
    <3> QED BY <1>2, <1>3, <2>2, <3>1, <3>2
  <2>5. CASE m.t # "answer"
    <3>1. down' = down \/ down' = Append(down, Attached(Waiting))
      BY <1>5, <2>1, <2>5, CallKinds DEF Serve, ToClient
    <3>2. Attached(Waiting) \in Lines /\ Attached(Waiting).t # "answered"
      BY LineTypes DEF Attached, Waiting
    <3> QED BY <1>2, <1>3, <2>2, <3>1, <3>2
  <2> QED BY <2>3, <2>4, <2>5
<1>6. CASE Receive
  <2>1. /\ down # <<>> /\ down' = Tail(down)
        /\ late' = late \/ (down[1].t = "answered" /\ late' = late \union {down[1].r})
    BY <1>0, <1>6, TailFacts DEF Receive
  <2>2. /\ Len(down) >= 1 /\ Len(down') = Len(down) - 1
        /\ \A i \in 1..Len(down') : down'[i] = down[i + 1]
    BY <1>0, <2>1, TailFacts
  <2>3. ASSUME NEW i \in 1..Len(down')
        PROVE  Backed(down'[i])
    <3>1. i + 1 \in 1..Len(down) /\ down'[i] = down[i + 1]
      BY <1>0, <2>2
    <3> QED BY <1>1, <3>1
  <2>4. Backed(down[1])
    BY <1>0, <1>1, <2>2
  <2>5. \A r \in late' : given'[r] # <<>>
    BY <1>0, <2>1, <2>4 DEF OwnAnswers
  <2> QED BY <1>0, <2>3, <2>5 DEF OwnAnswers
<1>7. CASE AttachTimesOut \/ ReattachTimesOut
  <2>1. /\ Len(down') = Len(down) /\ late' = late
        /\ \A i \in 1..Len(down) : down'[i] = down[i] \/ down'[i] = [t |-> "dropped"]
    BY <1>7, TimesOut DEF Expired
  <2>2. ASSUME NEW i \in 1..Len(down')
        PROVE  Backed(down'[i])
    BY <1>1, <2>1
  <2>3. \A r \in late' : given'[r] # <<>>
    BY <1>0, <2>1 DEF OwnAnswers
  <2> QED BY <1>0, <2>2, <2>3 DEF OwnAnswers
<1>8. CASE \/ AttachAsks \/ AttachContinues \/ ReattachContinues \/ Wire \/ Unwire \/ Detach
           \/ Drop \/ Reconnect \/ UNCHANGED relayVars
  <2>1. (UNCHANGED late \/ late' = {}) /\ (UNCHANGED down \/ down' = <<>>)
    BY <1>8 DEF AttachAsks, AttachContinues, ReattachContinues, Wire, Unwire, Detach, Drop,
       Reconnect, relayVars
  <2> QED BY <1>2, <2>1
<1>9. CASE \/ \E r \in Requests : QuestionLeft(r)
           \/ \E r \in Approvals, out \in Outcomes \union {"rogue"} : UserDecides(r, out)
           \/ \E r \in Questions : \E ans \in LocalAnswers(shape[r]) : UserReplies(r, ans)
           \/ \E c \in Connections : ConnectionEnds(c)
  <2>1. UNCHANGED <<late, down>>
    BY <1>9 DEF QuestionLeft, UserDecides, UserReplies, UserAnswers, ConnectionEnds
  <2> QED BY <1>2, <2>1
<1> QED BY <1>4, <1>5, <1>6, <1>7, <1>8, <1>9 DEF RelayNext

\* The pending sets of a quiet channel hold nothing settled, except what this
\* connection was only told of by its attach answer and, until the next one,
\* what the local user settled in a response that missed its deadline.
THEOREM PendingIsTrue == RelaySpec => []PendingTrue
<1>1. RelayInit => OwnAnswers
  BY DEF RelayInit, OwnAnswers
<1>2. RelayInv /\ OwnAnswers /\ [RelayNext]_relayVars => OwnAnswers'
  BY OwnAnswersStep
<1>3. RelayInv /\ OwnAnswers => PendingTrue
  <2> SUFFICES ASSUME RelayInv, OwnAnswers, Quiet, NEW r \in pend \ raced
               PROVE  \/ r \in Waiting
                      \/ r \in replayed /\ gen \notin targets[r]
                      \/ r \in late /\ given[r] # <<>>
    BY DEF PendingTrue
  <2>1. r \in Requests /\ phase[r] \in {"pending", "settled"}
    BY DEF RelayInv, RelayTypeOK, Begun
  <2>2. ~ClosedAfter(0, r)
    BY DEF Quiet, ClosedAfter
  <2>3. CASE r \in late
    BY <2>3 DEF OwnAnswers
  <2>4. CASE r \notin late
    BY <2>1, <2>2, <2>4 DEF RelayInv, PendTrue, Quiet, Waiting
  <2> QED BY <2>3, <2>4
<1> QED BY <1>1, <1>2, <1>3, RelayInvariant, PTL DEF RelaySpec

\* Every step keeps the answers in flight and the verdicts faithful.
LEMMA CarryStep ==
  ASSUME RelayInv, CarryInv, [RelayNext]_relayVars
  PROVE  CarryInv'
<1> USE DEF attachVars, hostVars, chanVars, handleVars, proxyVars, lateVars
<1>0. RelayTypeOK /\ Begun
  BY DEF RelayInv
<1>1. ASSUME NEW c \in Connections, NEW i \in 1..Len(up'[c]), up'[c][i].t = "answer"
      PROVE  Faithful(up'[c][i], shape'[up'[c][i].r])
  <2> DEFINE m == up'[c][i]
  <2>1. Faithful(m, shape[m.r]) /\ m.r \in Requests /\ phase[m.r] # "new"
    <3>1. CASE \E k \in 1..Len(up[c]) : up'[c][i] = up[c][k]
      <4>1. PICK k \in 1..Len(up[c]) : m = up[c][k]
        BY <3>1
      <4>2. m \in Calls
        BY <1>0, <4>1 DEF RelayTypeOK
      <4> QED BY <1>0, <1>1, <4>1, <4>2, CallKinds DEF CarryInv, Begun
    <3>2. CASE m.r \in Requests /\ open[m.r] > 0 /\ Faithful(m, shape[m.r])
      BY <1>0, <3>2 DEF Begun
    <3> QED BY <1>1, <3>1, <3>2, CallsStep
  <2>2. shape'[m.r] = shape[m.r]
    BY <2>1, ShapeStep
  <2> QED BY <2>1, <2>2
<1>2. /\ verdict' = [r \in Requests |-> verdict'[r]] /\ given' = [r \in Requests |-> given'[r]]
      /\ \A r \in Requests : given'[r] # <<>> =>
           phase'[r] # "new" /\ Carried(r, shape'[r], given'[r][1], verdict'[r][1])
  <2>1. CASE UNCHANGED <<verdict, given>>
    BY <2>1, PhaseStep, ShapeStep DEF CarryInv
  <2>2. ASSUME NEW c \in Connections, Serve(c)
        PROVE  /\ verdict' = [r \in Requests |-> verdict'[r]] /\ given' = [r \in Requests |-> given'[r]]
               /\ \A r \in Requests : given'[r] # <<>> =>
                    phase'[r] # "new" /\ Carried(r, shape'[r], given'[r][1], verdict'[r][1])
    <3> DEFINE m == Head(up[c])
               told == IF m.r \in Approvals THEN ToOutcome(m.body) ELSE Restored(shape[m.r], m.body)
    <3>1. m = up[c][1] /\ m \in Calls /\ 1 \in 1..Len(up[c])
      <4>1. up[c] \in Seq(Calls) /\ up[c] # <<>>
        BY <1>0, <2>2 DEF Serve, RelayTypeOK
      <4> QED BY <4>1
    <3> HIDE DEF m
    <3>2. CASE m.t = "answer" /\ phase[m.r] = "pending" /\ c \in targets[m.r]
      <4>1. m.r \in Requests /\ Faithful(m, shape[m.r])
        BY <3>1, <3>2, CallKinds DEF CarryInv
      <4>2. /\ verdict' = [verdict EXCEPT ![m.r] = <<told>>]
            /\ given' = [given EXCEPT ![m.r] = <<m.local>>]
            /\ phase' = [phase EXCEPT ![m.r] = "settled"]
            /\ shape' = shape
        BY <2>2, <3>2 DEF Serve, m
      <4>3. Carried(m.r, shape[m.r], m.local, told)
        <5>1. CASE m.r \in Approvals
          <6>1. told = ToOutcome(Decision(Normalised(m.local))) /\ m.local \in Outcomes \union {"rogue"}
            BY <4>1, <5>1 DEF Faithful
          <6> QED BY <5>1, <6>1, DecisionArrives, Zenon DEF Carried
        <5>2. CASE m.r \notin Approvals
          <6>1. /\ told = Restored(shape[m.r], toWireAnswers(shape[m.r], m.local))
                /\ m.local \in LocalAnswers(shape[m.r])
            BY <4>1, <5>2 DEF Faithful
          <6>2. shape[m.r] \in Shapes \union {NoShape}
            BY <1>0, <4>1 DEF RelayTypeOK
          <6> QED BY <5>2, <6>1, <6>2, AnswerArrives, Zenon DEF Carried
        <5> QED BY <5>1, <5>2
      <4> HIDE DEF told
      <4>4. /\ verdict' = [r \in Requests |-> verdict'[r]] /\ given' = [r \in Requests |-> given'[r]]
            /\ verdict'[m.r] = <<told>> /\ given'[m.r] = <<m.local>> /\ phase'[m.r] = "settled"
            /\ \A r \in Requests \ {m.r} :
                 verdict'[r] = verdict[r] /\ given'[r] = given[r] /\ phase'[r] = phase[r]
        BY <1>0, <4>1, <4>2 DEF CarryInv, RelayTypeOK
      <4>5. ASSUME NEW r \in Requests, given'[r] # <<>>
            PROVE  phase'[r] # "new" /\ Carried(r, shape'[r], given'[r][1], verdict'[r][1])
        <5>1. CASE r = m.r
          BY <4>2, <4>3, <4>4, <5>1
        <5>2. CASE r # m.r
          BY <4>2, <4>4, <4>5, <5>2, ZenonT(60) DEF CarryInv
        <5> QED BY <5>1, <5>2
      <4> QED BY <4>4, <4>5
    <3>3. CASE ~(m.t = "answer" /\ phase[m.r] = "pending" /\ c \in targets[m.r])
      <4>1. UNCHANGED <<verdict, given>>
        BY <2>2, <3>1, <3>3, CallKinds DEF Serve, m
      <4> QED BY <2>1, <4>1
    <3> QED BY <3>2, <3>3
  <2> QED BY <2>1, <2>2, VerdictStep
<1> QED BY <1>1, <1>2 DEF CarryInv

\* Every verdict an answer of the local user gave is that answer, whatever the
\* drops, the other clients and the order of the calls, for every item and
\* every number of chosen labels (bridges.ts toWireAnswers, index.ts ask).
THEOREM AnswerCarried == RelaySpec => []VerdictCarried
<1>1. RelayInit => CarryInv
  BY RelayAssumption DEF RelayInit, CarryInv, Connections
<1>2. RelayInv /\ RelayInv' /\ CarryInv /\ [RelayNext]_relayVars => CarryInv'
  BY CarryStep
<1>3. CarryInv => VerdictCarried
  BY Zenon DEF CarryInv, VerdictCarried, Carried, ToldIsAnswer
<1> QED BY <1>1, <1>2, <1>3, RelayInvariant, PTL DEF RelaySpec

============================================================================
