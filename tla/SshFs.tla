------------------------------- MODULE SshFs -------------------------------
(***************************************************************************)
(* SshFileSystem (packages/fs-ssh/src/fs-ssh.ts, mutex.ts, version.ts):    *)
(* guarded, atomic mutations of one remote file over SSH.                  *)
(*                                                                         *)
(* writeText and editText of this process are serialized by a promise      *)
(* chain.  Each looks at the file (stat, then read), stages its content in *)
(* a temporary file and starts a remote script that checks the guard again *)
(* and renames the temporary file over the target.  The script runs on the *)
(* host: an abort or a lost connection ends the wait for it, not always    *)
(* the script.  Other programs of the host write the file at any time.     *)
(*                                                                         *)
(* A text is a number, in the order in which texts came to be.  Its stamp  *)
(* stands for size, mtime in seconds and mode, of which a version token is *)
(* the hash: two texts may have the same stamp.                            *)
(***************************************************************************)
EXTENDS Integers, Sequences, FiniteSets

CONSTANTS
  MaxCalls,    \* bound on the calls of writeText and editText
  None,        \* no file, no version, nothing known
  MaxText      \* bound on the texts that ever exist

ASSUME FsAssumption == MaxCalls \in Nat \ {0} /\ MaxText \in Nat \ {0} /\ None \notin Nat

\* Calls are numbered in the order in which they reach the mutex.
Ops == 1..MaxCalls

Kinds == {"force", "create", "replace", "edit"}

VARIABLES
  file,        \* the text of the target, or None
  stampOf,     \* stampOf[t]: the stamp of text t
  peek,        \* the version a read of the caller found before its content
  known,       \* what the caller knows: a version and the text it takes it for
  pc,          \* pc[o]: where the call is
  kind,        \* kind[o]: "force" writes without a guard
  guard,       \* guard[o]: the version the caller expects, or None
  base,        \* base[o]: the text the caller takes the guard for
  attrs,       \* attrs[o]: the version found by the stat of the call, or None
  basis,       \* basis[o]: the text the call has read, or None
  mine,        \* mine[o]: the text the call has staged, or None
  tmp,         \* tmp[o]: does its temporary file exist
  live,        \* live[o]: is the connection that the call runs on alive
  script,      \* script[o]: the remote publish script
  checked,     \* checked[o]: the text of the target when the script checked it
  verdict      \* verdict[o]: how the call settled

hostVars == <<file, stampOf>>
userVars == <<peek, known>>
callVars == <<kind, guard, base>>
workVars == <<attrs, basis, mine>>
scriptVars == <<script, checked>>
vars == <<hostVars, userVars, pc, callVars, workVars, tmp, live, scriptVars, verdict>>

Texts == 1..Len(stampOf)
Stamps == {stampOf[t] : t \in Texts}
Text == 1..MaxText

TypeOK ==
  /\ stampOf \in Seq(Text) /\ Len(stampOf) <= MaxText
  /\ file \in Texts \union {None}
  /\ peek \in Stamps \union {None}
  /\ known \in [ver : Stamps, text : Texts] \union {None}
  /\ pc \in [Ops -> {"idle", "queued", "read", "stage", "publish", "unlink", "after", "over"}]
  /\ kind \in [Ops -> Kinds]
  /\ guard \in [Ops -> Stamps \union {None}]
  /\ base \in [Ops -> Texts \union {None}]
  /\ attrs \in [Ops -> Stamps \union {None}]
  /\ basis \in [Ops -> Texts \union {None}]
  /\ mine \in [Ops -> Texts \union {None}]
  /\ tmp \in [Ops -> BOOLEAN] /\ live \in [Ops -> BOOLEAN]
  /\ script \in [Ops -> {"none", "check", "move", "done", "refused", "dead"}]
  /\ checked \in [Ops -> Texts \union {None}]
  /\ verdict \in [Ops -> {"none", "ok", "guard", "failed"}]

Init ==
  /\ \/ stampOf = <<>> /\ file = None
     \/ stampOf = <<1>> /\ file = 1
  /\ peek = None /\ known = None
  /\ pc = [o \in Ops |-> "idle"]
  /\ kind = [o \in Ops |-> "force"]
  /\ guard = [o \in Ops |-> None]
  /\ base = [o \in Ops |-> None]
  /\ attrs = [o \in Ops |-> None]
  /\ basis = [o \in Ops |-> None]
  /\ mine = [o \in Ops |-> None]
  /\ tmp = [o \in Ops |-> FALSE]
  /\ live = [o \in Ops |-> TRUE]
  /\ script = [o \in Ops |-> "none"]
  /\ checked = [o \in Ops |-> None]
  /\ verdict = [o \in Ops |-> "none"]

----------------------------------------------------------------------------
(* The remote host *)

\* versionOfAttrs of the target, None when there is no file.
VersionOf(text) == IF text = None THEN None ELSE stampOf[text]

\* A new text; its stamp may be that of the file, written in the same second.
NewText ==
  /\ Len(stampOf) < MaxText
  /\ \E s \in {VersionOf(file), Cardinality(Stamps) + 1} \ {None} : stampOf' = Append(stampOf, s)

\* Another program of the host writes or removes the file.
ForeignWrite ==
  /\ NewText
  /\ file' = Len(stampOf')
  /\ UNCHANGED <<userVars, pc, callVars, workVars, tmp, live, scriptVars, verdict>>

ForeignRemove ==
  /\ file # None
  /\ file' = None
  /\ UNCHANGED <<stampOf, userVars, pc, callVars, workVars, tmp, live, scriptVars, verdict>>

\* The connection drops; the next call finds a new one.
Drop ==
  /\ \E o \in Ops :
       /\ pc[o] \notin {"idle", "queued", "over"}
       /\ live[o]
       /\ live' = [live EXCEPT ![o] = FALSE]
  /\ UNCHANGED <<hostVars, userVars, pc, callVars, workVars, tmp, scriptVars, verdict>>

----------------------------------------------------------------------------
(* Reads of the caller: stat, which publishes the version, then the content. *)

\* What the caller knows is of use as long as calls are left.
CallsLeft == pc[MaxCalls] = "idle"

\* Only a file that is there can be read.
statForRead == file # None

ReadStat ==
  /\ CallsLeft
  /\ statForRead
  /\ peek = None
  /\ peek' = VersionOf(file)
  /\ UNCHANGED <<hostVars, known, pc, callVars, workVars, tmp, live, scriptVars, verdict>>

ReadContent ==
  /\ peek # None
  /\ peek' = None
  /\ known' = IF file = None THEN known ELSE [ver |-> peek, text |-> file]
  /\ UNCHANGED <<hostVars, pc, callVars, workVars, tmp, live, scriptVars, verdict>>

----------------------------------------------------------------------------
(* writeText, editText *)

\* The call is queued behind those in flight.  A guard is a version the caller
\* knows; an edit may do without.
Call(o, k, guarded) ==
  /\ pc[o] = "idle"
  /\ \A p \in 1..(o - 1) : pc[p] # "idle"
  /\ guarded => known # None
  /\ guarded = (k = "replace") \/ k = "edit"
  /\ pc' = [pc EXCEPT ![o] = "queued"]
  /\ kind' = [kind EXCEPT ![o] = k]
  /\ guard' = [guard EXCEPT ![o] = IF guarded THEN known.ver ELSE None]
  /\ base' = [base EXCEPT ![o] = IF guarded THEN known.text ELSE None]
  /\ IF o = MaxCalls THEN known' = None /\ peek' = None ELSE UNCHANGED userVars
  /\ UNCHANGED <<hostVars, workVars, tmp, live, scriptVars, verdict>>

\* The script runs, whether or not its call still waits for it.
Armed(o) == script[o] \in {"check", "move"}

\* What is remembered of a call that is over: nothing, unless its script is out
\* of reach and may still publish.
Forget(f, o) == IF Armed(o) /\ ~live[o] THEN f ELSE [f EXCEPT ![o] = None]

\* A call settles and the next one of the chain may start: the stored tail never
\* rejects.
Settle(o, how) ==
  /\ pc' = [pc EXCEPT ![o] = "over"]
  /\ verdict' = [verdict EXCEPT ![o] = how]
  /\ kind' = IF Armed(o) /\ ~live[o] THEN kind ELSE [kind EXCEPT ![o] = "force"]
  /\ guard' = Forget(guard, o) /\ base' = Forget(base, o)
  /\ attrs' = Forget(attrs, o) /\ basis' = Forget(basis, o) /\ mine' = Forget(mine, o)

\* Mutant: the chain goes on after a success only.
RunsAfterSuccess(o, where) == pc[o] = where /\ \A p \in 1..(o - 1) : verdict[p] = "ok"

\* KeyedMutex.run: calls run strictly one at a time, in call order.
Runs(o, where) == pc[o] = where /\ \A p \in 1..(o - 1) : pc[p] = "over"

\* The pre-checks of performWrite and performEdit.
RefusedByStat(o) ==
  \/ kind[o] = "create" /\ file # None
  \/ kind[o] = "replace" /\ (file = None \/ VersionOf(file) # guard[o])
  \/ kind[o] = "edit" /\ file = None
  \/ kind[o] = "edit" /\ guard[o] # None /\ VersionOf(file) # guard[o]

Stat(o) ==
  /\ Runs(o, "queued")
  /\ \/ Settle(o, "failed")
     \/ RefusedByStat(o) /\ Settle(o, "guard")
     \/ /\ ~RefusedByStat(o)
        /\ attrs' = [attrs EXCEPT ![o] = VersionOf(file)]
        /\ pc' = [pc EXCEPT ![o] = "read"]
        /\ UNCHANGED <<verdict, callVars, basis, mine>>
  /\ UNCHANGED <<hostVars, userVars, tmp, live, scriptVars>>

\* What can be read of the former text, for the report of a write: no failure
\* blocks the write.
tryReadBasis(o) == IF attrs[o] # None /\ live[o] THEN file ELSE None

\* The whole text can be read.
readAll(o) == live[o] /\ file # None

\* A write goes on whatever it reads, unless it was aborted.
ReadBasis(o) ==
  /\ Runs(o, "read") /\ kind[o] # "edit"
  /\ \/ /\ basis' = [basis EXCEPT ![o] = tryReadBasis(o)]
        /\ pc' = [pc EXCEPT ![o] = "stage"]
        /\ UNCHANGED <<verdict, callVars, attrs, mine>>
     \/ Settle(o, "failed")
  /\ UNCHANGED <<hostVars, userVars, tmp, live, scriptVars>>

\* An edit must read the text, and its search text must match as often as asked.
ReadMatch(o) ==
  /\ Runs(o, "read") /\ kind[o] = "edit"
  /\ \/ /\ readAll(o)
        /\ basis' = [basis EXCEPT ![o] = file]
        /\ pc' = [pc EXCEPT ![o] = "stage"]
        /\ UNCHANGED <<verdict, callVars, attrs, mine>>
     \/ Settle(o, "failed")
  /\ UNCHANGED <<hostVars, userVars, tmp, live, scriptVars>>

\* The temporary file is uploaded and the publish script started.
Stage(o) ==
  /\ Runs(o, "stage")
  /\ live[o]
  /\ NewText
  /\ mine' = [mine EXCEPT ![o] = Len(stampOf')]
  /\ tmp' = [tmp EXCEPT ![o] = TRUE]
  /\ script' = [script EXCEPT ![o] = "check"]
  /\ pc' = [pc EXCEPT ![o] = "publish"]
  /\ UNCHANGED <<file, userVars, callVars, attrs, basis, live, checked, verdict>>

\* A failed upload may leave a part of the file behind, for the clean-up.
StageFails(o) ==
  /\ Runs(o, "stage")
  /\ tmp' \in {tmp, [tmp EXCEPT ![o] = TRUE]}
  /\ pc' = [pc EXCEPT ![o] = "unlink"]
  /\ UNCHANGED <<hostVars, userVars, callVars, workVars, live, scriptVars, verdict>>

----------------------------------------------------------------------------
(* dsh_remote_publish, on the host *)

\* Mutant: only writes are guarded.
RefusedByScriptWrites(o) ==
  \/ kind[o] = "create" /\ file # None
  \/ kind[o] = "replace" /\ VersionOf(file) # attrs[o]

\* An edit is always published under the version its own stat found.
Versioned(o) == kind[o] \in {"replace", "edit"}

\* What the script is told to expect.
RefusedByScript(o) ==
  \/ kind[o] = "create" /\ file # None
  \/ Versioned(o) /\ VersionOf(file) # attrs[o]

ScriptCheck(o) ==
  /\ script[o] = "check"
  /\ script' = [script EXCEPT ![o] = IF RefusedByScript(o) THEN "refused" ELSE "move"]
  /\ checked' = [checked EXCEPT ![o] = IF RefusedByScript(o) THEN None ELSE file]
  /\ UNCHANGED <<hostVars, userVars, pc, callVars, workVars, tmp, live, verdict>>

\* mv -f, which fails when the temporary file is gone.
ScriptMove(o) ==
  /\ script[o] = "move"
  /\ IF tmp[o]
     THEN /\ file' = mine[o]
          /\ tmp' = [tmp EXCEPT ![o] = FALSE]
          /\ script' = [script EXCEPT ![o] = "done"]
     ELSE /\ script' = [script EXCEPT ![o] = "dead"]
          /\ UNCHANGED <<file, tmp>>
  /\ UNCHANGED <<stampOf, userVars, pc, callVars, workVars, live, checked, verdict>>

\* The script is killed, with its channel or by a fault of the host.
ScriptDies(o) ==
  /\ Armed(o)
  /\ script' = [script EXCEPT ![o] = "dead"]
  /\ UNCHANGED <<hostVars, userVars, pc, callVars, workVars, tmp, live, checked, verdict>>

----------------------------------------------------------------------------
(* The end of a call *)

\* Mutant: the exit code of the script is not looked at.
PublishedAnyhow(o) ==
  /\ Runs(o, "publish")
  /\ \/ /\ live[o] /\ script[o] \in {"done", "refused", "dead"}
        /\ pc' = [pc EXCEPT ![o] = "after"]
     \/ pc' = [pc EXCEPT ![o] = "unlink"]
  /\ UNCHANGED <<hostVars, userVars, callVars, workVars, tmp, live, scriptVars, verdict>>

\* The script's exit code arrives, or none does: the caller's signal closed the
\* channel, or the connection is lost, wherever the script is by then.
Published(o) ==
  /\ Runs(o, "publish")
  /\ \/ /\ live[o] /\ script[o] = "done"
        /\ pc' = [pc EXCEPT ![o] = "after"]
        /\ UNCHANGED verdict
     \/ /\ live[o] /\ script[o] = "refused"
        /\ pc' = [pc EXCEPT ![o] = "unlink"]
        /\ verdict' = [verdict EXCEPT ![o] = "guard"]
     \/ /\ pc' = [pc EXCEPT ![o] = "unlink"]
        /\ UNCHANGED verdict
  /\ UNCHANGED <<hostVars, userVars, callVars, workVars, tmp, live, scriptVars>>

\* Mutant: nothing is cleaned up.
UnlinkNothing(o) ==
  /\ Runs(o, "unlink")
  /\ Settle(o, IF verdict[o] = "guard" THEN "guard" ELSE "failed")
  /\ UNCHANGED <<hostVars, userVars, tmp, live, scriptVars>>

\* silentUnlink: done over the call's own connection, or not at all.
Unlink(o) ==
  /\ Runs(o, "unlink")
  /\ tmp' = [tmp EXCEPT ![o] = @ /\ ~live[o]]
  /\ Settle(o, IF verdict[o] = "guard" THEN "guard" ELSE "failed")
  /\ UNCHANGED <<hostVars, userVars, live, scriptVars>>

\* Mutant: the file is taken to be there after its publication.
StatAfterSure(o) ==
  /\ Runs(o, "after")
  /\ live[o]
  /\ known' = IF CallsLeft THEN [ver |-> VersionOf(file), text |-> mine[o]] ELSE None
  /\ Settle(o, "ok")
  /\ UNCHANGED <<hostVars, peek, tmp, live, scriptVars>>

\* The version of the outcome is that of the file found by another stat.
StatAfter(o) ==
  /\ Runs(o, "after")
  /\ \/ /\ live[o] /\ file # None
        /\ known' = IF CallsLeft THEN [ver |-> VersionOf(file), text |-> mine[o]] ELSE None
        /\ Settle(o, "ok")
     \/ UNCHANGED known /\ Settle(o, "failed")
  /\ UNCHANGED <<hostVars, peek, tmp, live, scriptVars>>

----------------------------------------------------------------------------

CallStep(o)   == \/ Stat(o) \/ ReadBasis(o) \/ ReadMatch(o) \/ Stage(o) \/ StageFails(o)
                 \/ Published(o) \/ Unlink(o) \/ StatAfter(o)
ScriptStep(o) == ScriptCheck(o) \/ ScriptMove(o)

Next ==
  \/ ForeignWrite \/ ForeignRemove \/ Drop
  \/ ReadStat \/ ReadContent
  \/ \E o \in Ops, k \in Kinds, guarded \in BOOLEAN : Call(o, k, guarded)
  \/ \E o \in Ops : CallStep(o) \/ ScriptStep(o) \/ ScriptDies(o)

\* Every round trip of a call ends, in an answer or an error.
Fairness == \A o \in Ops : WF_vars(CallStep(o))

Spec == Init /\ [][Next]_vars /\ Fairness

----------------------------------------------------------------------------
(* Properties *)

\* No two texts were written in one second with one size and mode.
Distinct == \A t, u \in Texts : stampOf[t] = stampOf[u] => t = u

\* No update is lost: when a text is published over a file that has not changed
\* since the script's check, then a create replaces nothing, an edit exactly the
\* text it was computed from, and a guarded write exactly the text the caller
\* knew under the version it gave (fs-ssh.ts performWrite, performEdit,
\* execPublish; version tokens tell texts apart).
ReplacesOnlySeen ==
  [][\A o \in Ops : script'[o] = "done" /\ script[o] = "move" /\ file = checked[o] =>
       /\ kind[o] = "create" => file = None
       /\ kind[o] = "edit" /\ Distinct => file = basis[o]
       /\ kind[o] = "replace" /\ Distinct /\ stampOf[base[o]] = guard[o] => file = base[o]]_vars

\* A call that has settled changes nothing any more, although its script may
\* still run, unless its connection was lost (the clean-up of fs-ssh.ts 432-437
\* disarms the script).
OverMeansOver ==
  \A o \in Ops : pc[o] = "over" /\ live[o] => ~tmp[o]

\* What a call reports is what happened: success means that its text took the
\* place of the target, a failed guard that it never does, not even later.
VerdictHonest ==
  \A o \in Ops :
    /\ verdict[o] = "ok" => script[o] = "done"
    /\ verdict[o] = "guard" => script[o] \in {"none", "refused"}

\* What a settled call says of the file stays true of the file
\* (fs-ssh.ts performWrite, performEdit, silentUnlink).
FilesInv == TypeOK /\ OverMeansOver /\ VerdictHonest

\* A call that fails, is aborted or loses its connection never wedges the
\* calls queued behind it (mutex.ts run).
ChainDrains == \A o \in Ops : pc[o] = "queued" ~> pc[o] = "over"

============================================================================
