--------------------------- MODULE SharedSession ---------------------------
(***************************************************************************)
(* What the broker promises about a session, as a shared terminal would:   *)
(* members come and go, at most one of them holds the keyboard, and every  *)
(* member sees the log from the point it joined at, each event once and in *)
(* order.  There are no connections, maps or listeners here.               *)
(* SessionBroker is shown to implement this specification.                 *)
(***************************************************************************)
EXTENDS Integers, Sequences

CONSTANTS Clients, Sessions, None

VARIABLES
  members,  \* members[s]: who sees session s
  holder,   \* holder[s]: who may type, or None
  length,   \* length[s]: number of events in the log of s
  seen      \* seen[c][s]: the events c was sent since it joined s

sharedVars == <<members, holder, length, seen>>

Suffix(s, from) == [i \in 1..(length[s] - 1 - from) |-> from + i]

SharedInit ==
  /\ members = [s \in Sessions |-> {}]
  /\ holder = [s \in Sessions |-> None]
  /\ length = [s \in Sessions |-> 0]
  /\ seen = [c \in Clients |-> [s \in Sessions |-> <<>>]]

\* c joins s, or joins again, and is sent the log after event `from`.
Join(c, s, from) ==
  /\ members' = [members EXCEPT ![s] = @ \union {c}]
  /\ seen' = [seen EXCEPT ![c][s] = Suffix(s, from)]
  /\ UNCHANGED <<holder, length>>

\* c joins and takes the keyboard; a previous holder stays a member.
Take(c, s, from) ==
  /\ members' = [members EXCEPT ![s] = @ \union {c}]
  /\ seen' = [seen EXCEPT ![c][s] = Suffix(s, from)]
  /\ holder' = [holder EXCEPT ![s] = c]
  /\ UNCHANGED length

Yield(s) ==
  /\ holder' = [holder EXCEPT ![s] = None]
  /\ UNCHANGED <<members, length, seen>>

\* c leaves a set of sessions, and takes no keyboard with it.
Leave(c, which) ==
  /\ members' = [s \in Sessions |->
                   IF s \in which THEN members[s] \ {c} ELSE members[s]]
  /\ holder' = [s \in Sessions |->
                   IF s \in which /\ holder[s] = c THEN None ELSE holder[s]]
  /\ seen' = [seen EXCEPT ![c] =
                [s \in Sessions |-> IF s \in which THEN <<>> ELSE @[s]]]
  /\ UNCHANGED length

\* One event is appended and reaches exactly the members, once.
Publish(s) ==
  /\ length' = [length EXCEPT ![s] = @ + 1]
  /\ seen' = [c \in Clients |-> [seen[c] EXCEPT ![s] =
                IF c \in members[s] THEN Append(@, length[s]) ELSE @]]
  /\ UNCHANGED <<members, holder>>

\* A session that nobody has joined starts with a given log (a fork).
Open(s, n) ==
  /\ members[s] = {}
  /\ length' = [length EXCEPT ![s] = n]
  /\ UNCHANGED <<members, holder, seen>>

SharedNext ==
  \/ \E c \in Clients, s \in Sessions :
       \E from \in -1..(length[s] - 1) : Join(c, s, from) \/ Take(c, s, from)
  \/ \E s \in Sessions : Yield(s) \/ Publish(s)
  \/ \E s \in Sessions, r \in Sessions : \E n \in 0..length[r] : Open(s, n)
  \/ \E c \in Clients, which \in SUBSET Sessions : Leave(c, which)

SharedSpec == SharedInit /\ [][SharedNext]_sharedVars

============================================================================
