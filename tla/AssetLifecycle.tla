-------------------------- MODULE AssetLifecycle --------------------------
(***************************************************************************)
(* What the download queue promises, with no clock and no fencing token.   *)
(* A row being downloaded has exactly one owner.  Ownership may be taken   *)
(* over; from then on the former owner can only walk away.  A row leaves   *)
(* "held" by a verdict of its owner and in no other way, a finished row is *)
(* never opened again, and a row is given up after MaxAttempts tries.      *)
(***************************************************************************)
EXTENDS Naturals

CONSTANTS Assets, Slots, Nobody, NoAsset, MaxAttempts

VARIABLES
  phase,  \* [Assets -> Phases]
  owner,  \* the slot a held row belongs to
  tries,  \* claims made since the row was last given a fresh budget
  busy    \* the row a slot is occupied with, or NoAsset

lifeVars == <<phase, owner, tries, busy>>

Phases == {"absent", "open", "held", "done", "dropped", "given_up"}

LifeInit ==
  /\ phase = [a \in Assets |-> "absent"]
  /\ owner = [a \in Assets |-> Nobody]
  /\ tries = [a \in Assets |-> 0]
  /\ busy = [s \in Slots |-> NoAsset]

\* Rows appear, are reopened by an operator, or are dropped; done and held rows
\* are left alone, whatever set of rows the statement names.
Regroup ==
  /\ phase' \in [Assets -> Phases]
  /\ \A a \in Assets :
       \/ phase'[a] = phase[a]
       \/ phase[a] = "absent" /\ phase'[a] = "open"
       \/ phase[a] \in {"open", "given_up"} /\ phase'[a] \in {"open", "dropped"}
  /\ UNCHANGED <<owner, tries, busy>>

\* A free slot takes a row, possibly from a slot presumed dead.
Take(s, a) ==
  /\ busy[s] = NoAsset
  /\ phase[a] \in {"open", "held"}
  /\ phase' = [phase EXCEPT ![a] = "held"]
  /\ owner' = [owner EXCEPT ![a] = s]
  /\ tries' = [tries EXCEPT ![a] = @ + 1]
  /\ busy' = [busy EXCEPT ![s] = a]

\* The owner's verdict.
Conclude(s, a) ==
  /\ busy[s] = a
  /\ owner[a] = s
  /\ \E p \in {"open", "done", "dropped", "given_up"} :
       /\ p = "open" => tries[a] < MaxAttempts
       /\ p = "given_up" => tries[a] >= MaxAttempts
       /\ phase' = [phase EXCEPT ![a] = p]
  /\ owner' = [owner EXCEPT ![a] = Nobody]
  /\ busy' = [busy EXCEPT ![s] = NoAsset]
  /\ UNCHANGED tries

\* A slot gives up its row without a verdict: it lost it, or it died.
WalkAway(s) ==
  /\ busy' = [busy EXCEPT ![s] = NoAsset]
  /\ UNCHANGED <<phase, owner, tries>>

LifeNext ==
  \/ Regroup
  \/ \E s \in Slots : WalkAway(s) \/ \E a \in Assets : Take(s, a) \/ Conclude(s, a)

LifeSpec == LifeInit /\ [][LifeNext]_lifeVars
=============================================================================
