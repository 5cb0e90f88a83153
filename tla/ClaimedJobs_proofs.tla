--------------------------- MODULE ClaimedJobs_proofs ---------------------------
(***************************************************************************)
(* What every system that implements ClaimedJobs has, for any set of jobs  *)
(* and of workers.                                                         *)
(***************************************************************************)
EXTENDS ClaimedJobs, TLAPS

\* What one job keeps.
Sound(j) ==
    /\ state[j] \in States
    /\ work[j] \in Nat
    /\ done[j] \in Nat
    /\ holders[j] \subseteq Workers
    /\ \A v, w \in holders[j] : v = w
    /\ state[j] \in {"absent", "open"} => holders[j] = {} /\ done[j] = 0
    /\ done[j] <= work[j]
    /\ state[j] = "finished" => done[j] = work[j]

LEMMA JobStepSound ==
    ASSUME NEW j, Sound(j), JobStep(j)
    PROVE  Sound(j)'
<1>1. CASE Same(j)
  BY <1>1 DEF Sound, Same
<1>2. CASE Open(j)
  BY <1>2 DEF Sound, Open, States
<1>3. CASE Withdraw(j)
  BY <1>3 DEF Sound, Withdraw, States
<1>4. CASE Take(j)
  BY <1>4 DEF Sound, Take, States
<1>5. CASE Carry(j)
  BY <1>5 DEF Sound, Carry, States
<1>6. CASE Leave(j)
  BY <1>6 DEF Sound, Leave, States
<1>7. CASE GiveUp(j)
  BY <1>7 DEF Sound, GiveUp, States
<1>8. CASE Erase(j)
  BY <1>8 DEF Sound, Erase, States
<1> QED
  BY <1>1, <1>2, <1>3, <1>4, <1>5, <1>6, <1>7, <1>8 DEF JobStep

\* Nobody works on a job that was not taken, two workers never do, no piece of
\* work is carried out twice and a finished job lacks none: what the class
\* comments of the sweeps say, for everything that implements ClaimedJobs.
THEOREM JobsOnce == Spec => [](TypeOK /\ Once)
<1> DEFINE Inv == \A j \in Jobs : Sound(j)
<1>1. Init => Inv
  <2> SUFFICES ASSUME Init, NEW j \in Jobs PROVE Sound(j)
    OBVIOUS
  <2>1. state[j] = "absent" /\ work[j] = 0 /\ done[j] = 0 /\ holders[j] = {}
    BY DEF Init
  <2> QED
    BY <2>1 DEF Sound, States
<1>2. Inv /\ [Next]_vars => Inv'
  <2> SUFFICES ASSUME Inv, [Next]_vars, NEW j \in Jobs PROVE Sound(j)'
    OBVIOUS
  <2>1. CASE Next
    BY <2>1, JobStepSound DEF Next
  <2>2. CASE UNCHANGED vars
    BY <2>2 DEF vars, Sound
  <2> QED
    BY <2>1, <2>2
<1>3. Inv => TypeOK /\ Once
  BY DEF Sound, TypeOK, Once
<1> QED
  BY <1>1, <1>2, <1>3, PTL DEF Spec
================================================================================
