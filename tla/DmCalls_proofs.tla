---------------------------- MODULE DmCalls_proofs ----------------------------
(***************************************************************************)
(* Proofs about DmCalls, for every conversation, every number of handlers  *)
(* and instances, every number of calls and of crashes.                    *)
(***************************************************************************)
EXTENDS DmCalls, FiniteSetTheorems, TLAPS

\* Who acts, and on which kind of conversation.
HandlerShape ==
    \A h \in Handlers :
        /\ handlers[h].pc \in {"startClear", "startSet", "declineClear", "removeGet", "removeWrite"}
              => handlers[h].user \in Users
        /\ handlers[h].pc = "declineClear" => ~isGroup
        /\ handlers[h].pc \in {"removeGet", "removeWrite"} => isGroup

ShapeInv == TypeOK /\ HandlerShape

\* The part of ShapeInv that is about the handlers.
HandlersOK ==
    /\ handlers \in [Handlers -> [pc : HandlerPhases, user : Users \cup {NoUser},
                                  about : 0 .. MaxRings, snap : Rings \cup {NoRing}]]
    /\ \A h \in Handlers : handlers[h].pc = "removeWrite" => handlers[h].snap # NoRing
    /\ HandlerShape

LEMMA IdleHandlerType ==
    IdleHandler \in [pc : HandlerPhases, user : Users \cup {NoUser},
                     about : 0 .. MaxRings, snap : Rings \cup {NoRing}]
BY DmCallsAssumption DEF IdleHandler, HandlerPhases

LEMMA ShapeInit == Init => ShapeInv
<1> SUFFICES ASSUME Init PROVE ShapeInv
  OBVIOUS
<1>1. HandlersOK
  BY IdleHandlerType DEF Init, HandlersOK, HandlerShape, IdleHandler
<1>2. sweeps \in [Instances -> [pc : SweepPhases, about : 0 .. MaxRings]]
  BY DmCallsAssumption DEF Init, IdleSweep, SweepPhases
<1>3. /\ declined \in [RingIds -> SUBSET Users] /\ overtaken \in [RingIds -> SUBSET Users]
      /\ missedCalls \in [RingIds -> 0 .. CountTo]
  BY DmCallsAssumption DEF Init
<1>4. placed \in 0 .. MaxRings /\ crashes \in 0 .. MaxCrashes /\ missed \in Nat
  BY DmCallsAssumption DEF Init
<1> QED
  BY <1>1, <1>2, <1>3, <1>4 DEF Init, HandlersOK, ShapeInv, TypeOK

\* A handler that ends, however it ends, leaves the others as they are.
LEMMA EndKeepsHandlers ==
    ASSUME ShapeInv, NEW h \in Handlers, End(h), UNCHANGED isGroup
    PROVE  HandlersOK'
<1>1. handlers' \in [Handlers -> [pc : HandlerPhases, user : Users \cup {NoUser},
                                  about : 0 .. MaxRings, snap : Rings \cup {NoRing}]]
  BY IdleHandlerType DEF ShapeInv, TypeOK, End
<1>2. \A g \in Handlers : handlers'[g] = handlers[g] \/ handlers'[g].pc = "idle"
  BY DEF ShapeInv, TypeOK, End, IdleHandler
<1> QED
  BY <1>1, <1>2 DEF HandlersOK, ShapeInv, TypeOK, HandlerShape

\* A missed call is counted up to CountTo.
LEMMA NotifyType ==
    ASSUME ShapeInv, NEW n, NotifyMissedCall(n)
    PROVE  missedCalls' \in [RingIds -> 0 .. CountTo]
<1>1. \A k \in RingIds : (IF missedCalls[k] = CountTo THEN missedCalls[k] ELSE missedCalls[k] + 1) \in 0 .. CountTo
  <2>1. TAKE k \in RingIds
  <2>2. missedCalls[k] \in 0 .. CountTo /\ CountTo \in Nat
    BY DmCallsAssumption DEF ShapeInv, TypeOK
  <2> QED
    BY <2>2
<1>2. missedCalls' = [k \in RingIds |->
          IF k = n THEN IF missedCalls[k] = CountTo THEN missedCalls[k] ELSE missedCalls[k] + 1
          ELSE missedCalls[k]]
  BY DEF ShapeInv, TypeOK, NotifyMissedCall
<1> QED
  BY <1>1, <1>2 DEF ShapeInv, TypeOK

\* Only members decline.
LEMMA DeclinedType ==
    ASSUME ShapeInv, NEW h \in Handlers, handlers[h].user \in Users, Declined(h)
    PROVE  declined' \in [RingIds -> SUBSET Users] /\ overtaken' \in [RingIds -> SUBSET Users]
BY DEF ShapeInv, TypeOK, Declined

LEMMA ShapeStep == ShapeInv /\ [Next]_vars => ShapeInv'
<1> SUFFICES ASSUME ShapeInv, [Next]_vars PROVE ShapeInv'
  OBVIOUS
<1> USE DmCallsAssumption DEF ShapeInv, TypeOK, HandlerShape, HandlerPhases, SweepPhases,
        ringKeys, history
<1>1. CASE UNCHANGED vars
  BY <1>1 DEF vars
<1>2. CASE DeadlinePasses
  BY <1>2 DEF DeadlinePasses
<1>3. CASE KeyExpires
  BY <1>3 DEF KeyExpires
<1>4. ASSUME NEW h \in Handlers, NEW u \in Users, StartRing(h, u) PROVE ShapeInv'
  BY <1>4 DEF StartRing, Begin
<1>5. ASSUME NEW h \in Handlers, NEW u \in Users, Decline(h, u) PROVE ShapeInv'
  <2>1. ring.id \in 0 .. MaxRings
    BY <1>5 DEF Decline, Rings, RingIds
  <2> QED
    BY <1>5, <2>1 DEF Decline, Begin
<1>6. ASSUME NEW h \in Handlers, NEW u \in Users, Cancel(h, u) PROVE ShapeInv'
  <2>1. ring.id \in 0 .. MaxRings
    BY <1>6 DEF Cancel, Rings, RingIds
  <2> QED
    BY <1>6, <2>1 DEF Cancel, Begin
<1>7. ASSUME NEW h \in Handlers, NEW u \in Users, Answer(h, u) PROVE ShapeInv'
  <2>1. ring.id \in 0 .. MaxRings
    BY <1>7 DEF Answer, Rings, RingIds
  <2> QED
    BY <1>7, <2>1 DEF Answer, Begin
<1>8. ASSUME NEW h \in Handlers, StartClear(h) PROVE ShapeInv'
  <2>1. handlers' = [handlers EXCEPT ![h].pc = "startSet"] /\ handlers[h].pc = "startClear"
    BY <1>8 DEF StartClear, At
  <2>2. ring' = NoRing /\ hasTtl' = FALSE /\ deadline' = "absent"
        /\ UNCHANGED <<isGroup, members, sweeps, history, crashes>>
    BY <1>8 DEF StartClear, ClearRing
  <2>3. handlers' \in [Handlers -> [pc : HandlerPhases, user : Users \cup {NoUser},
                                    about : 0 .. MaxRings, snap : Rings \cup {NoRing}]]
    BY <2>1
  <2>4. \A g \in Handlers : g # h => handlers'[g] = handlers[g]
    BY <2>1
  <2>5. handlers'[h].pc = "startSet" /\ handlers'[h].user = handlers[h].user
        /\ handlers'[h].about = handlers[h].about /\ handlers'[h].snap = handlers[h].snap
    BY <2>1
  <2> QED
    BY <2>1, <2>2, <2>3, <2>4, <2>5
<1>9. ASSUME NEW h \in Handlers, StartSet(h) PROVE ShapeInv'
  <2>1. ring' \in Rings
    BY <1>9 DEF StartSet, At, Rings, RingIds
  <2>2. placed' \in 0 .. MaxRings
    BY <1>9 DEF StartSet
  <2> QED
    BY <1>9, <2>1, <2>2 DEF StartSet, At, End, IdleHandler
<1>10. ASSUME NEW h \in Handlers, DeclineClear(h) PROVE ShapeInv'
  BY <1>10, EndKeepsHandlers DEF DeclineClear, At, ClearRing, HandlersOK
<1>11. ASSUME NEW h \in Handlers, RemoveGet(h) PROVE ShapeInv'
  <2>1. declined' \in [RingIds -> SUBSET Users] /\ overtaken' \in [RingIds -> SUBSET Users]
    BY <1>11, DeclinedType DEF RemoveGet, At
  <2> QED
    BY <1>11, <2>1 DEF RemoveGet, At, End, IdleHandler
<1>12. ASSUME NEW h \in Handlers, RemoveWrite(h) PROVE ShapeInv'
  <2>1. handlers[h].snap \in Rings
    BY <1>12 DEF RemoveWrite, At
  <2> DEFINE left == handlers[h].snap.members \ {handlers[h].user}
  <2>2. [handlers[h].snap EXCEPT !.members = left] \in Rings
    BY <2>1 DEF Rings
  <2>3. ring' \in Rings \cup {NoRing}
    BY <1>12, <2>2 DEF RemoveWrite, ClearRing
  <2>4. hasTtl' \in BOOLEAN /\ deadline' \in {"absent", "future", "passed"}
    BY <1>12 DEF RemoveWrite, ClearRing
  <2>5. HandlersOK' /\ declined' \in [RingIds -> SUBSET Users] /\ overtaken' \in [RingIds -> SUBSET Users]
    BY <1>12, EndKeepsHandlers, DeclinedType DEF RemoveWrite, At
  <2> QED
    BY <1>12, <2>3, <2>4, <2>5 DEF RemoveWrite, HandlersOK
<1>13. ASSUME NEW h \in Handlers, CancelClear(h) PROVE ShapeInv'
  BY <1>13, EndKeepsHandlers, NotifyType DEF CancelClear, ClearRing, HandlersOK
<1>14. ASSUME NEW h \in Handlers, AnswerClear(h) PROVE ShapeInv'
  BY <1>14, EndKeepsHandlers DEF AnswerClear, ClearRing, HandlersOK
<1>15. ASSUME NEW h \in Handlers, CutHandler(h) PROVE ShapeInv'
  BY <1>15 DEF CutHandler, End, IdleHandler
<1>16. ASSUME NEW i \in Instances, SweepScan(i) PROVE ShapeInv'
  BY <1>16 DEF SweepScan
<1>17. ASSUME NEW i \in Instances, SweepClaim(i) PROVE ShapeInv'
  BY <1>17 DEF SweepClaim
<1>18. ASSUME NEW i \in Instances, SweepGet(i) PROVE ShapeInv'
  <2>1. ring # NoRing => ring.id \in 0 .. MaxRings
    BY DEF Rings, RingIds
  <2> QED
    BY <1>18, <2>1 DEF SweepGet
<1>19. ASSUME NEW i \in Instances, SweepDel(i) PROVE ShapeInv'
  <2>1. missed' \in Nat /\ missedCalls' \in [RingIds -> 0 .. CountTo]
    BY <1>19, NotifyType DEF SweepDel
  <2>2. sweeps' \in [Instances -> [pc : SweepPhases, about : 0 .. MaxRings]]
    BY <1>19 DEF SweepDel, IdleSweep
  <2> QED
    BY <1>19, <2>1, <2>2 DEF SweepDel
<1>20. ASSUME NEW i \in Instances, CutSweep(i) PROVE ShapeInv'
  BY <1>20 DEF CutSweep, IdleSweep
<1> QED
  BY <1>1, <1>2, <1>3, <1>4, <1>5, <1>6, <1>7, <1>8, <1>9, <1>10, <1>11, <1>12, <1>13,
     <1>14, <1>15, <1>16, <1>17, <1>18, <1>19, <1>20
     DEF Next, HandlerStep, SweepStep

\* The variables keep their types, whatever is interleaved.
THEOREM RingTypes == Spec => []TypeOK
<1>1. Spec => []ShapeInv
  BY ShapeInit, ShapeStep, PTL DEF Spec
<1>2. ShapeInv => TypeOK
  BY DEF ShapeInv
<1> QED
  BY <1>1, <1>2, PTL

--------------------------------------------------------------------------------
(* What a sweep reports is paid for by a deadline.                          *)

\* The sweeps that removed a deadline and did not report yet.
Holders == {i \in Instances : sweeps[i].pc \in {"get", "del"}}

ClaimCount ==
    missed + Cardinality(Holders) + (IF deadline = "absent" THEN 0 ELSE 1) <= placed

LEMMA HoldersFinite == IsFiniteSet(Holders) /\ Cardinality(Holders) \in Nat
<1>1. IsFiniteSet(Holders)
  BY DmCallsAssumption, FS_Subset DEF Holders
<1> QED
  BY <1>1, FS_CardinalityType

\* A step that holds no new claim and sets no deadline keeps the count.
LEMMA CountKept ==
    ASSUME ShapeInv, ClaimCount, UNCHANGED <<missed, placed>>, Holders' = Holders,
           deadline' = "absent" \/ deadline # "absent"
    PROVE  ClaimCount'
BY HoldersFinite DEF ClaimCount, ShapeInv, TypeOK

LEMMA SameHolders ==
    ASSUME UNCHANGED sweeps
    PROVE  Holders' = Holders
BY DEF Holders

\* A claim that ends, reported or not, is given back.
LEMMA HolderLeaves ==
    ASSUME ShapeInv, NEW i \in Instances, sweeps' = [sweeps EXCEPT ![i] = IdleSweep]
    PROVE  /\ Holders' = Holders \ {i}
           /\ Cardinality(Holders') \in Nat
           /\ Cardinality(Holders') <= Cardinality(Holders)
           /\ i \in Holders => Cardinality(Holders') = Cardinality(Holders) - 1
<1>1. Holders' = Holders \ {i}
  BY DEF Holders, IdleSweep, ShapeInv, TypeOK
<1>2. IsFiniteSet(Holders) /\ Cardinality(Holders) \in Nat
  BY HoldersFinite
<1>3. /\ IsFiniteSet(Holders \ {i})
      /\ Cardinality(Holders \ {i}) =
            IF i \in Holders THEN Cardinality(Holders) - 1 ELSE Cardinality(Holders)
  BY <1>2, FS_RemoveElement
<1>4. Cardinality(Holders \ {i}) \in Nat
  BY <1>3, FS_CardinalityType
<1> QED
  BY <1>1, <1>2, <1>3, <1>4

LEMMA CountStep == ShapeInv /\ ClaimCount /\ [Next]_vars => ClaimCount'
<1> SUFFICES ASSUME ShapeInv, ClaimCount, [Next]_vars PROVE ClaimCount'
  OBVIOUS
<1>1. CASE UNCHANGED vars
  BY <1>1, SameHolders DEF vars, history, ringKeys, ClaimCount
<1>2. CASE DeadlinePasses \/ KeyExpires
  BY <1>2, CountKept, SameHolders DEF DeadlinePasses, KeyExpires, history
<1>3. ASSUME NEW h \in Handlers, NEW u \in Users,
             StartRing(h, u) \/ Decline(h, u) \/ Cancel(h, u) \/ Answer(h, u)
      PROVE ClaimCount'
  BY <1>3, SameHolders DEF StartRing, Decline, Cancel, Answer, history, ringKeys, ClaimCount
<1>4. ASSUME NEW h \in Handlers,
             \/ StartClear(h) \/ DeclineClear(h) \/ CancelClear(h) \/ AnswerClear(h)
      PROVE ClaimCount'
  BY <1>4, CountKept, SameHolders
     DEF StartClear, DeclineClear, CancelClear, AnswerClear, ClearRing, history
<1>5. ASSUME NEW h \in Handlers, StartSet(h) PROVE ClaimCount'
  <2>1. Holders' = Holders /\ missed' = missed /\ placed' = placed + 1
    BY <1>5, SameHolders DEF StartSet
  <2> QED
    BY <1>5, <2>1, HoldersFinite DEF StartSet, ClaimCount, ShapeInv, TypeOK
<1>6. ASSUME NEW h \in Handlers, RemoveGet(h) \/ CutHandler(h) PROVE ClaimCount'
  BY <1>6, SameHolders DEF RemoveGet, CutHandler, history, ringKeys, ClaimCount
<1>7. ASSUME NEW h \in Handlers, RemoveWrite(h) PROVE ClaimCount'
  <2>1. UNCHANGED <<missed, placed, sweeps>>
    BY <1>7 DEF RemoveWrite
  <2>2. deadline' = "absent" \/ deadline' = deadline
    BY <1>7 DEF RemoveWrite, ClearRing
  <2> QED
    BY <2>1, <2>2, CountKept, SameHolders
<1>8. ASSUME NEW i \in Instances, SweepScan(i) \/ SweepGet(i) PROVE ClaimCount'
  <2>1. Holders' = Holders
    BY <1>8 DEF SweepScan, SweepGet, Holders, ShapeInv, TypeOK
  <2> QED
    BY <1>8, <2>1 DEF SweepScan, SweepGet, ringKeys, history, ClaimCount
<1>9. ASSUME NEW i \in Instances, SweepClaim(i) PROVE ClaimCount'
  <2>1. CASE deadline = "absent"
    <3>1. Holders' = Holders
      BY <1>9, <2>1 DEF SweepClaim, Holders, ShapeInv, TypeOK
    <3> QED
      BY <1>9, <2>1, <3>1, CountKept DEF SweepClaim, history
  <2>2. CASE deadline # "absent"
    <3>1. Holders' = Holders \cup {i} /\ i \notin Holders
      BY <1>9, <2>2 DEF SweepClaim, Holders, ShapeInv, TypeOK
    <3>2. Cardinality(Holders') = Cardinality(Holders) + 1
      BY <3>1, HoldersFinite, FS_AddElement
    <3>3. deadline' = "absent" /\ missed' = missed /\ placed' = placed
      BY <1>9 DEF SweepClaim, history
    <3> QED
      BY <2>2, <3>2, <3>3, HoldersFinite DEF ClaimCount, ShapeInv, TypeOK
  <2> QED
    BY <2>1, <2>2
<1>10. ASSUME NEW i \in Instances, SweepDel(i) PROVE ClaimCount'
  <2>1. i \in Holders
    BY <1>10 DEF SweepDel, Holders
  <2>2. missed' = missed \/ missed' = missed + 1
    BY <1>10 DEF SweepDel
  <2>3. UNCHANGED <<deadline, placed>> /\ sweeps' = [sweeps EXCEPT ![i] = IdleSweep]
    BY <1>10 DEF SweepDel
  <2> QED
    <3>1. Cardinality(Holders') \in Nat /\ Cardinality(Holders') = Cardinality(Holders) - 1
      BY <2>1, <2>3, HolderLeaves
    <3>2. missed \in Nat /\ placed \in Nat
      BY DmCallsAssumption DEF ShapeInv, TypeOK
    <3> QED
      BY <2>2, <2>3, <3>1, <3>2, HoldersFinite DEF ClaimCount
<1>11. ASSUME NEW i \in Instances, CutSweep(i) PROVE ClaimCount'
  <2>1. UNCHANGED <<deadline, placed, missed>> /\ sweeps' = [sweeps EXCEPT ![i] = IdleSweep]
    BY <1>11 DEF CutSweep, ringKeys, history
  <2> QED
    <3>1. Cardinality(Holders') \in Nat /\ Cardinality(Holders') <= Cardinality(Holders)
      BY <2>1, HolderLeaves
    <3>2. missed \in Nat /\ placed \in Nat
      BY DmCallsAssumption DEF ShapeInv, TypeOK
    <3> QED
      BY <2>1, <3>1, <3>2, HoldersFinite DEF ClaimCount
<1> QED
  BY <1>1, <1>2, <1>3, <1>4, <1>5, <1>6, <1>7, <1>8, <1>9, <1>10, <1>11
     DEF Next, HandlerStep, SweepStep

\* The instances together never report more missed calls than calls were placed:
\* removing the deadline is a claim that only one sweep gets.
THEOREM MissesClaimed == Spec => []MissesAreClaimed
<1>1. Init => ClaimCount
  <2> SUFFICES ASSUME Init PROVE ClaimCount
    OBVIOUS
  <2>1. Holders = {}
    BY DEF Init, Holders, IdleSweep
  <2> QED
    BY <2>1, FS_EmptySet DEF Init, ClaimCount
<1>2. ShapeInv /\ ClaimCount => MissesAreClaimed
  BY HoldersFinite DEF ClaimCount, MissesAreClaimed, ShapeInv, TypeOK
<1> QED
  BY <1>1, <1>2, ShapeInit, ShapeStep, CountStep, PTL DEF Spec

--------------------------------------------------------------------------------
(* The ring of a 1-1 conversation.                                          *)

LEMMA LeakStep == ShapeInv /\ NoLeakedRing /\ [Next]_vars => NoLeakedRing'
<1> SUFFICES ASSUME ShapeInv, NoLeakedRing, [Next]_vars PROVE NoLeakedRing'
  OBVIOUS
<1> USE DEF NoLeakedRing
<1>1. ASSUME UNCHANGED <<isGroup, ringKeys, sweeps, crashes>> PROVE NoLeakedRing'
  BY <1>1 DEF ringKeys
<1>2. ASSUME ring' = NoRing PROVE NoLeakedRing'
  BY <1>2
<1>3. CASE UNCHANGED vars
  BY <1>1, <1>3 DEF vars
<1>4. CASE DeadlinePasses
  BY <1>4 DEF DeadlinePasses
<1>5. CASE KeyExpires
  BY <1>2, <1>5 DEF KeyExpires
<1>6. ASSUME NEW h \in Handlers, NEW u \in Users,
             StartRing(h, u) \/ Decline(h, u) \/ Cancel(h, u) \/ Answer(h, u)
      PROVE NoLeakedRing'
  BY <1>1, <1>6 DEF StartRing, Decline, Cancel, Answer
<1>7. ASSUME NEW h \in Handlers,
             \/ StartClear(h) \/ DeclineClear(h) \/ CancelClear(h) \/ AnswerClear(h)
      PROVE NoLeakedRing'
  BY <1>2, <1>7 DEF StartClear, DeclineClear, CancelClear, AnswerClear, ClearRing
<1>8. ASSUME NEW h \in Handlers, StartSet(h) PROVE NoLeakedRing'
  BY <1>8 DEF StartSet
<1>9. ASSUME NEW h \in Handlers, RemoveGet(h) PROVE NoLeakedRing'
  BY <1>1, <1>9 DEF RemoveGet
<1>10. ASSUME NEW h \in Handlers, RemoveWrite(h) PROVE NoLeakedRing'
  BY <1>10 DEF RemoveWrite, At, ShapeInv, HandlerShape
<1>11. ASSUME NEW h \in Handlers, CutHandler(h) PROVE NoLeakedRing'
  BY <1>11 DEF CutHandler, ringKeys, ShapeInv, TypeOK
<1>12. ASSUME NEW i \in Instances, SweepScan(i) PROVE NoLeakedRing'
  BY <1>12 DEF SweepScan, ringKeys, ShapeInv, TypeOK
<1>13. ASSUME NEW i \in Instances, SweepClaim(i) PROVE NoLeakedRing'
  BY <1>13 DEF SweepClaim, ShapeInv, TypeOK
<1>14. ASSUME NEW i \in Instances, SweepGet(i) PROVE NoLeakedRing'
  BY <1>14 DEF SweepGet, ringKeys, ShapeInv, TypeOK
<1>15. ASSUME NEW i \in Instances, SweepDel(i) PROVE NoLeakedRing'
  BY <1>2, <1>15 DEF SweepDel
<1>16. ASSUME NEW i \in Instances, CutSweep(i) PROVE NoLeakedRing'
  <2>1. crashes \in Nat /\ crashes' = crashes + 1
    BY <1>16, DmCallsAssumption DEF CutSweep, ShapeInv, TypeOK
  <2> QED
    BY <1>16, <2>1 DEF CutSweep, ringKeys
<1> QED
  BY <1>3, <1>4, <1>5, <1>6, <1>7, <1>8, <1>9, <1>10, <1>11, <1>12, <1>13, <1>14, <1>15, <1>16
     DEF Next, HandlerStep, SweepStep

\* A ring of a 1-1 call always has something that will end it.
THEOREM RingNotLeaked == Spec => []NoLeakedRing
<1>1. Init => NoLeakedRing
  BY DEF Init, NoLeakedRing
<1> QED
  BY <1>1, ShapeInit, ShapeStep, LeakStep, PTL DEF Spec

LEMMA ReturnStep ==
    ShapeInv /\ [Next]_vars =>
        (~isGroup /\ ring' # ring /\ ring' # NoRing => ring'.id > placed)
<1> SUFFICES ASSUME ShapeInv, [Next]_vars, ~isGroup, ring' # ring, ring' # NoRing
             PROVE  ring'.id > placed
  OBVIOUS
<1>1. PICK h \in Handlers : StartSet(h) \/ RemoveWrite(h)
  BY DEF Next, vars, ringKeys, HandlerStep, SweepStep, DeadlinePasses, KeyExpires, StartRing,
     Decline, Cancel, Answer, StartClear, DeclineClear, RemoveGet, CancelClear, AnswerClear,
     CutHandler, SweepScan, SweepClaim, SweepGet, SweepDel, CutSweep, ClearRing
<1>2. StartSet(h)
  BY <1>1 DEF RemoveWrite, At, ShapeInv, HandlerShape
<1>3. placed \in Nat
  BY DmCallsAssumption DEF ShapeInv, TypeOK
<1> QED
  BY <1>2, <1>3 DEF StartSet

\* Once it is over, a 1-1 ring stays over: no handler writes back what it read.
THEOREM RingNeverReturns == Spec => NoReturn
<1>1. Spec => []ShapeInv
  BY ShapeInit, ShapeStep, PTL DEF Spec
<1>2. ShapeInv /\ [Next]_vars =>
          [~isGroup /\ ring' # ring /\ ring' # NoRing => ring'.id > placed]_vars
  BY ReturnStep
<1> QED
  BY <1>1, <1>2, PTL DEF Spec, NoReturn

--------------------------------------------------------------------------------
(* The ring of a group.                                                     *)

\* Nobody has declined a ring that is not placed yet.
Numbered ==
    /\ ring # NoRing => ring.id <= placed
    /\ \A h \in Handlers : /\ handlers[h].about <= placed
                           /\ handlers[h].snap # NoRing => handlers[h].snap.id <= placed
    /\ \A n \in RingIds : n > placed => declined[n] = {}

\* Of those who declined a ring, a decline is about to write back only who was overtaken.
SnapFresh ==
    \A h \in Handlers : handlers[h].pc = "removeWrite" =>
        declined[handlers[h].snap.id] \cap handlers[h].snap.members \subseteq overtaken[handlers[h].snap.id]

DeclineInv == Numbered /\ SnapFresh /\ DeclinerOffRing

LEMMA DeclineInit == Init => DeclineInv
<1> SUFFICES ASSUME Init PROVE DeclineInv
  OBVIOUS
<1>1. SnapFresh /\ DeclinerOffRing
  BY DEF Init, SnapFresh, DeclinerOffRing, IdleHandler
<1>2. Numbered
  BY DEF Init, Numbered, IdleHandler, RingIds
<1> QED
  BY <1>1, <1>2 DEF DeclineInv

\* The steps that neither place a ring nor end a decline of a group: they leave the
\* ring, or end it, and no handler they move comes to hold one.
Quiet ==
    /\ UNCHANGED <<isGroup, placed, declined, overtaken>>
    /\ ring' = ring \/ ring' = NoRing
    /\ \A g \in Handlers :
          \/ handlers'[g] = handlers[g]
          \/ /\ handlers'[g].pc # "removeWrite"
             /\ handlers'[g].snap = NoRing \/ handlers'[g].snap = handlers[g].snap
             /\ \/ handlers'[g].about \in {0, handlers[g].about}
                \/ ring # NoRing /\ handlers'[g].about = ring.id

LEMMA QuietStep ==
    ASSUME ShapeInv, [Next]_vars
    PROVE  Quiet \/ \E h \in Handlers : StartSet(h) \/ RemoveGet(h) \/ RemoveWrite(h)
<1> USE DEF ShapeInv, TypeOK
<1>1. CASE UNCHANGED vars
  BY <1>1 DEF vars, Quiet, history, ringKeys
<1>2. CASE DeadlinePasses \/ KeyExpires
  BY <1>2 DEF DeadlinePasses, KeyExpires, Quiet, history
<1>3. ASSUME NEW h \in Handlers, NEW u \in Users, StartRing(h, u) PROVE Quiet
  BY <1>3 DEF StartRing, Begin, Quiet, history, ringKeys
<1>4. ASSUME NEW h \in Handlers, NEW u \in Users, Decline(h, u) \/ Cancel(h, u) PROVE Quiet
  BY <1>4 DEF Decline, Cancel, Begin, Quiet, history, ringKeys
<1>5. ASSUME NEW h \in Handlers, NEW u \in Users, Answer(h, u) PROVE Quiet
  BY <1>5 DEF Answer, Begin, Quiet, history, ringKeys
<1>6. ASSUME NEW h \in Handlers, StartClear(h) PROVE Quiet
  BY <1>6 DEF StartClear, ClearRing, Quiet, history
<1>7. ASSUME NEW h \in Handlers, DeclineClear(h) \/ CancelClear(h) \/ AnswerClear(h) PROVE Quiet
  BY <1>7 DEF DeclineClear, CancelClear, AnswerClear, ClearRing, End, IdleHandler, Quiet, history
<1>8. ASSUME NEW h \in Handlers, CutHandler(h) PROVE Quiet
  BY <1>8 DEF CutHandler, End, IdleHandler, Quiet, history, ringKeys
<1>9. ASSUME NEW i \in Instances, SweepStep(i) \/ CutSweep(i) PROVE Quiet
  BY <1>9 DEF SweepStep, SweepScan, SweepClaim, SweepGet, SweepDel, CutSweep, Quiet, history,
              ringKeys
<1> QED
  BY <1>1, <1>2, <1>3, <1>4, <1>5, <1>6, <1>7, <1>8, <1>9 DEF Next, HandlerStep

LEMMA QuietKeeps == ASSUME ShapeInv, DeclineInv, Quiet PROVE DeclineInv'
<1> USE DEF DeclineInv, Quiet
<1>1. Numbered'
  <2>1. placed \in Nat
    BY DmCallsAssumption DEF ShapeInv, TypeOK
  <2>2. ASSUME NEW g \in Handlers
        PROVE  handlers'[g].about <= placed /\
               (handlers'[g].snap # NoRing => handlers'[g].snap.id <= placed)
    BY <2>1, <2>2 DEF Numbered
  <2> QED
    BY <2>2 DEF Numbered
<1>2. SnapFresh' /\ DeclinerOffRing'
  BY DEF SnapFresh, DeclinerOffRing
<1> QED
  BY <1>1, <1>2

\* A new ring has a number nobody has declined.
LEMMA PlacingKeeps ==
    ASSUME ShapeInv, DeclineInv, NEW h \in Handlers, StartSet(h)
    PROVE  DeclineInv'
<1>1. /\ placed \in Nat /\ placed + 1 \in RingIds
      /\ UNCHANGED <<isGroup, declined, overtaken>> /\ placed' = placed + 1 /\ ring'.id = placed + 1
      /\ handlers' = [handlers EXCEPT ![h] = IdleHandler]
  BY DmCallsAssumption DEF StartSet, End, ShapeInv, TypeOK, RingIds
<1>2. \A g \in Handlers : handlers'[g] = handlers[g] \/ handlers'[g] = IdleHandler
  BY <1>1 DEF ShapeInv, TypeOK
<1>3. SnapFresh'
  BY <1>1, <1>2 DEF DeclineInv, SnapFresh, IdleHandler
<1>4. \A n \in RingIds : n > placed + 1 => n > placed
  BY <1>1 DEF RingIds
<1>5. \A g \in Handlers : /\ handlers'[g].about <= placed + 1
                          /\ handlers'[g].snap # NoRing => handlers'[g].snap.id <= placed + 1
  <2> TAKE g \in Handlers
  <2>1. CASE handlers'[g] = IdleHandler
    BY <1>1, <2>1 DEF IdleHandler
  <2>2. CASE handlers'[g] = handlers[g]
    <3>1. handlers[g].about \in Nat /\ handlers[g].about <= placed
      BY DEF DeclineInv, Numbered, ShapeInv, TypeOK
    <3>2. handlers[g].snap # NoRing => handlers[g].snap.id \in Nat /\ handlers[g].snap.id <= placed
      BY DEF DeclineInv, Numbered, ShapeInv, TypeOK, Rings, RingIds
    <3> QED
      BY <1>1, <2>2, <3>1, <3>2
  <2> QED
    BY <1>2, <2>1, <2>2
<1>6. Numbered'
  BY <1>1, <1>4, <1>5 DEF DeclineInv, Numbered
<1>7. DeclinerOffRing'
  <2>1. placed + 1 > placed
    BY <1>1
  <2> QED
    BY <1>1, <2>1 DEF DeclineInv, Numbered, DeclinerOffRing
<1> QED
  BY <1>3, <1>6, <1>7 DEF DeclineInv

\* A decline that ends is told apart by every other that is about to write its user back.
LEMMA DeclineEnds ==
    ASSUME ShapeInv, DeclineInv, NEW h \in Handlers,
           handlers' = [handlers EXCEPT ![h] = IdleHandler], Declined(h),
           UNCHANGED placed
    PROVE  /\ SnapFresh'
           /\ \A n \in RingIds : /\ declined'[n] \subseteq declined[n] \cup {handlers[h].user}
                                 /\ overtaken[n] \subseteq overtaken'[n]
           /\ (ring' # NoRing => ring'.id <= placed) => Numbered'
<1> DEFINE n == handlers[h].about
           u == handlers[h].user
<1>1. \A g \in Handlers : handlers'[g] = IF g = h THEN IdleHandler ELSE handlers[g]
  BY DEF ShapeInv, TypeOK
<1>2. declined' = [declined EXCEPT ![n] = @ \cup {u}]
  BY DEF Declined
<1>3. /\ \A k \in RingIds : /\ declined'[k] = IF k = n THEN declined[k] \cup {u} ELSE declined[k]
                            /\ overtaken[k] \subseteq overtaken'[k]
      /\ n \in RingIds /\ Restoring(n, u) \ {h} # {} => u \in overtaken'[n]
  BY <1>2 DEF Declined, ShapeInv, TypeOK
<1>4. SnapFresh'
  <2>1. SUFFICES ASSUME NEW g \in Handlers, handlers'[g].pc = "removeWrite"
                 PROVE  declined'[handlers'[g].snap.id] \cap handlers'[g].snap.members
                           \subseteq overtaken'[handlers'[g].snap.id]
    BY DEF SnapFresh
  <2>2. g # h /\ handlers'[g] = handlers[g]
    BY <1>1, <2>1 DEF IdleHandler
  <2>3. handlers[g].snap \in Rings /\ handlers[g].snap.id \in RingIds
    BY <2>1, <2>2 DEF ShapeInv, TypeOK, Rings
  <2>4. declined[handlers[g].snap.id] \cap handlers[g].snap.members \subseteq overtaken[handlers[g].snap.id]
    BY <2>1, <2>2 DEF DeclineInv, SnapFresh
  <2>5. CASE handlers[g].snap.id = n /\ u \in handlers[g].snap.members
    <3>1. g \in Restoring(n, u) \ {h}
      BY <2>1, <2>2, <2>5 DEF Restoring, Handling
    <3>2. u \in overtaken'[n]
      BY <1>3, <2>3, <2>5, <3>1
    <3>3. declined'[n] = declined[n] \cup {u} /\ overtaken[n] \subseteq overtaken'[n]
      BY <1>3, <2>3, <2>5
    <3>4. declined[n] \cap handlers[g].snap.members \subseteq overtaken[n]
      BY <2>4, <2>5
    <3>5. declined'[n] \cap handlers[g].snap.members \subseteq overtaken'[n]
      BY <3>2, <3>3, <3>4
    <3>6. handlers'[g].snap.id = n /\ handlers'[g].snap.members = handlers[g].snap.members
      BY <2>2, <2>5
    <3> QED
      BY <3>5, <3>6
  <2>6. CASE ~(handlers[g].snap.id = n /\ u \in handlers[g].snap.members)
    <3> DEFINE k == handlers[g].snap.id
    <3>1. /\ declined'[k] = IF k = n THEN declined[k] \cup {u} ELSE declined[k]
          /\ overtaken[k] \subseteq overtaken'[k]
      BY <1>3, <2>3
    <3>2. declined[k] \cap handlers[g].snap.members \subseteq overtaken[k]
      BY <2>4
    <3>3. k = n => u \notin handlers[g].snap.members
      BY <2>6
    <3>4. declined'[k] \cap handlers[g].snap.members \subseteq overtaken'[k]
      BY <3>1, <3>2, <3>3
    <3>5. handlers'[g].snap.id = k /\ handlers'[g].snap.members = handlers[g].snap.members
      BY <2>2
    <3> QED
      BY <3>4, <3>5
  <2> QED
    BY <2>5, <2>6
<1>5. (ring' # NoRing => ring'.id <= placed) => Numbered'
  <2>1. placed \in Nat /\ n <= placed
    BY DmCallsAssumption DEF ShapeInv, TypeOK, DeclineInv, Numbered
  <2>2. \A k \in RingIds : k > placed => k # n
    BY <2>1 DEF RingIds
  <2>3. \A k \in RingIds : k > placed => declined'[k] = {}
    BY <1>3, <2>2 DEF DeclineInv, Numbered
  <2> QED
    BY <1>1, <2>1, <2>3 DEF DeclineInv, Numbered, IdleHandler
<1> QED
  BY <1>3, <1>4, <1>5

LEMMA RemoveGetKeeps ==
    ASSUME ShapeInv, DeclineInv, NEW h \in Handlers, RemoveGet(h)
    PROVE  DeclineInv'
<1>1. UNCHANGED <<isGroup, placed, ring>> /\ isGroup
  BY DEF RemoveGet, At, ringKeys, ShapeInv, HandlerShape
<1>2. CASE ring = NoRing
  <2>1. Declined(h) /\ handlers' = [handlers EXCEPT ![h] = IdleHandler]
    BY <1>2 DEF RemoveGet, End
  <2> QED
    BY <1>1, <1>2, <2>1, DeclineEnds DEF DeclineInv, DeclinerOffRing
<1>3. CASE ring # NoRing
  <2>1. /\ handlers' = [handlers EXCEPT ![h].snap = ring, ![h].pc = "removeWrite"]
        /\ UNCHANGED <<declined, overtaken>>
    BY <1>3 DEF RemoveGet
  <2>2. /\ \A g \in Handlers : g # h => handlers'[g] = handlers[g]
        /\ handlers'[h].snap = ring /\ handlers'[h].about = handlers[h].about
    BY <2>1 DEF ShapeInv, TypeOK
  <2>3. Numbered'
    BY <1>1, <1>3, <2>1, <2>2 DEF DeclineInv, Numbered
  <2>4. SnapFresh' /\ DeclinerOffRing'
    BY <1>1, <1>3, <2>1, <2>2 DEF DeclineInv, SnapFresh, DeclinerOffRing
  <2> QED
    BY <2>3, <2>4 DEF DeclineInv
<1> QED
  BY <1>2, <1>3

\* What is written back has no decliner on it but the overtaken, as it had when it was read.
LEMMA RemoveWriteKeeps ==
    ASSUME ShapeInv, DeclineInv, NEW h \in Handlers, RemoveWrite(h)
    PROVE  DeclineInv'
<1> DEFINE snap == handlers[h].snap
           left == snap.members \ {handlers[h].user}
<1>1. /\ Declined(h) /\ handlers' = [handlers EXCEPT ![h] = IdleHandler]
      /\ UNCHANGED <<isGroup, placed>>
      /\ handlers[h].pc = "removeWrite" /\ snap \in Rings /\ snap.id \in RingIds
  BY DEF RemoveWrite, At, End, ShapeInv, TypeOK, Rings
<1>2. /\ SnapFresh'
      /\ declined'[snap.id] \subseteq declined[snap.id] \cup {handlers[h].user}
      /\ overtaken[snap.id] \subseteq overtaken'[snap.id]
      /\ (ring' # NoRing => ring'.id <= placed) => Numbered'
  BY <1>1, DeclineEnds
<1>3. CASE left = {}
  BY <1>2, <1>3 DEF RemoveWrite, ClearRing, DeclineInv, DeclinerOffRing
<1>4. CASE left # {}
  <2>1. ring' = [snap EXCEPT !.members = left]
    BY <1>4 DEF RemoveWrite
  <2>2. ring'.id = snap.id /\ ring'.members = left
    BY <1>1, <2>1 DEF Rings
  <2>3. declined[snap.id] \cap snap.members \subseteq overtaken[snap.id]
    BY <1>1 DEF DeclineInv, SnapFresh
  <2>4. DeclinerOffRing'
    BY <1>2, <2>2, <2>3 DEF DeclinerOffRing
  <2>5. snap.id <= placed
    BY <1>1 DEF DeclineInv, Numbered, ShapeInv, TypeOK
  <2> QED
    BY <1>2, <2>2, <2>4, <2>5 DEF DeclineInv
<1> QED
  BY <1>3, <1>4

LEMMA DeclineStep == ShapeInv /\ DeclineInv /\ [Next]_vars => DeclineInv'
BY QuietStep, QuietKeeps, PlacingKeeps, RemoveGetKeeps, RemoveWriteKeeps

\* Who declined a group call is not rung again and is not counted as having missed it,
\* however many declines run at once, unless they finished between the read and the
\* write of another's.
THEOREM DeclinerStaysOff == Spec => []DeclinerOffRing
<1>1. DeclineInv => DeclinerOffRing
  BY DEF DeclineInv
<1> QED
  BY <1>1, ShapeInit, ShapeStep, DeclineInit, DeclineStep, PTL DEF Spec
================================================================================
