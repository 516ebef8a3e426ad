------------------------ MODULE CaptureHistoryProofs ------------------------
(* Theorems about CaptureHistory: for any number of sessions on a path,    *)
(* any initial capacity and any limit.                                     *)
EXTENDS CaptureHistory, TLAPS

USE HistoryAssumption

(* Doubling, cut off at the limit, makes room within the limit.            *)
LEMMA GrownBounds ==
  ASSUME NEW s \in Sessions, capacity[s] \in 1 .. MaxEvents
  PROVE  /\ Grown(s) \in capacity[s] .. MaxEvents
         /\ capacity[s] < MaxEvents => capacity[s] < Grown(s)
BY DEF Grown

(* Every step keeps the types.                                             *)
LEMMA TypeStep ==
  ASSUME IndInv, Next
  PROVE  TypeOK'
<1> USE DEF IndInv, Goto, dataVars, dirVars
<1> SUFFICES ASSUME NEW s \in Sessions, Step(s)
    PROVE  TypeOK'
  BY DEF Next
<1>1. CASE Stat(s)
  <2>1. mode \cup {"owner"} \in Modes
    BY DEF TypeOK, Modes
  <2>2. restore' \in [Sessions -> Modes]
    BY <1>1, <2>1 DEF Stat, TypeOK
  <2> QED
    BY <1>1, <2>2 DEF Stat, TypeOK
<1>2. CASE Raise(s)
  BY <1>2 DEF Raise, TypeOK, CountersSound, Keeping
<1>3. CASE Open(s)
  <2>1. file' \in Files
    BY <1>3 DEF Open, TypeOK, Files, NoHeader, Empty
  <2> QED
    BY <1>3, <2>1 DEF Open, TypeOK
<1>4. CASE SetLen(s)
  <2>1. Initial \in 0 .. MaxEvents
    OBVIOUS
  <2>2. Resized(Initial) \in Files
    <3>1. file.header \in [made : BOOLEAN, count : 0 .. MaxEvents,
                           capacity : 0 .. MaxEvents]
      BY DEF TypeOK, Files
    <3>2. [i \in Slots |-> IF i < Initial THEN file.slot[i] ELSE Hole]
            \in [Slots -> Events \cup {Hole}]
      BY DEF TypeOK, Files
    <3> QED
      BY <2>1, <3>1, <3>2 DEF Files, Resized, TypeOK
  <2> QED
    BY <1>4, <2>1, <2>2 DEF SetLen, TypeOK
<1>5. CASE MakeHeader(s)
  <2>1. [made |-> TRUE, count |-> 0, capacity |-> Initial]
          \in [made : BOOLEAN, count : 0 .. MaxEvents, capacity : 0 .. MaxEvents]
    OBVIOUS
  <2>2. file' \in Files
    BY <1>5, <2>1 DEF MakeHeader, TypeOK, Files
  <2> QED
    BY <1>5, <2>2 DEF MakeHeader, TypeOK
<1>6. CASE Lock(s)
  <2>1. {} \in Modes
    BY DEF Modes
  <2> QED
    BY <1>6, <2>1 DEF Lock, TypeOK
<1>7. CASE CreateFails(s)
  BY <1>7 DEF CreateFails, TypeOK, CountersSound, Keeping
<1>8. CASE HasRoom(s)
  BY <1>8 DEF HasRoom, TypeOK, CountersSound, Keeping
<1>9. CASE Refuse(s)
  BY <1>9 DEF Refuse, TypeOK, CountersSound, Keeping
<1>10. CASE GrowFile(s)
  <2>1. Grown(s) \in 0 .. MaxEvents
    BY <1>10, GrownBounds DEF GrowFile, TypeOK, CountersSound, Keeping
  <2>2. file' \in Files
    BY <1>10, <2>1 DEF GrowFile, TypeOK, Files, Resized
  <2> QED
    BY <1>10, <2>2 DEF GrowFile, TypeOK
<1>11. CASE GrowMap(s)
  <2>1. Grown(s) \in 0 .. MaxEvents
    BY <1>11, GrownBounds DEF GrowMap, TypeOK, CountersSound, Keeping
  <2>2. file' \in Files
    BY <1>11, <2>1 DEF GrowMap, TypeOK, Files
  <2> QED
    BY <1>11, <2>1, <2>2 DEF GrowMap, TypeOK
<1>12. CASE GrowFails(s)
  BY <1>12 DEF GrowFails, TypeOK, CountersSound, Keeping
<1>13. CASE \E e \in Events : Accept(s, e)
  <2>1. PICK e \in Events : Accept(s, e)
    BY <1>13
  <2>2. file' \in Files
    BY <2>1 DEF Accept, Fill, TypeOK, Files
  <2> QED
    BY <2>1, <2>2 DEF Accept, Fill, TypeOK
<1>14. CASE \E e \in Events : Skip(s, e)
  <2>1. PICK e \in Events : Skip(s, e)
    BY <1>14
  <2>2. file' \in Files
    BY <2>1 DEF Skip, Fill, TypeOK, Files
  <2> QED
    BY <2>1, <2>2 DEF Skip, Fill, TypeOK
<1>15. CASE Nothing(s)
  BY <1>15 DEF Nothing, TypeOK, CountersSound, Keeping
<1>16. CASE Commit(s)
  BY <1>16 DEF Commit, TypeOK, CountersSound, Keeping
<1>17. CASE Publish(s)
  <2>1. file' \in Files
    BY <1>17 DEF Publish, TypeOK, Files
  <2> QED
    BY <1>17, <2>1 DEF Publish, TypeOK
<1>18. CASE Clear(s)
  BY <1>18 DEF Clear, TypeOK, CountersSound, Keeping
<1>19. CASE End(s)
  <2>1. restore[s] \in Modes
    BY DEF TypeOK
  <2>2. mode' \in Modes
    BY <1>19, <2>1 DEF End, TypeOK
  <2>3. locked' \in [Sessions -> BOOLEAN]
    BY <1>19 DEF End, TypeOK
  <2>4. orphaned' \in BOOLEAN
    BY <1>19 DEF End, TypeOK
  <2> QED
    BY <1>19, <2>2, <2>3, <2>4 DEF End, TypeOK
<1>20. CASE Kill(s)
  BY <1>20 DEF Kill, TypeOK, CountersSound, Keeping
<1> QED
  BY <1>1, <1>2, <1>3, <1>4, <1>5, <1>6, <1>7, <1>8, <1>9, <1>10, <1>11, <1>12,
     <1>13, <1>14, <1>15, <1>16, <1>17, <1>18, <1>19, <1>20
     DEF Step

(* Every step keeps the counters of every session sound.                  *)
LEMMA CountersStep ==
  ASSUME IndInv, Next
  PROVE  CountersSound'
<1> USE DEF IndInv, Goto, dataVars, dirVars
<1> SUFFICES ASSUME NEW s \in Sessions, Step(s)
    PROVE  CountersSound'
  BY DEF Next
<1>1. CASE Stat(s)
  BY <1>1 DEF Stat, TypeOK, CountersSound, Keeping
<1>2. CASE Raise(s)
  BY <1>2 DEF Raise, TypeOK, CountersSound, Keeping
<1>3. CASE Open(s)
  BY <1>3 DEF Open, TypeOK, CountersSound, Keeping
<1>4. CASE SetLen(s)
  BY <1>4 DEF SetLen, TypeOK, CountersSound, Keeping
<1>5. CASE MakeHeader(s)
  BY <1>5 DEF MakeHeader, TypeOK, CountersSound, Keeping
<1>6. CASE Lock(s)
  BY <1>6 DEF Lock, TypeOK, CountersSound, Keeping
<1>7. CASE CreateFails(s)
  BY <1>7 DEF CreateFails, TypeOK, CountersSound, Keeping
<1>8. CASE HasRoom(s)
  BY <1>8 DEF HasRoom, TypeOK, CountersSound, Keeping
<1>9. CASE Refuse(s)
  BY <1>9 DEF Refuse, TypeOK, CountersSound, Keeping
<1>10. CASE GrowFile(s)
  BY <1>10 DEF GrowFile, TypeOK, CountersSound, Keeping
<1>11. CASE GrowMap(s)
  BY <1>11, GrownBounds DEF GrowMap, TypeOK, CountersSound, Keeping
<1>12. CASE GrowFails(s)
  BY <1>12 DEF GrowFails, TypeOK, CountersSound, Keeping
<1>13. CASE \E e \in Events : Accept(s, e)
  BY <1>13 DEF Accept, TypeOK, CountersSound, Keeping, Fill, Reachable
<1>14. CASE \E e \in Events : Skip(s, e)
  BY <1>14 DEF Skip, TypeOK, CountersSound, Keeping, Fill, Reachable
<1>15. CASE Nothing(s)
  BY <1>15 DEF Nothing, TypeOK, CountersSound, Keeping
<1>16. CASE Commit(s)
  BY <1>16 DEF Commit, TypeOK, CountersSound, Keeping
<1>17. CASE Publish(s)
  BY <1>17 DEF Publish, TypeOK, CountersSound, Keeping
<1>18. CASE Clear(s)
  BY <1>18 DEF Clear, TypeOK, CountersSound, Keeping
<1>19. CASE End(s)
  BY <1>19 DEF End, TypeOK, CountersSound, Keeping
<1>20. CASE Kill(s)
  BY <1>20 DEF Kill, TypeOK, CountersSound, Keeping
<1> QED
  BY <1>1, <1>2, <1>3, <1>4, <1>5, <1>6, <1>7, <1>8, <1>9, <1>10, <1>11, <1>12,
     <1>13, <1>14, <1>15, <1>16, <1>17, <1>18, <1>19, <1>20
     DEF Step

(* Every step keeps what is known of the directory.                       *)
LEMMA DirectoryStep ==
  ASSUME IndInv, Next
  PROVE  DirectorySound'
<1> USE DEF IndInv, Goto, dataVars, dirVars
<1> SUFFICES ASSUME NEW s \in Sessions, Step(s)
    PROVE  DirectorySound'
  BY DEF Next
<1>1. CASE Stat(s)
  BY <1>1 DEF Stat, TypeOK, DirectorySound, DirectoryIsGivenBack, Modes
<1>2. CASE Raise(s)
  BY <1>2 DEF Raise, TypeOK, DirectorySound, DirectoryIsGivenBack, Modes
<1>3. CASE Open(s)
  BY <1>3 DEF Open, TypeOK, DirectorySound, DirectoryIsGivenBack, Modes
<1>4. CASE SetLen(s)
  BY <1>4 DEF SetLen, TypeOK, DirectorySound, DirectoryIsGivenBack, Modes
<1>5. CASE MakeHeader(s)
  BY <1>5 DEF MakeHeader, TypeOK, DirectorySound, DirectoryIsGivenBack, Modes
<1>6. CASE Lock(s)
  BY <1>6 DEF Lock, TypeOK, DirectorySound, DirectoryIsGivenBack, Modes
<1>7. CASE CreateFails(s)
  BY <1>7 DEF CreateFails, TypeOK, DirectorySound, DirectoryIsGivenBack, Modes
<1>8. CASE HasRoom(s)
  BY <1>8 DEF HasRoom, TypeOK, DirectorySound, DirectoryIsGivenBack, Modes
<1>9. CASE Refuse(s)
  BY <1>9 DEF Refuse, TypeOK, DirectorySound, DirectoryIsGivenBack, Modes
<1>10. CASE GrowFile(s)
  BY <1>10 DEF GrowFile, TypeOK, DirectorySound, DirectoryIsGivenBack, Modes
<1>11. CASE GrowMap(s)
  BY <1>11 DEF GrowMap, TypeOK, DirectorySound, DirectoryIsGivenBack, Modes
<1>12. CASE GrowFails(s)
  BY <1>12 DEF GrowFails, TypeOK, DirectorySound, DirectoryIsGivenBack, Modes
<1>13. CASE \E e \in Events : Accept(s, e)
  BY <1>13
     DEF Accept, TypeOK, DirectorySound, DirectoryIsGivenBack, Modes, Fill,
         Reachable
<1>14. CASE \E e \in Events : Skip(s, e)
  BY <1>14
     DEF Skip, TypeOK, DirectorySound, DirectoryIsGivenBack, Modes, Fill,
         Reachable
<1>15. CASE Nothing(s)
  BY <1>15 DEF Nothing, TypeOK, DirectorySound, DirectoryIsGivenBack, Modes
<1>16. CASE Commit(s)
  BY <1>16 DEF Commit, TypeOK, DirectorySound, DirectoryIsGivenBack, Modes
<1>17. CASE Publish(s)
  BY <1>17 DEF Publish, TypeOK, DirectorySound, DirectoryIsGivenBack, Modes
<1>18. CASE Clear(s)
  BY <1>18 DEF Clear, TypeOK, DirectorySound, DirectoryIsGivenBack, Modes
<1>19. CASE End(s)
  BY <1>19 DEF End, TypeOK, DirectorySound, DirectoryIsGivenBack, Modes
<1>20. CASE Kill(s)
  BY <1>20, SMTT(30) DEF Kill, TypeOK, DirectorySound, DirectoryIsGivenBack, Modes
<1> QED
  BY <1>1, <1>2, <1>3, <1>4, <1>5, <1>6, <1>7, <1>8, <1>9, <1>10, <1>11, <1>12,
     <1>13, <1>14, <1>15, <1>16, <1>17, <1>18, <1>19, <1>20
     DEF Step

(* Every step keeps the file of a session that has it to itself sound.     *)
LEMMA FileStep ==
  ASSUME IndInv, Next
  PROVE  FileSound'
<1> USE DEF IndInv, Goto, dataVars, dirVars
<1> SUFFICES ASSUME NEW s \in Sessions, Step(s)
    PROVE  FileSound'
  BY DEF Next
<1> SUFFICES ASSUME ~mixed'
    PROVE  FileSound'
  BY DEF FileSound
<1> USE CountersStep DEF TypeOK, CountersSound, Keeping, Opened, Files, Slots,
                         FileSound, FileAgrees, LeftoversReadable, Grown
<1>1. CASE Stat(s)
  <2>1. pc[s] = "none" /\ UNCHANGED dataVars
    BY <1>1 DEF Stat
  <2>2. pc' = [pc EXCEPT ![s] = pc'[s]] /\ pc'[s] \in {"prepared", "raise"}
    BY <1>1 DEF Stat
  <2>3. Keeping' = Keeping /\ Opened' = Opened /\ s \notin Keeping
    BY <2>1, <2>2
  <2>4. \A k \in Keeping : pc'[k] = pc[k]
    BY <2>2, <2>3
  <2>5. \A k \in Keeping : FileAgrees(k)'
    BY <2>1, <2>3, <2>4
  <2> QED
    BY <2>1, <2>3, <2>5
<1>2. CASE Raise(s)
  BY <1>2 DEF Raise
<1>3. CASE Open(s)
  <2>1. Keeping = {} /\ Opened = {} /\ pc' = [pc EXCEPT ![s] = "opened"]
    BY <1>3, ZenonT(60) DEF Open
  <2>2. Keeping' = {} /\ Opened' = {s}
    BY <2>1
  <2>3. ~file'.header.made
    BY <1>3 DEF Open, NoHeader
  <2> QED
    BY <2>2, <2>3
<1>4. CASE SetLen(s)
  BY <1>4 DEF SetLen, Resized
<1>5. CASE MakeHeader(s)
  BY <1>5 DEF MakeHeader
<1>6. CASE Lock(s)
  <2>1. pc[s] = "made" /\ UNCHANGED dataVars
    BY <1>6 DEF Lock
  <2>2. pc' = [pc EXCEPT ![s] = "idle"]
    BY <1>6 DEF Lock
  <2>3. file.header.count = count[s]
    BY <2>1
  <2> QED
    BY <2>1, <2>2, <2>3
<1>7. CASE CreateFails(s)
  BY <1>7 DEF CreateFails
<1>8. CASE HasRoom(s)
  BY <1>8 DEF HasRoom
<1>9. CASE Refuse(s)
  BY <1>9 DEF Refuse
<1>10. CASE GrowFile(s)
  BY <1>10, SMTT(30) DEF GrowFile, Resized
<1>11. CASE GrowMap(s)
  <2>1. pc[s] = "grown" /\ ~mixed
    BY <1>11 DEF GrowMap
  <2>2. Keeping' = Keeping /\ Opened' = Opened /\ Keeping = {s} /\ Opened = {}
    BY <1>11, <2>1 DEF GrowMap
  <2>3. FileAgrees(s) /\ LeftoversReadable /\ file.header.made
    BY <2>1, <2>2
  <2>4. /\ file'.len = file.len /\ file'.slot = file.slot
        /\ file'.header.made /\ file'.header.count = count[s]
        /\ file'.header.capacity = Grown(s)
    BY <1>11, <2>3 DEF GrowMap
  <2>5. capacity'[s] = Grown(s) /\ count' = count /\ pc'[s] = "slot"
    BY <1>11 DEF GrowMap
  <2>6. Grown(s) \in capacity[s] .. MaxEvents
    BY <2>1, GrownBounds
  <2>7. FileAgrees(s)'
    BY <2>1, <2>3, <2>4, <2>5, <2>6
  <2>8. LeftoversReadable'
    BY <2>1, <2>3, <2>4, <2>6
  <2> QED
    BY <2>2, <2>7, <2>8
<1>12. CASE GrowFails(s)
  BY <1>12 DEF GrowFails
<1>13. CASE \E e \in Events : Accept(s, e)
  BY <1>13 DEF Accept, Fill, Reachable
<1>14. CASE \E e \in Events : Skip(s, e)
  BY <1>14 DEF Skip, Fill, Reachable
<1>15. CASE Nothing(s)
  BY <1>15 DEF Nothing
<1>16. CASE Commit(s)
  BY <1>16 DEF Commit
<1>17. CASE Publish(s)
  <2>1. pc[s] = "publish" /\ ~mixed
    BY <1>17 DEF Publish
  <2>2. Keeping' = Keeping /\ Opened' = Opened /\ Keeping = {s} /\ Opened = {}
    BY <1>17, <2>1 DEF Publish
  <2>3. FileAgrees(s) /\ LeftoversReadable /\ file.header.made
    BY <2>1, <2>2
  <2>4. /\ file'.len = file.len /\ file'.slot = file.slot
        /\ file'.header.made /\ file'.header.count = count[s]
        /\ file'.header.capacity = file.header.capacity
    BY <1>17, <2>3 DEF Publish
  <2>5. capacity' = capacity /\ count' = count /\ pc'[s] = "idle"
    BY <1>17 DEF Publish
  <2>6. count[s] <= capacity[s] /\ file.header.capacity = capacity[s]
    BY <2>1
  <2>7. FileAgrees(s)'
    BY <2>1, <2>3, <2>4, <2>5, <2>6
  <2>8. LeftoversReadable'
    BY <2>1, <2>3, <2>4, <2>6
  <2> QED
    BY <2>2, <2>7, <2>8
<1>18. CASE Clear(s)
  BY <1>18 DEF Clear
<1>19. CASE End(s)
  BY <1>19 DEF End
<1>20. CASE Kill(s)
  BY <1>20 DEF Kill
<1> QED
  BY <1>1, <1>2, <1>3, <1>4, <1>5, <1>6, <1>7, <1>8, <1>9, <1>10, <1>11, <1>12,
     <1>13, <1>14, <1>15, <1>16, <1>17, <1>18, <1>19, <1>20
     DEF Step

(* The invariant holds before the first session.                           *)
LEMMA InitInv == Init => IndInv
<1> SUFFICES ASSUME Init PROVE IndInv
  OBVIOUS
<1>1. file \in Files
  BY DEF Init, Files, NoHeader, Empty
<1>2. mode \in Modes /\ {} \in Modes
  BY DEF Init, Modes
<1>3. TypeOK
  <2>1. pc \in [Sessions -> {"none", "raise", "prepared", "opened", "sized",
                            "made", "idle", "grown", "slot", "filled",
                            "publish"}]
    BY DEF Init
  <2>2. /\ count \in [Sessions -> 0 .. MaxEvents]
        /\ capacity \in [Sessions -> 0 .. MaxEvents]
    BY DEF Init
  <2>3. restore \in [Sessions -> Modes]
    BY <1>2 DEF Init
  <2>4. /\ refused \in [Sessions -> BOOLEAN] /\ locked \in [Sessions -> BOOLEAN]
        /\ mixed \in BOOLEAN /\ orphaned \in BOOLEAN
    BY DEF Init
  <2> QED
    BY <1>1, <1>2, <2>1, <2>2, <2>3, <2>4 DEF TypeOK
<1>4. CountersSound
  BY DEF Init, CountersSound, Keeping
<1>5. DirectorySound
  BY DEF Init, DirectorySound, DirectoryIsGivenBack
<1>6. FileSound
  BY DEF Init, FileSound, LeftoversReadable, NoHeader, Keeping, Opened
<1> QED
  BY <1>3, <1>4, <1>5, <1>6 DEF IndInv

(* Every step keeps the invariant.                                         *)
LEMMA NextInv == IndInv /\ [Next]_vars => IndInv'
<1> SUFFICES ASSUME IndInv, [Next]_vars PROVE IndInv'
  OBVIOUS
<1>1. CASE Next
  BY <1>1, TypeStep, CountersStep, DirectoryStep, FileStep DEF IndInv
<1>2. CASE UNCHANGED vars
  BY <1>2 DEF IndInv, TypeOK, CountersSound, DirectorySound,
              DirectoryIsGivenBack, FileSound, FileAgrees, LeftoversReadable,
              Keeping, Opened, Grown, vars, dataVars, dirVars
<1> QED
  BY <1>1, <1>2

(* The invariant holds in every state of every behaviour.                  *)
THEOREM Invariant == Spec => []IndInv
<1> QED
  BY InitInv, NextInv, PTL DEF Spec

(* The counters and the file stay within the limit: max_event_capacity.    *)
THEOREM TypeCorrect == Spec => []TypeOK
<1>1. IndInv => TypeOK
  BY DEF IndInv
<1> QED
  BY Invariant, <1>1, PTL

(* What a killed program leaves can be read: the order of event, count and *)
(* header in append_event, commit_event and ensure_capacity.               *)
THEOREM Leftovers == Spec => []LeftoversReadable
<1>1. IndInv => LeftoversReadable
  BY DEF IndInv, FileSound, LeftoversReadable
<1> QED
  BY Invariant, <1>1, PTL

(* A session alone never touches the mapping beyond the file's end, growing *)
(* that failed half way included: event_slot_mut and header_mut.           *)
THEOREM StaysInside == Spec => []StaysInsideTheFile
<1>1. IndInv => StaysInsideTheFile
  <2> SUFFICES ASSUME IndInv, ~mixed, NEW s \in Sessions
      PROVE  /\ pc[s] \in {"sized", "grown", "publish"} => file.len > 0
             /\ pc[s] = "slot" => Reachable(s)
             /\ pc[s] = "idle" => count[s] <= file.len
    BY DEF StaysInsideTheFile
  <2>1. s \in Keeping => capacity[s] <= file.len
    BY DEF IndInv, FileSound, FileAgrees
  <2>2. file.len \in Nat /\ count[s] \in Nat /\ capacity[s] \in Nat
    BY DEF IndInv, TypeOK, Files
  <2> QED
    BY <2>1, <2>2 DEF IndInv, CountersSound, Keeping, Reachable
<1> QED
  BY Invariant, <1>1, PTL

(* CapacityLimit means the limit is reached: ensure_capacity.              *)
THEOREM Refuses == Spec => []RefusesOnlyWhenFull
<1>1. IndInv => RefusesOnlyWhenFull
  BY DEF IndInv, CountersSound, RefusesOnlyWhenFull
<1> QED
  BY Invariant, <1>1, PTL

(* The directory is its owner's again when nobody holds it: prepare, lock  *)
(* and drop of CapturePathLock in any order of any number of sessions.     *)
THEOREM GivenBack == Spec => []DirectoryIsGivenBack
<1>1. IndInv => DirectoryIsGivenBack
  BY DEF IndInv, DirectorySound
<1> QED
  BY Invariant, <1>1, PTL

-----------------------------------------------------------------------------
(* Refinement.                                                             *)

(* A session alone reads back its own slots.                               *)
LEMMA LogOfSession ==
  ASSUME IndInv, ~mixed, NEW s \in Keeping
  PROVE  Log = [i \in 1 .. count[s] |-> file.slot[i - 1]]
<1>1. Keeping = {s}
  BY DEF IndInv, FileSound
<1>2. (CHOOSE k \in Keeping : TRUE) = s
  BY <1>1
<1> QED
  BY <1>1, <1>2 DEF Log

(* The log stays when the counts and the counted slots do.                 *)
LEMMA SameLog ==
  ASSUME IndInv, IndInv', ~mixed, ~mixed', Keeping' = Keeping,
         \A s \in Keeping :
           /\ count'[s] = count[s]
           /\ \A i \in Slots : i < count[s] => file'.slot[i] = file.slot[i]
  PROVE  Log' = Log
<1>1. CASE Keeping = {}
  BY <1>1 DEF Log
<1>2. ASSUME NEW s \in Keeping PROVE Log' = Log
  <2>1. Log = [i \in 1 .. count[s] |-> file.slot[i - 1]]
    BY LogOfSession
  <2>2. Log' = [i \in 1 .. count'[s] |-> file'.slot[i - 1]]
    <3>1. Keeping' = {s}
      BY DEF IndInv, FileSound
    <3>2. (CHOOSE k \in Keeping' : TRUE) = s
      BY <3>1
    <3> QED
      BY <3>1, <3>2 DEF Log
  <2>3. count[s] \in 0 .. MaxEvents
    BY DEF IndInv, TypeOK, Keeping
  <2>4. \A i \in 1 .. count[s] : file'.slot[i - 1] = file.slot[i - 1]
    BY <2>3 DEF Slots
  <2> QED
    BY <2>1, <2>2, <2>4
<1> QED
  BY <1>1, <1>2

(* Every step of the file is a step of the log, or leaves it as it is.     *)
LEMMA StepRefines == IndInv /\ IndInv' /\ [Next]_vars => [History!Next]_Log
<1> SUFFICES ASSUME IndInv, IndInv', [Next]_vars
    PROVE  Log' = <<>> \/ Log' = Log \/ \E e \in Events : History!Record(e)
  BY DEF History!Next, History!Forget
<1> USE DEF Goto, dataVars, dirVars
<1>1. CASE UNCHANGED vars
  BY <1>1 DEF vars, Log, Keeping
<1>2. CASE mixed'
  BY <1>2 DEF Log
<1>3. ASSUME Next, ~mixed'
      PROVE  Log' = <<>> \/ Log' = Log \/ \E e \in Events : History!Record(e)
  <2> SUFFICES ASSUME NEW s \in Sessions, Step(s)
      PROVE  Log' = <<>> \/ Log' = Log \/ \E e \in Events : History!Record(e)
    BY <1>3 DEF Next
  <2> USE <1>3
  <2>1. CASE Stat(s)
    <3>1. Keeping' = Keeping
      BY <2>1 DEF Stat, Keeping, IndInv, TypeOK
    <3>2. \A k \in Keeping :
            /\ count'[k] = count[k]
            /\ \A i \in Slots : i < count[k] => file'.slot[i] = file.slot[i]
      BY <2>1
         DEF Stat, Keeping, IndInv, FileSound, FileAgrees, TypeOK, Files,
             CountersSound, Slots
    <3> QED
      BY <2>1, <3>1, <3>2, SameLog DEF Stat
  <2>2. CASE Raise(s)
    <3>1. Keeping' = Keeping
      BY <2>2 DEF Raise, Keeping, IndInv, TypeOK
    <3>2. \A k \in Keeping :
            /\ count'[k] = count[k]
            /\ \A i \in Slots : i < count[k] => file'.slot[i] = file.slot[i]
      BY <2>2
         DEF Raise, Keeping, IndInv, FileSound, FileAgrees, TypeOK, Files,
             CountersSound, Slots
    <3> QED
      BY <2>2, <3>1, <3>2, SameLog DEF Raise
  <2>3. CASE Open(s)
    <3>1. Keeping = {} /\ pc' = [pc EXCEPT ![s] = "opened"]
      BY <2>3 DEF Open
    <3>2. Keeping' = {}
      BY <3>1 DEF Keeping, IndInv, TypeOK
    <3> QED
      BY <3>2 DEF Log
  <2>4. CASE SetLen(s)
    <3>1. s \in Keeping' /\ count'[s] = 0
      BY <2>4 DEF SetLen, Keeping, IndInv, TypeOK
    <3>2. Keeping' = {s}
      BY <3>1 DEF IndInv, FileSound
    <3>3. (CHOOSE j \in Keeping' : TRUE) = s
      BY <3>2
    <3>4. Log' = [i \in 1 .. 0 |-> file'.slot[i - 1]]
      BY <3>1, <3>2, <3>3 DEF Log
    <3> QED
      BY <3>4
  <2>5. CASE MakeHeader(s)
    <3>1. Keeping' = Keeping
      BY <2>5 DEF MakeHeader, Keeping, IndInv, TypeOK
    <3>2. \A k \in Keeping :
            /\ count'[k] = count[k]
            /\ \A i \in Slots : i < count[k] => file'.slot[i] = file.slot[i]
      BY <2>5
         DEF MakeHeader, Keeping, IndInv, FileSound, FileAgrees, TypeOK, Files,
             CountersSound, Slots
    <3> QED
      BY <2>5, <3>1, <3>2, SameLog DEF MakeHeader
  <2>6. CASE Lock(s)
    <3>1. Keeping' = Keeping
      BY <2>6 DEF Lock, Keeping, IndInv, TypeOK
    <3>2. \A k \in Keeping :
            /\ count'[k] = count[k]
            /\ \A i \in Slots : i < count[k] => file'.slot[i] = file.slot[i]
      BY <2>6
         DEF Lock, Keeping, IndInv, FileSound, FileAgrees, TypeOK, Files,
             CountersSound, Slots
    <3> QED
      BY <2>6, <3>1, <3>2, SameLog DEF Lock
  <2>7. CASE CreateFails(s)
    <3>1. CASE s \in Keeping
      <4>1. Keeping = {s}
        BY <2>7, <3>1 DEF CreateFails, IndInv, FileSound
      <4>2. Keeping' = {}
        BY <2>7, <4>1 DEF CreateFails, Keeping, IndInv, TypeOK
      <4> QED
        BY <4>2 DEF Log
    <3>2. CASE s \notin Keeping
      <4>1. Keeping' = Keeping
        BY <2>7, <3>2 DEF CreateFails, Keeping, IndInv, TypeOK
      <4> QED
        BY <2>7, <4>1, SameLog DEF CreateFails
    <3> QED
      BY <3>1, <3>2
  <2>8. CASE HasRoom(s)
    <3>1. Keeping' = Keeping
      BY <2>8 DEF HasRoom, Keeping, IndInv, TypeOK
    <3>2. \A k \in Keeping :
            /\ count'[k] = count[k]
            /\ \A i \in Slots : i < count[k] => file'.slot[i] = file.slot[i]
      BY <2>8
         DEF HasRoom, Keeping, IndInv, FileSound, FileAgrees, TypeOK, Files,
             CountersSound, Slots
    <3> QED
      BY <2>8, <3>1, <3>2, SameLog DEF HasRoom
  <2>9. CASE Refuse(s)
    <3>1. Keeping' = Keeping
      BY <2>9 DEF Refuse, Keeping, IndInv, TypeOK
    <3>2. \A k \in Keeping :
            /\ count'[k] = count[k]
            /\ \A i \in Slots : i < count[k] => file'.slot[i] = file.slot[i]
      BY <2>9
         DEF Refuse, Keeping, IndInv, FileSound, FileAgrees, TypeOK, Files,
             CountersSound, Slots
    <3> QED
      BY <2>9, <3>1, <3>2, SameLog DEF Refuse
  <2>10. CASE GrowFile(s)
    <3>1. Keeping' = Keeping
      BY <2>10 DEF GrowFile, Keeping, IndInv, TypeOK
    <3>2. s \in Keeping /\ Keeping = {s} /\ count' = count
      BY <2>10 DEF GrowFile, Keeping, IndInv, FileSound
    <3>3. count[s] <= Grown(s) /\ Grown(s) \in Nat /\ count[s] \in Nat
      BY <2>10, <3>2, GrownBounds DEF GrowFile, IndInv, TypeOK, CountersSound
    <3>4. \A i \in Slots : i < count[s] => file'.slot[i] = file.slot[i]
      BY <2>10, <3>3 DEF GrowFile, Resized, Slots
    <3> QED
      BY <2>10, <3>1, <3>2, <3>4, SameLog DEF GrowFile
  <2>11. CASE GrowMap(s)
    <3>1. Keeping' = Keeping
      BY <2>11 DEF GrowMap, Keeping, IndInv, TypeOK
    <3>2. \A k \in Keeping :
            /\ count'[k] = count[k]
            /\ \A i \in Slots : i < count[k] => file'.slot[i] = file.slot[i]
      BY <2>11
         DEF GrowMap, Keeping, IndInv, FileSound, FileAgrees, TypeOK, Files,
             CountersSound, Slots
    <3> QED
      BY <2>11, <3>1, <3>2, SameLog DEF GrowMap
  <2>12. CASE GrowFails(s)
    <3>1. Keeping' = Keeping
      BY <2>12 DEF GrowFails, Keeping, IndInv, TypeOK
    <3>2. \A k \in Keeping :
            /\ count'[k] = count[k]
            /\ \A i \in Slots : i < count[k] => file'.slot[i] = file.slot[i]
      BY <2>12
         DEF GrowFails, Keeping, IndInv, FileSound, FileAgrees, TypeOK, Files,
             CountersSound, Slots
    <3> QED
      BY <2>12, <3>1, <3>2, SameLog DEF GrowFails
  <2>13. CASE \E e \in Events : Accept(s, e)
    <3>1. Keeping' = Keeping
      BY <2>13 DEF Accept, Keeping, Fill, IndInv, TypeOK
    <3>2. \A k \in Keeping :
            /\ count'[k] = count[k]
            /\ \A i \in Slots : i < count[k] => file'.slot[i] = file.slot[i]
      BY <2>13
         DEF Accept, Keeping, IndInv, FileSound, FileAgrees, TypeOK, Files,
             CountersSound, Slots, Fill
    <3> QED
      BY <2>13, <3>1, <3>2, SameLog DEF Accept, Fill
  <2>14. CASE \E e \in Events : Skip(s, e)
    <3>1. Keeping' = Keeping
      BY <2>14 DEF Skip, Keeping, Fill, IndInv, TypeOK
    <3>2. \A k \in Keeping :
            /\ count'[k] = count[k]
            /\ \A i \in Slots : i < count[k] => file'.slot[i] = file.slot[i]
      BY <2>14
         DEF Skip, Keeping, IndInv, FileSound, FileAgrees, TypeOK, Files,
             CountersSound, Slots, Fill
    <3> QED
      BY <2>14, <3>1, <3>2, SameLog DEF Skip, Fill
  <2>15. CASE Nothing(s)
    <3>1. Keeping' = Keeping
      BY <2>15 DEF Nothing, Keeping, IndInv, TypeOK
    <3>2. \A k \in Keeping :
            /\ count'[k] = count[k]
            /\ \A i \in Slots : i < count[k] => file'.slot[i] = file.slot[i]
      BY <2>15
         DEF Nothing, Keeping, IndInv, FileSound, FileAgrees, TypeOK, Files,
             CountersSound, Slots
    <3> QED
      BY <2>15, <3>1, <3>2, SameLog DEF Nothing
  <2>16. CASE Commit(s)
    <3>1. s \in Keeping /\ Keeping' = Keeping
      BY <2>16 DEF Commit, Keeping, IndInv, TypeOK
    <3>2. count[s] \in Slots /\ count'[s] = count[s] + 1
      BY <2>16 DEF Commit, IndInv, TypeOK, CountersSound, Keeping, Slots
    <3>3. file.slot[count[s]] \in Events /\ file' = file
      BY <2>16, <3>1, <3>2
         DEF Commit, IndInv, FileSound, FileAgrees, TypeOK, Files
    <3>4. Log = [i \in 1 .. count[s] |-> file.slot[i - 1]]
      BY <2>16, <3>1, LogOfSession DEF Commit
    <3>5. Log' = [i \in 1 .. count[s] + 1 |-> file.slot[i - 1]]
      <4>1. Keeping' = {s}
        BY <3>1 DEF IndInv, FileSound
      <4>2. (CHOOSE j \in Keeping' : TRUE) = s
        BY <4>1
      <4> QED
        BY <4>1, <4>2, <3>2, <3>3 DEF Log
    <3>6. Log \in Seq(Events)
      <4>1. \A i \in 1 .. count[s] : i - 1 \in Slots /\ i - 1 < count[s]
        BY <3>2 DEF Slots
      <4>2. \A i \in Slots : i < count[s] => file.slot[i] \in Events
        BY <2>16, <3>1 DEF Commit, IndInv, FileSound, FileAgrees, TypeOK, Files
      <4>3. count[s] \in Nat
        BY <3>2 DEF Slots
      <4> QED
        BY <3>4, <4>1, <4>2, <4>3
    <3>7. Len(Log) = count[s] /\ count[s] < MaxEvents
      BY <3>2, <3>4 DEF Slots
    <3>8. Log' = Append(Log, file.slot[count[s]])
      BY <3>2, <3>3, <3>4, <3>5, <3>6, <3>7 DEF Slots
    <3>9. History!Record(file.slot[count[s]])
      BY <3>7, <3>8 DEF History!Record
    <3> QED
      BY <3>3, <3>9
  <2>17. CASE Publish(s)
    <3>1. Keeping' = Keeping
      BY <2>17 DEF Publish, Keeping, IndInv, TypeOK
    <3>2. \A k \in Keeping :
            /\ count'[k] = count[k]
            /\ \A i \in Slots : i < count[k] => file'.slot[i] = file.slot[i]
      BY <2>17
         DEF Publish, Keeping, IndInv, FileSound, FileAgrees, TypeOK, Files,
             CountersSound, Slots
    <3> QED
      BY <2>17, <3>1, <3>2, SameLog DEF Publish
  <2>18. CASE Clear(s)
    <3>1. s \in Keeping' /\ count'[s] = 0
      BY <2>18 DEF Clear, Keeping, IndInv, TypeOK
    <3>2. Keeping' = {s}
      BY <3>1 DEF IndInv, FileSound
    <3>3. (CHOOSE j \in Keeping' : TRUE) = s
      BY <3>2
    <3>4. Log' = [i \in 1 .. 0 |-> file'.slot[i - 1]]
      BY <3>1, <3>2, <3>3 DEF Log
    <3> QED
      BY <3>4
  <2>19. CASE End(s)
    <3>1. CASE s \in Keeping
      <4>1. Keeping = {s}
        BY <2>19, <3>1 DEF End, IndInv, FileSound
      <4>2. Keeping' = {}
        BY <2>19, <4>1 DEF End, Keeping, IndInv, TypeOK
      <4> QED
        BY <4>2 DEF Log
    <3>2. CASE s \notin Keeping
      <4>1. Keeping' = Keeping
        BY <2>19, <3>2 DEF End, Keeping, IndInv, TypeOK
      <4> QED
        BY <2>19, <4>1, SameLog DEF End
    <3> QED
      BY <3>1, <3>2
  <2>20. CASE Kill(s)
    <3>1. CASE s \in Keeping
      <4>1. Keeping = {s}
        BY <2>20, <3>1 DEF Kill, IndInv, FileSound
      <4>2. Keeping' = {}
        BY <2>20, <4>1 DEF Kill, Keeping, IndInv, TypeOK
      <4> QED
        BY <4>2 DEF Log
    <3>2. CASE s \notin Keeping
      <4>1. Keeping' = Keeping
        BY <2>20, <3>2 DEF Kill, Keeping, IndInv, TypeOK
      <4> QED
        BY <2>20, <4>1, SameLog DEF Kill
    <3> QED
      BY <3>1, <3>2
  <2> QED
    BY <2>1, <2>2, <2>3, <2>4, <2>5, <2>6, <2>7, <2>8, <2>9, <2>10, <2>11,
       <2>12, <2>13, <2>14, <2>15, <2>16, <2>17, <2>18, <2>19, <2>20
       DEF Step
<1> QED
  BY <1>1, <1>2, <1>3

(* While no other session opens its file, a session has an append-only log *)
(* with a limit: CaptureHistory as its callers see it.                     *)
THEOREM Refinement == Spec => KeepsTheHistory
<1>1. Init => History!Init
  BY DEF Init, Log, Keeping, History!Init
<1> QED
  BY <1>1, Invariant, StepRefines, PTL DEF Spec, KeepsTheHistory, History!Spec
=============================================================================
