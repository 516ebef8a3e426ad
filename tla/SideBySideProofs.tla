-------------------------- MODULE SideBySideProofs --------------------------
(***************************************************************************)
(* What the parts promise, for every value of their constants.  Each part  *)
(* has its inductive invariant, proved over its own actions; a step of     *)
(* AllSpec is a step of one part or leaves that part alone.                *)
(***************************************************************************)
EXTENDS SideBySide, FiniteSetTheorems, SequenceTheorems, WellFoundedInduction, TLAPS

-----------------------------------------------------------------------------
(* How programs find the kernel module: whatever is loaded and unloaded    *)
(* during the scan of the families.                                        *)

(* While the module has been there all along, it is still ahead of the     *)
(* scan, or has just answered it.                                          *)
StillAhead ==
  pc # "idle" /\ root /\ ~away => \E f \in Families : f >= at /\ family[f] \in Versions

(* A socket that was opened on the module keeps it there.                  *)
Pinned == result = "connected" => at \in Families /\ family[at] = "ours"

NotFoundIsSo == result = "not found" /\ root => away

(* The scan returns once.                                                  *)
ReturnsOnce == pc # "idle" => result = "none"

FamilyInv == TypeOK /\ StillAhead /\ Pinned /\ NotFoundIsSo /\ ReturnsOnce

LEMMA FamilyInit == Init => FamilyInv
BY SocketFamilyAssumption DEF Init, FamilyInv, TypeOK, StillAhead, Pinned, NotFoundIsSo,
                              ReturnsOnce,
   Families, Foreign, Versions, Results

LEMMA FamilyStep == FamilyInv /\ [Next]_vars => FamilyInv'
<1> SUFFICES ASSUME FamilyInv, [Next]_vars PROVE FamilyInv'
  OBVIOUS
<1> USE SocketFamilyAssumption DEF FamilyInv, TypeOK
<1>1. ASSUME NEW f \in Families, NEW kind \in Foreign, RegisterForeign(f, kind)
      PROVE  FamilyInv'
  <2>1. TypeOK'
    BY <1>1 DEF RegisterForeign, Foreign
  <2>2. \A g \in Families : family[g] \in Versions => family'[g] = family[g]
    BY <1>1 DEF RegisterForeign, Versions
  <2> QED  BY <1>1, <2>1, <2>2 DEF RegisterForeign, StillAhead, Pinned, NotFoundIsSo, ReturnsOnce,
                                   Versions
<1>2. ASSUME NEW version \in Versions, RegisterFreeFamily(version)
      PROVE  FamilyInv'
  <2> PICK f \in Families : /\ family[f] = "free"
                            /\ family' = [family EXCEPT ![f] = version]
    BY <1>2 DEF RegisterFreeFamily
  <2>1. TypeOK'
    BY <1>2 DEF RegisterFreeFamily
  <2>2. \A g \in Families : family[g] \in Versions => family'[g] = family[g]
    BY <1>2 DEF RegisterFreeFamily, Versions
  <2> QED  BY <1>2, <2>1, <2>2 DEF RegisterFreeFamily, StillAhead, Pinned, NotFoundIsSo,
                                   ReturnsOnce, Versions
<1>3. CASE ProtocolCleanup
  <2> PICK f \in Families : /\ family[f] \in Versions /\ ~Holds(f)
                            /\ family' = [family EXCEPT ![f] = "free"]
    BY <1>3 DEF ProtocolCleanup
  <2>1. TypeOK'
    BY <1>3 DEF ProtocolCleanup
  <2>2. result = "connected" => family'[at] = family[at]
    BY DEF Holds, Pinned
  <2> QED  BY <1>3, <2>1, <2>2 DEF ProtocolCleanup, StillAhead, Pinned, NotFoundIsSo, ReturnsOnce
<1>4. CASE Connect
  BY <1>4 DEF Connect, StillAhead, Pinned, NotFoundIsSo, ReturnsOnce, Loaded, Families
<1>5. CASE Probe
  <2>1. at \in Families
    BY <1>5 DEF Probe, Families
  <2>2. CASE LooksLikeBinderTrace(at)
    BY <1>5, <2>1, <2>2 DEF Probe, StillAhead, Pinned, NotFoundIsSo, ReturnsOnce, Families
  <2>3. CASE ~LooksLikeBinderTrace(at)
    <3>1. root => family[at] \notin Versions
      BY <2>3 DEF LooksLikeBinderTrace
    <3>2. TypeOK'
      BY <1>5, <2>1, <2>3 DEF Probe, Skip, Families
    <3> QED  BY <1>5, <2>1, <2>3, <3>1, <3>2
             DEF Probe, Skip, StillAhead, Pinned, NotFoundIsSo, ReturnsOnce, Families
  <2> QED  BY <2>2, <2>3
<1>6. CASE NotFound
  <2>1. ~\E f \in Families : f >= at
    <3>1. at \in Int /\ at > Last
      <4>1. at \in First .. Last + 1
        OBVIOUS
      <4>2. at > Last
        BY <1>6 DEF NotFound
      <4> QED  BY <4>1, <4>2
    <3>2. \A f \in Families : f \in Int /\ f <= Last
      BY DEF Families
    <3> QED  BY <3>1, <3>2
  <2>2. root => away
    BY <1>6, <2>1 DEF NotFound, StillAhead
  <2>3. TypeOK'
    BY <1>6 DEF NotFound, Return, Results
  <2> QED  BY <1>6, <2>2, <2>3 DEF NotFound, Return, StillAhead, Pinned, NotFoundIsSo, ReturnsOnce
<1>7. CASE OpenRawSocket
  <2>1. at \in Families
    BY <1>7 DEF OpenRawSocket, Families
  <2>2. CASE family[at] = "free" /\ Skip
    <3>1. family[at] \notin Versions
      BY <2>2 DEF Versions
    <3> QED  BY <1>7, <2>1, <2>2, <3>1
             DEF OpenRawSocket, Skip, StillAhead, Pinned, NotFoundIsSo, ReturnsOnce, Families
  <2>3. CASE Return("error")
    BY <1>7, <2>1, <2>3 DEF OpenRawSocket, Return, StillAhead, Pinned, NotFoundIsSo, ReturnsOnce,
                            Results
  <2>4. CASE pc' = "feature" /\ UNCHANGED <<at, result>>
    BY <1>7, <2>1, <2>4 DEF OpenRawSocket, StillAhead, Pinned, NotFoundIsSo, ReturnsOnce
  <2> QED  BY <1>7, <2>2, <2>3, <2>4 DEF OpenRawSocket
<1>8. CASE GetFeature
  <2>1. at \in Families
    BY <1>8 DEF GetFeature, Families
  <2>2. CASE family[at] = "ours" /\ Return("connected")
    BY <1>8, <2>1, <2>2 DEF GetFeature, Return, StillAhead, Pinned, NotFoundIsSo, ReturnsOnce,
                            Results
  <2>3. CASE family[at] = "older" /\ Return("abi")
    BY <1>8, <2>1, <2>3 DEF GetFeature, Return, StillAhead, Pinned, NotFoundIsSo, ReturnsOnce,
                            Results
  <2>4. CASE family[at] \in {"alien", "silent"} /\ Skip
    <3>1. family[at] \notin Versions
      BY <2>4 DEF Versions
    <3> QED  BY <1>8, <2>1, <2>4, <3>1
             DEF GetFeature, Skip, StillAhead, Pinned, NotFoundIsSo, ReturnsOnce, Families
  <2>5. CASE Return("error")
    BY <1>8, <2>1, <2>5 DEF GetFeature, Return, StillAhead, Pinned, NotFoundIsSo, ReturnsOnce,
                            Results
  <2> QED  BY <1>8, <2>2, <2>3, <2>4, <2>5 DEF GetFeature
<1>9. CASE UNCHANGED vars
  BY <1>9 DEF vars, StillAhead, Pinned, NotFoundIsSo, ReturnsOnce
<1> QED  BY <1>1, <1>2, <1>3, <1>4, <1>5, <1>6, <1>7, <1>8, <1>9 DEF Next

(* connect tells the truth (socket_ipc.rs:262-287).                        *)
THEOREM ConnectCorrect == Spec => []ConnectTellsTheTruth
<1>1. FamilyInv => ConnectTellsTheTruth
  BY DEF FamilyInv, ConnectTellsTheTruth, Pinned, NotFoundIsSo
<1> QED  BY FamilyInit, FamilyStep, <1>1, PTL DEF Spec

-----------------------------------------------------------------------------
(* The files programs publish, for any number of programs.                 *)

LEMMA FilesInit == Files!Init => Files!IndInv
  BY DEF Files!Init, Files!IndInv, Files!TypeOK, Files!PublishedIsComplete, Files!Contents,
         Files!Steps

(* The steps that write the marker.                                        *)
LEMMA MarkerSteps ==
  ASSUME Files!IndInv, NEW p \in Programs,
         Files!SkipMarker(p) \/ Files!BeginMarker(p) \/ Files!WriteMarker(p)
           \/ Files!SetPermissions(p)
           \/ Files!RenameMarker(p) \/ Files!MarkerFails(p)
  PROVE  Files!IndInv'
<1> USE DEF Files!IndInv, Files!TypeOK, Files!PublishedIsComplete, Files!Contents, Files!Steps,
            Files!GoesOn, Files!MarkerAlone
<1>1. CASE Files!SkipMarker(p)
  BY <1>1 DEF Files!SkipMarker
<1>2. CASE Files!BeginMarker(p)
  BY <1>2 DEF Files!BeginMarker
<1>3. CASE Files!WriteMarker(p)
  BY <1>3 DEF Files!WriteMarker
<1>4. CASE Files!SetPermissions(p)
  BY <1>4 DEF Files!SetPermissions
<1>5. CASE Files!RenameMarker(p)
  BY <1>5 DEF Files!RenameMarker
<1>6. CASE Files!MarkerFails(p)
  BY <1>6, ZenonT(60) DEF Files!MarkerFails
<1> QED
  BY <1>1, <1>2, <1>3, <1>4, <1>5, <1>6

(* The steps that unpack the table and read it.                            *)
LEMMA TableSteps ==
  ASSUME Files!IndInv, NEW p \in Programs,
         Files!CheckTable(p) \/ Files!CreateTemp(p) \/ Files!CopyTable(p) \/ Files!HardLink(p)
           \/ Files!HardLinkFails(p)
           \/ Files!Recheck(p) \/ Files!RenameTable(p) \/ Files!RemoveTemp(p) \/ Files!ReadTable(p)
             \/ Files!LoadingFails(p)
  PROVE  Files!IndInv'
<1> USE DEF Files!IndInv, Files!TypeOK, Files!PublishedIsComplete, Files!Contents, Files!Steps,
            Files!GoesOn, Files!TableAlone
<1>1. CASE Files!CheckTable(p)
  BY <1>1 DEF Files!CheckTable
<1>2. CASE Files!CreateTemp(p)
  BY <1>2 DEF Files!CreateTemp
<1>3. CASE Files!CopyTable(p)
  BY <1>3 DEF Files!CopyTable
<1>4. CASE Files!HardLink(p)
  BY <1>4 DEF Files!HardLink
<1>5. CASE Files!HardLinkFails(p)
  BY <1>5 DEF Files!HardLinkFails
<1>6. CASE Files!Recheck(p)
  BY <1>6 DEF Files!Recheck
<1>7. CASE Files!RenameTable(p)
  BY <1>7 DEF Files!RenameTable
<1>8. CASE Files!RemoveTemp(p)
  BY <1>8 DEF Files!RemoveTemp
<1>9. CASE Files!ReadTable(p)
  BY <1>9 DEF Files!ReadTable
<1>10. CASE Files!LoadingFails(p)
  <2>1. PICK to \in {"check", "stopped"} : step' = [step EXCEPT ![p] = to]
    BY <1>10 DEF Files!LoadingFails
  <2>2. tableTmp' \in [Programs -> Files!Contents] /\ \A q \in Programs \ {p} : tableTmp'[q] = tableTmp[q]
    BY <1>10 DEF Files!LoadingFails
  <2>3. UNCHANGED <<table, marker, markerTmp, loaded, unlinkable, replaced>>
    BY <1>10 DEF Files!LoadingFails
  <2> QED
    BY <2>1, <2>2, <2>3
<1> QED
  BY <1>1, <1>2, <1>3, <1>4, <1>5, <1>6, <1>7, <1>8, <1>9, <1>10

(* What comes from outside: kills, starts and the user.                    *)
LEMMA OutsideSteps ==
  ASSUME Files!IndInv,
         \/ \E p \in Programs : Files!Kill(p) \/ Files!Start(p)
         \/ Files!UserPutsTable \/ Files!UserTakesTable
  PROVE  Files!IndInv'
<1> USE DEF Files!IndInv, Files!TypeOK, Files!PublishedIsComplete, Files!Contents, Files!Steps,
            Files!GoesOn, Files!TableAlone, Files!MarkerAlone
<1>1. ASSUME NEW p \in Programs, Files!Kill(p) PROVE Files!IndInv'
  <2>1. step' = [step EXCEPT ![p] = "stopped"]
    BY <1>1 DEF Files!Kill
  <2>2. UNCHANGED <<table, marker, tableTmp, markerTmp, loaded, unlinkable, replaced>>
    BY <1>1 DEF Files!Kill
  <2> QED
    BY <2>1, <2>2
<1>2. ASSUME NEW p \in Programs, Files!Start(p) PROVE Files!IndInv'
  <2>1. step' = [step EXCEPT ![p] = "marker write"] /\ loaded' = [loaded EXCEPT ![p] = "none"]
    BY <1>2 DEF Files!Start
  <2>2. UNCHANGED <<table, marker, tableTmp, markerTmp, unlinkable, replaced>>
    BY <1>2 DEF Files!Start
  <2> QED
    BY <2>1, <2>2
<1>3. CASE Files!UserPutsTable
  BY <1>3 DEF Files!UserPutsTable
<1>4. CASE Files!UserTakesTable
  BY <1>4 DEF Files!UserTakesTable
<1> QED
  BY <1>1, <1>2, <1>3, <1>4

LEMMA FilesInductive == Files!Spec => []Files!IndInv
<1>1. ASSUME Files!IndInv, [Files!Next]_(Files!vars) PROVE Files!IndInv'
  <2>1. CASE UNCHANGED Files!vars
    BY <1>1, <2>1 DEF Files!vars, Files!IndInv, Files!TypeOK, Files!PublishedIsComplete
  <2>2. CASE Files!Next
    BY <1>1, <2>2, MarkerSteps, TableSteps, OutsideSteps DEF Files!Next
  <2> QED
    BY <1>1, <2>1, <2>2
<1> QED
  BY FilesInit, <1>1, PTL DEF Files!Spec

-----------------------------------------------------------------------------
(* The guard bits, for any pages the hooks are on.  The argument is the    *)
(* order of the hooks: a page a hook has cleared is on none of the pages   *)
(* of the hooks installed before it, because those had cleared it first;   *)
(* and hooks are freed in the opposite order.                              *)

LEMMA GuardInit == ASSUME Guard!Init PROVE Guard!IndInv
<1>1. Guard!TypeOK
  <2>1. hadGp \in [Guard!Hooks -> SUBSET Guarded] /\ tracked \in [Guard!Hooks -> SUBSET Guard!Pages]
    BY DEF Guard!Init
  <2>2. \A h \in Guard!Hooks : hadGp[h] = {} /\ tracked[h] = {}
    BY DEF Guard!Init
  <2>3. hook = 1 /\ guarded = Guarded /\ patched = {} /\ guardPhase = "install" /\ failed = FALSE
    BY DEF Guard!Init
  <2>4. hook \in Guard!Hooks
    BY <2>3 DEF Guard!Hooks
  <2> QED
    BY <2>1, <2>2, <2>3, <2>4 DEF Guard!TypeOK
<1>2. Guard!BitsAccounted
  BY DEF Guard!Init, Guard!BitsAccounted
<1>3. 1 .. hook - 1 = {}
  BY DEF Guard!Init
<1>4. Guard!PhaseSound
  BY <1>3 DEF Guard!Init, Guard!PhaseSound
<1> QED
  BY <1>1, <1>2, <1>4 DEF Guard!IndInv

LEMMA TrackStep ==
  ASSUME Guard!IndInv, NEW page \in Guard!Pages, Guard!TrackGuardPage(page) PROVE Guard!IndInv'
  BY DEF Guard!IndInv, Guard!TypeOK, Guard!BitsAccounted, Guard!PhaseSound, Guard!Hooks,
         Guard!TrackGuardPage

LEMMA WriteStep == ASSUME Guard!IndInv, Guard!WriteTrampoline PROVE Guard!IndInv'
<1>1. /\ guardPhase = "install" /\ patched' = patched \cup {hook}
      /\ UNCHANGED <<guarded, tracked, hadGp, failed>>
  BY DEF Guard!WriteTrampoline
<1>2. hook \in Guard!Hooks /\ hook' \in Guard!Hooks
  BY DEF Guard!IndInv, Guard!TypeOK, Guard!Hooks, Guard!WriteTrampoline
<1>3. Guard!TypeOK'
  BY <1>1, <1>2 DEF Guard!IndInv, Guard!TypeOK, Guard!WriteTrampoline
<1>4. SUFFICES ASSUME ~failed PROVE Guard!BitsAccounted' /\ Guard!PhaseSound'
  BY <1>1, <1>3 DEF Guard!IndInv
<1>5. Guard!BitsAccounted'
  BY <1>1, <1>4 DEF Guard!IndInv, Guard!BitsAccounted
<1>6. \A h \in patched' : tracked'[h] = Touches[h]
  BY <1>1, <1>4 DEF Guard!IndInv, Guard!PhaseSound, Guard!WriteTrampoline
<1>7. CASE hook < 3
  <2>1. guardPhase' = "install" /\ hook' = hook + 1
    BY <1>1, <1>7 DEF Guard!WriteTrampoline
  <2>2. patched' = 1 .. hook' - 1
    BY <2>1, <1>1, <1>2, <1>4 DEF Guard!IndInv, Guard!PhaseSound, Guard!Hooks
  <2>3. \A h \in Guard!Hooks : h > hook' => tracked'[h] = {}
    BY <2>1, <1>1, <1>2, <1>4 DEF Guard!IndInv, Guard!PhaseSound, Guard!Hooks
  <2> QED
    BY <1>5, <1>6, <2>1, <2>2, <2>3 DEF Guard!PhaseSound
<1>8. CASE ~(hook < 3)
  <2>1. guardPhase' = "loaded" /\ hook' = 3
    BY <1>8 DEF Guard!WriteTrampoline
  <2> QED
    BY <1>5, <1>6, <2>1 DEF Guard!PhaseSound
<1> QED
  BY <1>7, <1>8

LEMMA FailStep == ASSUME Guard!IndInv, Guard!InstallFails PROVE Guard!IndInv'
  BY DEF Guard!IndInv, Guard!TypeOK, Guard!BitsAccounted, Guard!PhaseSound, Guard!Hooks,
         Guard!InstallFails, Guard!RestoreGuardPages

LEMMA ExitStep == ASSUME Guard!IndInv, Guard!Exit PROVE Guard!IndInv'
  BY DEF Guard!IndInv, Guard!TypeOK, Guard!BitsAccounted, Guard!PhaseSound, Guard!Hooks, Guard!Exit

(* A hook that cannot be restored ends what is claimed.                    *)
LEMMA DisableStep == ASSUME Guard!IndInv, Guard!DisableHook PROVE Guard!IndInv'
<1>1. Guard!TypeOK'
  <2>1. UNCHANGED <<guarded, tracked, hadGp>> /\ guardPhase' \in {"disable", "free"}
    BY DEF Guard!DisableHook, Guard!Advance
  <2>2. patched' \subseteq Guard!Hooks /\ failed' \in BOOLEAN
    BY DEF Guard!DisableHook, Guard!IndInv, Guard!TypeOK
  <2>3. hook' \in Guard!Hooks
    BY DEF Guard!DisableHook, Guard!Advance, Guard!IndInv, Guard!TypeOK, Guard!Hooks
  <2> QED
    BY <2>1, <2>2, <2>3 DEF Guard!IndInv, Guard!TypeOK
<1>2. SUFFICES ASSUME ~failed' PROVE Guard!BitsAccounted' /\ Guard!PhaseSound'
  BY <1>1 DEF Guard!IndInv
<1>3. /\ ~failed /\ Guard!BitsAccounted /\ Guard!PhaseSound
      /\ patched' = patched \ {hook}
      /\ UNCHANGED <<guarded, tracked, hadGp>>
  BY <1>2 DEF Guard!DisableHook, Guard!IndInv, Guard!TypeOK
<1>4. Guard!BitsAccounted'
  BY <1>3 DEF Guard!BitsAccounted
<1>5. CASE hook > 1
  <2>1. hook' = hook - 1 /\ guardPhase' = "disable" /\ guardPhase = "disable" /\ hook \in 1 .. 3
    BY <1>5 DEF Guard!IndInv, Guard!TypeOK, Guard!DisableHook, Guard!Advance, Guard!Hooks
  <2>2. \A h \in Guard!Hooks : h > hook' => h \notin patched'
    BY <2>1, <1>3 DEF Guard!PhaseSound, Guard!Hooks
  <2>3. \A h \in patched' : tracked'[h] = Touches[h]
    BY <1>3 DEF Guard!PhaseSound
  <2> QED
    BY <1>4, <2>1, <2>2, <2>3 DEF Guard!PhaseSound
<1>6. CASE ~(hook > 1)
  <2>1. hook = 1 /\ hook' = 3 /\ guardPhase' = "free" /\ guardPhase = "disable"
    BY <1>6 DEF Guard!IndInv, Guard!TypeOK, Guard!Hooks, Guard!DisableHook, Guard!Advance
  <2>2. patched' = {}
    BY <2>1, <1>3 DEF Guard!IndInv, Guard!TypeOK, Guard!PhaseSound, Guard!Hooks
  <2>3. \A h \in Guard!Hooks : ~(h > 3)
    BY DEF Guard!Hooks
  <2> QED
    BY <1>4, <2>1, <2>2, <2>3 DEF Guard!PhaseSound
<1> QED
  BY <1>4, <1>5, <1>6

LEMMA FreeStep == ASSUME Guard!IndInv, Guard!FreeHook PROVE Guard!IndInv'
  BY DEF Guard!IndInv, Guard!TypeOK, Guard!BitsAccounted, Guard!PhaseSound, Guard!Hooks,
         Guard!FreeHook, Guard!Advance, Guard!RestoreGuardPages

LEMMA StutterStep == ASSUME Guard!IndInv, UNCHANGED Guard!vars PROVE Guard!IndInv'
  BY DEF Guard!IndInv, Guard!TypeOK, Guard!BitsAccounted, Guard!PhaseSound, Guard!vars

LEMMA GuardInductive == Guard!Spec => []Guard!IndInv
<1>1. Guard!IndInv /\ [Guard!Next]_(Guard!vars) => Guard!IndInv'
  BY TrackStep, WriteStep, FailStep, ExitStep, DisableStep, FreeStep, StutterStep DEF Guard!Next
<1> QED
  BY GuardInit, <1>1, PTL DEF Guard!Spec

-----------------------------------------------------------------------------
(* Whether a call is captured, for every set of threads, clients, calls    *)
(* and options.                                                            *)

Places == {"out", "hit", "copied", "captured", "ignored"}

FunctionsOk ==
  /\ deciding \in [Threads -> Places]
  /\ could \in [Threads -> SUBSET BOOLEAN]
  /\ call = [t \in Threads |-> call[t]]
  /\ copied = [t \in Threads |-> copied[t]]

(* The verdict of the configuration a thread will copy, or has copied, is  *)
(* one of those in force since its hit.                                    *)
VerdictInv ==
  /\ FunctionsOk
  /\ \A t \in Threads :
       /\ deciding[t] = "hit" => Filter!Wants(config, Task[t], call[t]) \in could[t]
       /\ deciding[t] = "copied" => Filter!Wants(copied[t], Task[t], call[t]) \in could[t]
  /\ Filter!VerdictWasAskedFor

LEMMA WantsIsAVerdict ==
  \A c, task, k : Filter!Wants(c, task, k) \in BOOLEAN
BY DEF Filter!Wants

LEMMA VerdictInit == Filter!Init => VerdictInv
<1> SUFFICES ASSUME Filter!Init PROVE VerdictInv
  OBVIOUS
<1>1. FunctionsOk
  BY DEF Filter!Init, FunctionsOk, Places
<1> QED
  BY <1>1 DEF Filter!Init, VerdictInv, Filter!VerdictWasAskedFor

(* A change of the configuration adds its verdict for every running call.  *)
LEMMA SetConfigKeeps ==
  ASSUME VerdictInv, NEW c, Filter!SetConfig(c), UNCHANGED <<deciding, call, copied>>
  PROVE  VerdictInv'
<1>1. \A t \in Threads :
        could'[t] = IF Filter!Running(t) THEN could[t] \cup {Filter!Wants(c, Task[t], call[t])}
                    ELSE could[t]
  BY DEF Filter!SetConfig
<1>2. could' \in [Threads -> SUBSET BOOLEAN]
  BY WantsIsAVerdict DEF Filter!SetConfig, VerdictInv, FunctionsOk
<1>3. FunctionsOk'
  BY <1>2 DEF VerdictInv, FunctionsOk
<1>4. ASSUME NEW t \in Threads
      PROVE  /\ deciding'[t] = "hit" => Filter!Wants(config', Task[t], call'[t]) \in could'[t]
             /\ deciding'[t] = "copied" => Filter!Wants(copied'[t], Task[t], call'[t]) \in could'[t]
  BY <1>1, <1>4 DEF Filter!SetConfig, Filter!Running, VerdictInv
<1>5. Filter!VerdictWasAskedFor'
  BY <1>1 DEF VerdictInv, Filter!VerdictWasAskedFor, Filter!Running
<1> QED
  BY <1>3, <1>4, <1>5 DEF VerdictInv

LEMMA VerdictStep == VerdictInv /\ [Filter!Next]_(Filter!vars) => VerdictInv'
<1> SUFFICES ASSUME VerdictInv, [Filter!Next]_(Filter!vars)
             PROVE  VerdictInv'
  OBVIOUS
<1>1. CASE \E p \in Clients : \E c : Filter!Enable(p, c)
  BY <1>1, SetConfigKeeps DEF Filter!Enable
<1>2. CASE \E p \in Clients : Filter!EnableAll(p) \/ Filter!Disable(p)
  BY <1>2, SetConfigKeeps DEF Filter!EnableAll, Filter!Disable
<1>3. CASE \E p \in Clients : Filter!ClearStats(p) \/ Filter!ClearNext(p)
  BY <1>3 DEF Filter!ClearStats, Filter!ClearNext, VerdictInv, FunctionsOk,
              Filter!VerdictWasAskedFor
<1>4. ASSUME NEW t \in Threads, NEW k \in Calls, Filter!NoteHit(t, k)
      PROVE  VerdictInv'
  <2>1. FunctionsOk'
    BY <1>4, WantsIsAVerdict DEF Filter!NoteHit, VerdictInv, FunctionsOk, Places
  <2>2. ASSUME NEW u \in Threads
        PROVE  /\ deciding'[u] = "hit" => Filter!Wants(config', Task[u], call'[u]) \in could'[u]
               /\ deciding'[u] = "copied" => Filter!Wants(copied'[u], Task[u], call'[u]) \in could'[u]
    BY <1>4, <2>2 DEF Filter!NoteHit, VerdictInv, FunctionsOk
  <2>3. Filter!VerdictWasAskedFor'
    BY <1>4 DEF Filter!NoteHit, VerdictInv, FunctionsOk, Filter!VerdictWasAskedFor
  <2> QED
    BY <2>1, <2>2, <2>3 DEF VerdictInv
<1>5. ASSUME NEW t \in Threads, Filter!CopyConfig(t)
      PROVE  VerdictInv'
  <2>1. FunctionsOk'
    BY <1>5 DEF Filter!CopyConfig, VerdictInv, FunctionsOk, Places
  <2>2. ASSUME NEW u \in Threads
        PROVE  /\ deciding'[u] = "hit" => Filter!Wants(config', Task[u], call'[u]) \in could'[u]
               /\ deciding'[u] = "copied" => Filter!Wants(copied'[u], Task[u], call'[u]) \in could'[u]
    BY <1>5, <2>2 DEF Filter!CopyConfig, VerdictInv, FunctionsOk
  <2>3. Filter!VerdictWasAskedFor'
    BY <1>5 DEF Filter!CopyConfig, VerdictInv, FunctionsOk, Filter!VerdictWasAskedFor
  <2> QED
    BY <2>1, <2>2, <2>3 DEF VerdictInv
<1>6. ASSUME NEW t \in Threads, Filter!Decide(t)
      PROVE  VerdictInv'
  <2>1. FunctionsOk'
    BY <1>6 DEF Filter!Decide, VerdictInv, FunctionsOk, Places
  <2>2. ASSUME NEW u \in Threads
        PROVE  /\ deciding'[u] = "hit" => Filter!Wants(config', Task[u], call'[u]) \in could'[u]
               /\ deciding'[u] = "copied" => Filter!Wants(copied'[u], Task[u], call'[u]) \in could'[u]
    BY <1>6, <2>2 DEF Filter!Decide, VerdictInv, FunctionsOk
  <2>3. Filter!VerdictWasAskedFor'
    <3>1. Filter!Wants(copied[t], Task[t], call[t]) \in could[t]
      BY <1>6 DEF Filter!Decide, VerdictInv
    <3>2. Filter!Wants(copied[t], Task[t], call[t]) \in BOOLEAN
      BY WantsIsAVerdict
    <3>3. ASSUME NEW u \in Threads
          PROVE  /\ deciding'[u] = "captured" => TRUE \in could'[u]
                 /\ deciding'[u] = "ignored" => FALSE \in could'[u]
      BY <1>6, <3>1, <3>2, <3>3 DEF Filter!Decide, VerdictInv, FunctionsOk,
                                    Filter!VerdictWasAskedFor
    <3> QED
      BY <3>3 DEF Filter!VerdictWasAskedFor
  <2> QED
    BY <2>1, <2>2, <2>3 DEF VerdictInv
<1>7. ASSUME NEW t \in Threads, Filter!Leave(t)
      PROVE  VerdictInv'
  <2>1. FunctionsOk'
    <3> DEFINE first == CHOOSE c \in Calls : TRUE
    <3>1. call' = [call EXCEPT ![t] = first]
      BY <1>7 DEF Filter!Leave
    <3> HIDE DEF first
    <3>2. call' = [u \in Threads |-> call'[u]]
      BY <3>1 DEF VerdictInv, FunctionsOk
    <3>3. /\ deciding' \in [Threads -> Places]
          /\ could' \in [Threads -> SUBSET BOOLEAN]
          /\ copied' = [u \in Threads |-> copied'[u]]
      BY <1>7 DEF Filter!Leave, VerdictInv, FunctionsOk, Places
    <3> QED
      BY <3>2, <3>3 DEF FunctionsOk
  <2>2. ASSUME NEW u \in Threads
        PROVE  /\ deciding'[u] = "hit" => Filter!Wants(config', Task[u], call'[u]) \in could'[u]
               /\ deciding'[u] = "copied" => Filter!Wants(copied'[u], Task[u], call'[u]) \in could'[u]
    BY <1>7, <2>2 DEF Filter!Leave, VerdictInv, FunctionsOk
  <2>3. Filter!VerdictWasAskedFor'
    BY <1>7 DEF Filter!Leave, VerdictInv, FunctionsOk, Filter!VerdictWasAskedFor
  <2> QED
    BY <2>1, <2>2, <2>3 DEF VerdictInv
<1>8. CASE UNCHANGED Filter!vars
  BY <1>8 DEF Filter!vars, VerdictInv, FunctionsOk, Filter!VerdictWasAskedFor
<1> QED
  BY <1>1, <1>2, <1>3, <1>4, <1>5, <1>6, <1>7, <1>8
     DEF Filter!Next, Filter!FrontEndStarts, Filter!McpStarts, Filter!EnableTool

(* The counters.  Each step is looked at for what it does to the calls     *)
(* under way, the hits and the verdicts.                                   *)
UnderWay == {t \in Threads : Filter!Running(t)}

CountersOk ==
  /\ counters \in [{"ioctl", "copy", "transaction", "captured", "filtered"} -> Nat]
  /\ clearing \in [Clients -> 0 .. 5]

Balance ==
  /\ (\A p \in Clients : clearing[p] \notin 2 .. 4) =>
       counters.captured + Cardinality(UnderWay) <= Filter!Hits + Cardinality(Threads)
  /\ (\A p \in Clients : clearing[p] \notin 2 .. 5) =>
       counters.captured + counters.filtered + Cardinality(UnderWay)
         <= Filter!Hits + Cardinality(Threads)

CountersInv == VerdictInv /\ CountersOk /\ Balance

LEMMA SameCardinality ==
  \A S : /\ Filter!Cardinality(S) = Cardinality(S)
         /\ Filter!IsFiniteSet(S) <=> IsFiniteSet(S)
<1>1. \A S : Filter!Cardinality(S) = Cardinality(S)
  BY DEF Filter!Cardinality, Cardinality
<1>2. \A S : Filter!IsFiniteSet(S) <=> IsFiniteSet(S)
  BY DEF Filter!IsFiniteSet, IsFiniteSet
<1> QED
  BY <1>1, <1>2

LEMMA UnderWayIsFew ==
  /\ IsFiniteSet(Threads) /\ Cardinality(Threads) \in Nat
  /\ IsFiniteSet(UnderWay) /\ Cardinality(UnderWay) \in Nat
  /\ Cardinality(UnderWay) <= Cardinality(Threads)
<1>1. IsFiniteSet(Threads) /\ UnderWay \subseteq Threads
  BY PartsAssumption, SameCardinality DEF Filter!FilterAssumption, UnderWay
<1> QED
  BY <1>1, FS_Subset, FS_CardinalityType

LEMMA Balanced == Balance <=> Filter!VerdictsBalance
<1>1. Filter!Cardinality(UnderWay) = Cardinality(UnderWay)
      /\ Filter!Cardinality(Threads) = Cardinality(Threads)
  BY SameCardinality
<1> QED
  BY <1>1 DEF Filter!VerdictsBalance, UnderWay, Balance

LEMMA FiveCounters ==
  /\ Len(Filter!COUNTERS) = 5 /\ DOMAIN Filter!COUNTERS = 1 .. 5
  /\ Filter!ToSet(Filter!COUNTERS) = {"ioctl", "copy", "transaction", "captured", "filtered"}
  /\ Filter!COUNTERS[1] = "ioctl" /\ Filter!COUNTERS[2] = "copy"
  /\ Filter!COUNTERS[3] = "transaction" /\ Filter!COUNTERS[4] = "captured"
  /\ Filter!COUNTERS[5] = "filtered"
<1>1. DOMAIN Filter!COUNTERS = 1 .. 5
  BY DEF Filter!COUNTERS
<1>2. \A i \in 1 .. 5 : i = 1 \/ i = 2 \/ i = 3 \/ i = 4 \/ i = 5
  OBVIOUS
<1> QED
  BY <1>1, <1>2 DEF Filter!COUNTERS, Filter!ToSet

LEMMA CountersInit == Filter!Init => CountersInv
<1> SUFFICES ASSUME Filter!Init PROVE CountersInv
  OBVIOUS
<1>1. CountersOk
  BY FiveCounters DEF Filter!Init, CountersOk
<1>2. counters.captured = 0 /\ counters.filtered = 0 /\ Filter!Hits = 0
  BY FiveCounters DEF Filter!Init, Filter!Hits
<1>3. Balance
  BY <1>2, UnderWayIsFew DEF Balance
<1> QED
  BY <1>1, <1>3, VerdictInit DEF CountersInv

(* Steps that change neither the counters nor who is under way, and take   *)
(* a client that clears nothing to its first counter at most.              *)
LEMMA OtherSteps ==
  ASSUME CountersOk, Balance,
         counters' = counters, UnderWay' = UnderWay,
         \/ clearing' = clearing
         \/ \E p \in Clients : clearing[p] = 0 /\ clearing' = [clearing EXCEPT ![p] = 1]
  PROVE  CountersOk' /\ Balance'
<1>1. CountersOk'
  BY DEF CountersOk
<1>2. \A p \in Clients : clearing'[p] = clearing[p] \/ (clearing[p] = 0 /\ clearing'[p] = 1)
  BY DEF CountersOk
<1>3. Filter!Hits' = Filter!Hits
  BY DEF Filter!Hits
<1>4. \A p \in Clients : /\ clearing'[p] \notin 2 .. 4 => clearing[p] \notin 2 .. 4
                         /\ clearing'[p] \notin 2 .. 5 => clearing[p] \notin 2 .. 5
  BY <1>2 DEF CountersOk
<1> QED
  BY <1>1, <1>3, <1>4 DEF Balance

LEMMA ClearStep ==
  ASSUME CountersOk, Balance, NEW p \in Clients, Filter!ClearNext(p)
  PROVE  CountersOk' /\ Balance'
<1> DEFINE spot == clearing[p]
<1>1. /\ spot \in 1 .. 5
      /\ counters' = [counters EXCEPT ![Filter!COUNTERS[spot]] = 0]
      /\ clearing' = [clearing EXCEPT ![p] = (spot + 1) % 6]
      /\ UnderWay' = UnderWay
  BY FiveCounters DEF Filter!ClearNext, CountersOk, UnderWay, Filter!Running
<1>2. (spot + 1) % 6 = IF spot = 5 THEN 0 ELSE spot + 1
  BY <1>1
<1>3. CountersOk'
  <2>1. Filter!COUNTERS[spot] \in {"ioctl", "copy", "transaction", "captured", "filtered"}
    BY <1>1, FiveCounters
  <2> QED
    BY <1>1, <1>2, <2>1 DEF CountersOk
<1>4. \A q \in Clients : clearing'[q] = IF q = p THEN IF spot = 5 THEN 0 ELSE spot + 1 ELSE clearing[q]
  BY <1>1, <1>2 DEF CountersOk
<1>5. CASE spot \in 1 .. 3
  <2>1. clearing'[p] \in 2 .. 4
    BY <1>4, <1>5
  <2> QED
    BY <1>3, <2>1 DEF Balance
<1>6. CASE spot = 4
  <2>1. counters'.captured = 0 /\ clearing'[p] = 5
    BY <1>1, <1>4, <1>6, FiveCounters DEF CountersOk
  <2>2. Filter!Hits' \in Nat
    BY <1>3 DEF CountersOk, Filter!Hits
  <2>3. UnderWay' = UnderWay /\ Cardinality(UnderWay) <= Cardinality(Threads)
        /\ Cardinality(UnderWay) \in Nat /\ Cardinality(Threads) \in Nat
    BY <1>1, UnderWayIsFew
  <2>4. counters'.captured + Cardinality(UnderWay)' <= Filter!Hits' + Cardinality(Threads)
    BY <2>1, <2>2, <2>3
  <2> QED
    BY <1>3, <2>1, <2>4 DEF Balance
<1>7. CASE spot = 5
  <2>1. /\ counters'.filtered = 0 /\ counters'.captured = counters.captured
        /\ Filter!Hits' = Filter!Hits
    BY <1>1, <1>7, FiveCounters DEF CountersOk, Filter!Hits
  <2>2. \A q \in Clients : /\ clearing'[q] \notin 2 .. 4 => clearing[q] \notin 2 .. 4
                           /\ clearing'[q] \notin 2 .. 5 => clearing[q] \notin 2 .. 4
    BY <1>4, <1>7 DEF CountersOk
  <2>3. counters.captured + 0 = counters.captured
    BY DEF CountersOk
  <2> QED
    BY <1>1, <1>3, <2>1, <2>2, <2>3 DEF Balance
<1> QED
  BY <1>1, <1>5, <1>6, <1>7

(* A hit and a call under way more, or a call under way less and a verdict *)
(* more at most.                                                           *)
LEMMA HitStep ==
  ASSUME FunctionsOk, CountersOk, Balance,
         NEW t \in Threads, NEW k \in Calls, Filter!NoteHit(t, k)
  PROVE  CountersOk' /\ Balance'
<1>1. k.point \in {"ioctl", "copy", "transaction"}
  BY PartsAssumption DEF Filter!FilterAssumption, Filter!POINTS
<1>2. CountersOk' /\ clearing' = clearing
  BY <1>1 DEF Filter!NoteHit, CountersOk
<1>3. /\ Filter!Hits' = Filter!Hits + 1
      /\ counters'.captured = counters.captured /\ counters'.filtered = counters.filtered
  BY <1>1 DEF Filter!NoteHit, CountersOk, Filter!Hits
<1>4. UnderWay' = UnderWay \cup {t} /\ t \notin UnderWay
  BY DEF Filter!NoteHit, FunctionsOk, UnderWay, Filter!Running
<1>5. Cardinality(UnderWay)' = Cardinality(UnderWay) + 1
  BY <1>4, UnderWayIsFew, FS_AddElement
<1>6. counters.captured \in Nat /\ counters.filtered \in Nat /\ Filter!Hits \in Nat
  BY DEF CountersOk, Filter!Hits
<1> QED
  BY <1>2, <1>3, <1>5, <1>6, UnderWayIsFew DEF Balance

LEMMA DecideStep ==
  ASSUME FunctionsOk, CountersOk, Balance, NEW t \in Threads, Filter!Decide(t)
  PROVE  CountersOk' /\ Balance'
<1> DEFINE wanted == Filter!Wants(copied[t], Task[t], call[t])
<1>1. \/ counters' = counters
      \/ counters' = [counters EXCEPT !.captured = @ + 1]
      \/ counters' = [counters EXCEPT !.filtered = @ + 1]
  BY DEF Filter!Decide
<1>2. CountersOk' /\ clearing' = clearing
  BY <1>1 DEF Filter!Decide, CountersOk
<1>3. /\ Filter!Hits' = Filter!Hits
      /\ counters'.captured <= counters.captured + 1
      /\ counters'.captured + counters'.filtered <= counters.captured + counters.filtered + 1
  BY <1>1 DEF CountersOk, Filter!Hits
<1>4. UnderWay' = UnderWay \ {t} /\ t \in UnderWay
  BY DEF Filter!Decide, FunctionsOk, UnderWay, Filter!Running
<1>5. Cardinality(UnderWay)' = Cardinality(UnderWay) - 1
  BY <1>4, UnderWayIsFew, FS_RemoveElement
<1>6. /\ counters.captured \in Nat /\ counters.filtered \in Nat /\ Filter!Hits \in Nat
      /\ counters'.captured \in Nat /\ counters'.filtered \in Nat
  BY <1>2 DEF CountersOk, Filter!Hits
<1> QED
  BY <1>2, <1>3, <1>5, <1>6, UnderWayIsFew DEF Balance

LEMMA CountersStep == CountersInv /\ [Filter!Next]_(Filter!vars) => CountersInv'
<1> SUFFICES ASSUME CountersInv, [Filter!Next]_(Filter!vars) PROVE CountersInv'
  OBVIOUS
<1>1. VerdictInv' /\ FunctionsOk
  BY VerdictStep DEF CountersInv, VerdictInv
<1>2. SUFFICES CountersOk' /\ Balance'
  BY <1>1 DEF CountersInv
<1> USE DEF CountersInv
<1>3. ASSUME NEW p \in Clients, NEW c, Filter!Enable(p, c) PROVE CountersOk' /\ Balance'
  BY <1>3, OtherSteps DEF Filter!Enable, UnderWay, Filter!Running
<1>4. ASSUME NEW p \in Clients, Filter!EnableAll(p) \/ Filter!Disable(p)
      PROVE  CountersOk' /\ Balance'
  BY <1>4, OtherSteps DEF Filter!EnableAll, Filter!Disable, UnderWay, Filter!Running
<1>5. ASSUME NEW p \in Clients, Filter!ClearStats(p) PROVE CountersOk' /\ Balance'
  BY <1>5, OtherSteps DEF Filter!ClearStats, UnderWay, Filter!Running
<1>6. ASSUME NEW t \in Threads, Filter!CopyConfig(t) \/ Filter!Leave(t)
      PROVE  CountersOk' /\ Balance'
  <2>1. UnderWay' = UnderWay
    BY <1>1, <1>6 DEF Filter!CopyConfig, Filter!Leave, FunctionsOk, UnderWay, Filter!Running
  <2>2. counters' = counters /\ clearing' = clearing
    BY <1>6 DEF Filter!CopyConfig, Filter!Leave
  <2> QED
    BY <2>1, <2>2, OtherSteps
<1>7. CASE UNCHANGED Filter!vars
  BY <1>7, OtherSteps DEF Filter!vars, UnderWay, Filter!Running
<1> QED
  BY <1>1, <1>3, <1>4, <1>5, <1>6, <1>7, ClearStep, HitStep, DecideStep
     DEF Filter!Next, Filter!FrontEndStarts, Filter!McpStarts, Filter!EnableTool

LEMMA FilterInductive == Filter!Spec => []CountersInv
BY CountersInit, CountersStep, PTL DEF Filter!Spec

-----------------------------------------------------------------------------
(* The TUI's list, and the panes on it.  Their invariants are those of     *)
(* TuiProofs, for either part's constants.                                 *)

ListOf  == INSTANCE TuiProofs WITH MaxEvents <- ListEvents, PageSize <- ListPage
PanesOf == INSTANCE TuiProofs WITH Keys <- Keys \ Unnamed, Unnamed <- {}

(* What the parts and the instances proved about say is the same.          *)
LEMMA ListIsTui ==
  /\ List!TuiAssumption = ListOf!TuiAssumption
  /\ Panes!Init = ListOf!Init
  /\ List!Next = ListOf!Next
<1>1. List!TuiAssumption = ListOf!TuiAssumption
  BY DEF List!TuiAssumption, ListOf!TuiAssumption
<1>2. Panes!Init = ListOf!Init
  BY DEF Panes!Init, ListOf!Init
<1>3. List!Next = ListOf!Next
  BY DEF
    List!Next, List!Emit, List!WaitReadable, List!Receive, List!Discard, List!DrainEnds,
    List!BackToSelect, List!Move, List!ToggleRecording, List!ToggleFrequency, List!Clear,
    List!Push, List!Targets, List!Reloaded, List!FollowsTail, List!Oldest, List!Newest,
    List!Visible, List!ListKeys, List!loopVars, List!listVars, List!Max, List!Min,
    List!Cardinality,
    ListOf!Next, ListOf!Emit, ListOf!WaitReadable, ListOf!Receive, ListOf!Discard,
    ListOf!DrainEnds, ListOf!BackToSelect, ListOf!Move, ListOf!ToggleRecording,
    ListOf!ToggleFrequency, ListOf!Clear, ListOf!Push, ListOf!Targets, ListOf!Reloaded,
    ListOf!FollowsTail, ListOf!Oldest, ListOf!Newest, ListOf!Visible, ListOf!ListKeys,
    ListOf!loopVars, ListOf!listVars, ListOf!Max, ListOf!Min, ListOf!Cardinality
<1> QED
  BY <1>1, <1>2, <1>3

LEMMA PanesAreTui ==
  /\ Panes!PanesAssumption = PanesOf!PanesAssumption
  /\ Panes!PInit = PanesOf!PInit
  /\ Panes!PNext = PanesOf!PNext
<1>1. Panes!PanesAssumption = PanesOf!PanesAssumption
  BY DEF Panes!PanesAssumption, PanesOf!PanesAssumption, Panes!TuiAssumption,
         PanesOf!TuiAssumption, Panes!IsFiniteSet, PanesOf!IsFiniteSet
<1>2. Panes!PInit = PanesOf!PInit
  BY SMTT(30) DEF Panes!PInit, PanesOf!PInit, Panes!Init, PanesOf!Init
<1>3. Panes!PNext = PanesOf!PNext
  BY DEF
    Panes!PNext, Panes!PEmit, Panes!PWaitReadable, Panes!PReceive, Panes!PDiscard,
    Panes!PDrainEnds, Panes!PBackToSelect, Panes!PMove, Panes!MoveFrequency,
    Panes!MoveHexdump, Panes!MoveParsed, Panes!SpaceFrequency, Panes!SpaceTransactions,
    Panes!NextPane, Panes!PClear, Panes!Unseen, Panes!ScrollsReset, Panes!MoveIndex,
    Panes!HexdumpLines, Panes!HexLines, Panes!ParsedOf, Panes!ParsedLines, Panes!Count,
    Panes!CountedKeys, Panes!Entries, Panes!SetToSortSeq, Panes!SetToSeq, Panes!IsInjective,
    Panes!FocusNext, Panes!Saturating, Panes!Least, Panes!Greatest, Panes!paneVars, Panes!vars,
    Panes!Emit, Panes!WaitReadable, Panes!Receive, Panes!Discard, Panes!DrainEnds,
    Panes!BackToSelect, Panes!Move, Panes!ToggleRecording, Panes!ToggleFrequency, Panes!Clear,
    Panes!Push, Panes!Targets, Panes!Reloaded, Panes!FollowsTail, Panes!Oldest, Panes!Newest,
    Panes!Visible, Panes!ListKeys, Panes!loopVars, Panes!listVars, Panes!Max, Panes!Min,
    Panes!Cardinality,
    PanesOf!PNext, PanesOf!PEmit, PanesOf!PWaitReadable, PanesOf!PReceive, PanesOf!PDiscard,
    PanesOf!PDrainEnds, PanesOf!PBackToSelect, PanesOf!PMove, PanesOf!MoveFrequency,
    PanesOf!MoveHexdump, PanesOf!MoveParsed, PanesOf!SpaceFrequency,
    PanesOf!SpaceTransactions, PanesOf!NextPane, PanesOf!PClear, PanesOf!Unseen,
    PanesOf!ScrollsReset, PanesOf!MoveIndex, PanesOf!HexdumpLines, PanesOf!HexLines,
    PanesOf!ParsedOf, PanesOf!ParsedLines, PanesOf!Count, PanesOf!CountedKeys,
    PanesOf!Entries, PanesOf!SetToSortSeq, PanesOf!SetToSeq, PanesOf!IsInjective,
    PanesOf!FocusNext, PanesOf!Saturating, PanesOf!Least, PanesOf!Greatest, PanesOf!paneVars,
    PanesOf!vars, PanesOf!Emit, PanesOf!WaitReadable, PanesOf!Receive, PanesOf!Discard,
    PanesOf!DrainEnds, PanesOf!BackToSelect, PanesOf!Move, PanesOf!ToggleRecording,
    PanesOf!ToggleFrequency, PanesOf!Clear, PanesOf!Push, PanesOf!Targets, PanesOf!Reloaded,
    PanesOf!FollowsTail, PanesOf!Oldest, PanesOf!Newest, PanesOf!Visible, PanesOf!ListKeys,
    PanesOf!loopVars, PanesOf!listVars, PanesOf!Max, PanesOf!Min, PanesOf!Cardinality
<1> QED
  BY <1>1, <1>2, <1>3

(* What is asked of the list, in the words of either instance.             *)
LEMMA ListPromises ==
  /\ NothingIsStranded = ListOf!NothingIsStranded
  /\ NothingIsStranded = PanesOf!NothingIsStranded
  /\ WindowHasNoGaps = ListOf!WindowHasNoGaps
  /\ WindowHasNoGaps = PanesOf!WindowHasNoGaps
  /\ SelectionIsLoaded = ListOf!SelectionIsLoaded
  /\ SelectionIsLoaded = PanesOf!SelectionIsLoaded
<1>1. /\ NothingIsStranded = ListOf!NothingIsStranded
      /\ NothingIsStranded = PanesOf!NothingIsStranded
  BY DEF NothingIsStranded, List!NothingIsStranded, ListOf!NothingIsStranded,
         PanesOf!NothingIsStranded
<1>2. WindowHasNoGaps = ListOf!WindowHasNoGaps
  BY DEF WindowHasNoGaps, List!WindowHasNoGaps, List!Visible, List!Max, List!Min,
         List!Cardinality,
         ListOf!WindowHasNoGaps, ListOf!Visible, ListOf!Max, ListOf!Min, ListOf!Cardinality
<1>3. WindowHasNoGaps = PanesOf!WindowHasNoGaps
  BY DEF WindowHasNoGaps, List!WindowHasNoGaps, List!Visible, List!Max, List!Min,
         List!Cardinality,
         PanesOf!WindowHasNoGaps, PanesOf!Visible, PanesOf!Max, PanesOf!Min,
         PanesOf!Cardinality
<1>4. /\ SelectionIsLoaded = ListOf!SelectionIsLoaded
      /\ SelectionIsLoaded = PanesOf!SelectionIsLoaded
  BY DEF SelectionIsLoaded, List!SelectionIsLoaded, List!Visible,
         ListOf!SelectionIsLoaded, ListOf!Visible, PanesOf!SelectionIsLoaded, PanesOf!Visible
<1> QED
  BY <1>1, <1>2, <1>3, <1>4

LEMMA PanesPromise == Panes!PanesStayInside = PanesOf!PanesStayInside
BY DEF Panes!PanesStayInside, Panes!HexdumpLines, Panes!HexLines, Panes!ParsedOf,
       Panes!ParsedLines, Panes!CountedKeys, Panes!Count, Panes!Cardinality,
       PanesOf!PanesStayInside, PanesOf!HexdumpLines, PanesOf!HexLines, PanesOf!ParsedOf,
       PanesOf!ParsedLines, PanesOf!CountedKeys, PanesOf!Count, PanesOf!Cardinality

(* While no pane was used, what holds of the list is all there is.         *)
TuiInv == IF part = "panes" THEN PanesOf!PanesInv ELSE ListOf!ListInv

LEMMA TuiInit == AllInit => TuiInv
<1> SUFFICES ASSUME AllInit PROVE TuiInv
  OBVIOUS
<1>1. PanesOf!PInit /\ ListOf!Init
  BY PanesAreTui, ListIsTui DEF AllInit, Panes!PInit
<1>2. PanesOf!PanesAssumption /\ ListOf!TuiAssumption
  BY PartsAssumption, PanesAreTui, ListIsTui
<1>3. PanesOf!PanesInv
  BY <1>1, <1>2, PanesOf!PanesInit
<1>4. ListOf!ListInv
  BY <1>1, <1>2, ListOf!ListInit
<1> QED
  BY <1>3, <1>4 DEF TuiInv

LEMMA TuiStep ==
  TuiInv /\ [AllNext]_<<part, familyVars, agentVars, fileVars, inputVars, paneVars,
                        guardVars, filterVars>> => TuiInv'
<1> SUFFICES ASSUME TuiInv,
                    [AllNext]_<<part, familyVars, agentVars, fileVars, inputVars, paneVars,
                                guardVars, filterVars>>
             PROVE  TuiInv'
  OBVIOUS
<1>1. part' = part
  BY DEF AllNext
<1>2. PanesOf!PanesAssumption /\ ListOf!TuiAssumption
  BY PartsAssumption, PanesAreTui, ListIsTui
<1>3. CASE part = "panes"
  <2>1. Panes!PNext \/ UNCHANGED paneVars
    BY <1>3 DEF AllNext
  <2>2. UNCHANGED paneVars => UNCHANGED <<PanesOf!vars, PanesOf!paneVars>>
    BY DEF paneVars, detailVars, PanesOf!vars, PanesOf!paneVars, PanesOf!loopVars,
           PanesOf!listVars
  <2>3. [PanesOf!PNext]_<<PanesOf!vars, PanesOf!paneVars>>
    BY <2>1, <2>2, PanesAreTui
  <2>4. PanesOf!PanesInv
    BY <1>3 DEF TuiInv
  <2>5. PanesOf!PanesInv'
    BY <1>2, <2>3, <2>4, PanesOf!PanesStep
  <2> QED
    BY <1>1, <1>3, <2>5 DEF TuiInv
<1>4. CASE part # "panes"
  <2>1. List!Next \/ UNCHANGED paneVars
    BY <1>4 DEF AllNext
  <2>2. UNCHANGED paneVars => UNCHANGED ListOf!vars
    BY DEF paneVars, ListOf!vars, ListOf!loopVars, ListOf!listVars
  <2>3. [ListOf!Next]_(ListOf!vars)
    BY <2>1, <2>2, ListIsTui
  <2>4. ListOf!ListInv
    BY <1>4 DEF TuiInv
  <2>5. ListOf!ListInv'
    BY <1>2, <2>3, <2>4, ListOf!ListStep
  <2> QED
    BY <1>1, <1>4, <2>5 DEF TuiInv
<1> QED
  BY <1>3, <1>4

LEMMA TuiInductive == AllSpec => []TuiInv
BY TuiInit, TuiStep, PTL DEF AllSpec

LEMMA ListOfTui ==
  TuiInv => NothingIsStranded /\ WindowHasNoGaps /\ SelectionIsLoaded
<1>1. PanesOf!TuiAssumption /\ ListOf!TuiAssumption
  BY PartsAssumption, PanesAreTui, ListIsTui DEF PanesOf!PanesAssumption
<1>2. CASE part = "panes"
  <2>1. TuiInv => PanesOf!ListInv
    BY <1>2 DEF TuiInv, PanesOf!PanesInv
  <2> QED
    BY <1>1, <2>1, PanesOf!ListIsSound, ListPromises
<1>3. CASE part # "panes"
  <2>1. TuiInv => ListOf!ListInv
    BY <1>3 DEF TuiInv
  <2> QED
    BY <1>1, <2>1, ListOf!ListIsSound, ListPromises
<1> QED
  BY <1>2, <1>3

-----------------------------------------------------------------------------
(* What the agent has written and not yet sent on is, taken together, the  *)
(* lines of the events it has read, the last one missing while it is       *)
(* written; whatever reaches the output is the beginning of that.          *)

Objects == {"program.version", "agent.diagnostic", "binder.reply", "binder.transaction"}
Chunks  == [seq : Nat, part : Objects \cup {"end"}]

AgentTypes ==
  /\ taken \in Seq(Agent!EventKinds) /\ agentPending \in Seq(Agent!EventKinds)
  /\ output \in Seq(Chunks) /\ buffer \in Seq(Chunks)
  /\ nextSequence \in Nat /\ written \in Nat /\ object \in Objects
  /\ agentAt \in {"write", "flush", "poll", "receive", "ended"}

(* How many records have been written, and what is being written.          *)
RecordsCounted ==
  /\ agentAt # "ended" => Len(output \o buffer) = 2 * nextSequence
  /\ agentAt = "write" =>
       \/ \E n \in 1 .. 2 : /\ object = Agent!StartupEvents[n]
                            /\ nextSequence = n - 1 /\ taken = <<>>
       \/ /\ Len(taken) \in Agent!Known
          /\ object = Agent!Object(taken[Len(taken)])
          /\ nextSequence = 1 + Cardinality(Agent!Known)
  /\ agentAt \in {"flush", "poll", "receive"} => nextSequence = 2 + Cardinality(Agent!Known)
  /\ agentAt = "poll" \/ (agentAt = "receive" /\ written = 0) => buffer = <<>>

AgentInv == AgentTypes /\ RecordsCounted /\ Agent!TellsAll(output \o buffer)

LEMMA SameSize == ASSUME NEW S PROVE Agent!Cardinality(S) = Cardinality(S)
BY DEF Agent!Cardinality, Cardinality

LEMMA KnownAreFew ==
  ASSUME taken \in Seq(Agent!EventKinds)
  PROVE  /\ Agent!Known \subseteq 1 .. Len(taken)
         /\ IsFiniteSet(Agent!Known) /\ Cardinality(Agent!Known) \in Nat
<1>1. Agent!Known \subseteq 1 .. Len(taken)
  BY DEF Agent!Known
<1>2. IsFiniteSet(1 .. Len(taken))
  BY FS_Interval
<1> QED
  BY <1>1, <1>2, FS_Subset, FS_CardinalityType

(* The records of the events are numbered from 2 on, the last event's is   *)
(* the last one.                                                           *)
LEMMA NumbersInOrder ==
  ASSUME taken \in Seq(Agent!EventKinds), NEW i \in Agent!Known
  PROVE  /\ Agent!Number(i) \in 2 .. 1 + Cardinality(Agent!Known)
         /\ Agent!Number(i) = 1 + Cardinality(Agent!Known) => \A j \in Agent!Known : j <= i
<1> DEFINE upTo == {j \in Agent!Known : j <= i}
<1>1. Agent!Number(i) = 1 + Cardinality(upTo)
  BY SameSize DEF Agent!Number
<1>2. IsFiniteSet(upTo) /\ Cardinality(upTo) \in Nat /\ Cardinality(upTo) <= Cardinality(Agent!Known)
  BY KnownAreFew, FS_Subset, FS_CardinalityType
<1>3. upTo # {}
  <2>1. i \in Nat
    BY KnownAreFew
  <2> QED
    BY <2>1
<1>4. Cardinality(upTo) # 0
  BY <1>2, <1>3, FS_EmptySet
<1>5. Cardinality(upTo) = Cardinality(Agent!Known) => upTo = Agent!Known
  BY KnownAreFew, FS_Subset
<1>6. upTo = Agent!Known => \A j \in Agent!Known : j <= i
  OBVIOUS
<1> HIDE DEF upTo
<1> QED
  BY <1>1, <1>2, <1>4, <1>5, <1>6, KnownAreFew

(* The beginning of something that tells all there is does so as well.     *)
LEMMA PartsTell ==
  ASSUME NEW c \in Seq(Chunks), NEW d \in Seq(Chunks), taken \in Seq(Agent!EventKinds),
         Len(d) <= Len(c), \A k \in 1 .. Len(d) : d[k] = c[k], Agent!TellsAll(c)
  PROVE  Agent!TellsAll(d)
<1>1. ASSUME NEW n \in Nat, NEW what, Agent!Tells(c, n, what) PROVE Agent!Tells(d, n, what)
  BY <1>1 DEF Agent!Tells
<1>2. \A n \in 1 .. 2 : n - 1 \in Nat
  OBVIOUS
<1>3. \A i \in Agent!Known : Agent!Number(i) \in Nat
  BY NumbersInOrder, KnownAreFew
<1>4. Len(d) <= 2 * (2 + Cardinality(Agent!Known))
  BY KnownAreFew, SameSize DEF Agent!TellsAll
<1> QED
  BY <1>1, <1>2, <1>3, <1>4, SameSize DEF Agent!TellsAll

LEMMA WholeTells ==
  ASSUME AgentInv, NEW n \in 0 .. Len(buffer)
  PROVE  /\ output \o SubSeq(buffer, 1, n) \in Seq(Chunks)
         /\ Agent!TellsAll(output \o SubSeq(buffer, 1, n))
<1>1. SubSeq(buffer, 1, n) \in Seq(Chunks) /\ Len(SubSeq(buffer, 1, n)) = n
  BY DEF AgentInv, AgentTypes
<1>2. \A k \in 1 .. n : SubSeq(buffer, 1, n)[k] = buffer[k]
  BY DEF AgentInv, AgentTypes
<1> DEFINE d == output \o SubSeq(buffer, 1, n)
           c == output \o buffer
<1>3. d \in Seq(Chunks) /\ c \in Seq(Chunks) /\ Len(d) <= Len(c)
  BY <1>1 DEF AgentInv, AgentTypes
<1>4. ASSUME NEW k \in 1 .. Len(d) PROVE d[k] = c[k]
  BY <1>1, <1>2 DEF AgentInv, AgentTypes
<1> HIDE DEF d, c
<1>5. Agent!TellsAll(d)
  BY <1>3, <1>4, PartsTell DEF AgentInv, AgentTypes, c
<1> QED
  BY <1>3, <1>5 DEF d

(* An event more is read: the records so far stay what they are, and the   *)
(* event's own comes after them.                                           *)
LEMMA ReadingTells ==
  ASSUME AgentTypes, NEW kind \in Agent!EventKinds, taken' = Append(taken, kind),
         NEW c \in Seq(Chunks), Agent!TellsAll(c)
  PROVE  /\ Agent!TellsAll(c)'
         /\ Cardinality(Agent!Known)' =
              Cardinality(Agent!Known) +
              IF Agent!IsBinderTransaction(kind) /\ Agent!Decodes(kind) THEN 1 ELSE 0
         /\ Agent!IsBinderTransaction(kind) /\ Agent!Decodes(kind)
              => Len(taken)' \in Agent!Known' /\ taken'[Len(taken)'] = kind
<1> DEFINE K == Agent!Known
           isKnown == Agent!IsBinderTransaction(kind) /\ Agent!Decodes(kind)
<1>0. PICK new \in Nat : new = Len(taken) + 1
  BY DEF AgentTypes
<1>1. taken \in Seq(Agent!EventKinds) /\ taken' \in Seq(Agent!EventKinds) /\ Len(taken') = new
      /\ new \in Nat /\ taken'[new] = kind /\ \A i \in 1 .. Len(taken) : taken'[i] = taken[i]
  BY <1>0 DEF AgentTypes
<1>2. Agent!Known' = IF isKnown THEN K \cup {new} ELSE K
  BY <1>1 DEF Agent!Known
<1>3. new \notin K /\ \A i \in K : i < new /\ i \in 1 .. Len(taken)
  BY <1>1 DEF Agent!Known
<1>4. Cardinality(Agent!Known') = Cardinality(K) + IF isKnown THEN 1 ELSE 0
  <2>1. IsFiniteSet(K) /\ Cardinality(K) \in Nat
    BY <1>1, KnownAreFew
  <2>2. isKnown => Cardinality(K \cup {new}) = Cardinality(K) + 1
    BY <1>3, <2>1, FS_AddElement
  <2> QED
    BY <1>2, <2>1, <2>2
<1>5. ASSUME NEW i \in K PROVE Agent!Number(i)' = Agent!Number(i)
  <2>1. {j \in Agent!Known' : j <= i} = {j \in K : j <= i}
    BY <1>1, <1>2, <1>3, <1>5
  <2> QED
    BY <2>1 DEF Agent!Number
<1>6. isKnown => Agent!Number(new)' = 2 + Cardinality(K)
  <2>1. SUFFICES ASSUME isKnown PROVE Agent!Number(new)' = 2 + Cardinality(K)
    OBVIOUS
  <2>2. {j \in Agent!Known' : j <= new} = Agent!Known'
    BY <1>1, <1>2, <1>3
  <2>3. Agent!Number(new)' = 1 + Agent!Cardinality(Agent!Known')
    BY <2>2 DEF Agent!Number
  <2>4. Cardinality(K) \in Nat
    BY <1>1, KnownAreFew
  <2>5. Agent!Cardinality(Agent!Known') = Cardinality(K) + 1
    BY <1>4, <2>1, SameSize
  <2> HIDE DEF K, isKnown
  <2> QED
    BY <2>3, <2>4, <2>5
<1>7. Len(c) <= 2 * (2 + Cardinality(K)) /\ Cardinality(K) \in Nat /\ Len(c) \in Nat
  BY <1>1, KnownAreFew, SameSize DEF Agent!TellsAll
<1>8. ASSUME NEW i \in Agent!Known' PROVE Agent!Tells(c, Agent!Number(i)', Agent!Object(taken'[i]))
  <2>1. CASE i \in K
    <3>1. Agent!Tells(c, Agent!Number(i), Agent!Object(taken[i]))
      BY <2>1 DEF Agent!TellsAll
    <3> QED
      BY <1>1, <1>3, <1>5, <2>1, <3>1
  <2>2. CASE i \notin K
    <3>1. isKnown /\ i = new
      BY <1>2, <2>2
    <3>2. Agent!Number(i)' = 2 + Cardinality(K)
      <4>1. Agent!Number(new)' = 2 + Cardinality(K)
        BY <1>6, <3>1
      <4>2. Agent!Number(i)' = Agent!Number(new)'
        BY <3>1 DEF Agent!Number
      <4> QED
        BY <4>1, <4>2
    <3> QED
      BY <1>7, <3>2 DEF Agent!Tells
  <2> QED
    BY <2>1, <2>2
<1>9. Agent!TellsAll(c)'
  <2>1. Len(c) <= 2 * (2 + Cardinality(Agent!Known'))
    BY <1>4, <1>7
  <2>2. \A n \in 1 .. 2 : Agent!Tells(c, n - 1, Agent!StartupEvents[n])
    BY DEF Agent!TellsAll
  <2> QED
    BY <1>8, <2>1, <2>2, SameSize DEF Agent!TellsAll
<1> QED
  BY <1>1, <1>2, <1>4, <1>9

LEMMA LineAtTheEnd ==
  ASSUME NEW S, NEW x \in Seq(S), NEW y \in Seq(S), Len(y) = 2
  PROVE  /\ Len(x \o y) = Len(x) + 2
         /\ \A k \in 1 .. Len(x) : (x \o y)[k] = x[k]
         /\ \A k \in 1 .. 2 : (x \o y)[Len(x) + k] = y[k]
<1>1. /\ Len(x \o y) = Len(x) + Len(y)
      /\ \A i \in 1 .. Len(x) + Len(y) :
           (x \o y)[i] = IF i <= Len(x) THEN x[i] ELSE y[i - Len(x)]
  BY ConcatProperties, Zenon
<1>2. Len(x) \in Nat
  OBVIOUS
<1>3. ASSUME NEW k \in 1 .. 2 PROVE (x \o y)[Len(x) + k] = y[k]
  <2>1. Len(x) + k \in 1 .. Len(x) + 2 /\ ~(Len(x) + k <= Len(x)) /\ (Len(x) + k) - Len(x) = k
    BY <1>2
  <2> QED
    BY <1>1, <2>1
<1> QED
  BY <1>1, <1>2, <1>3

(* A line more is written: it is the one that is missing.                  *)
LEMMA WritingTells ==
  ASSUME AgentInv, agentAt = "write"
  PROVE  /\ Agent!Line(nextSequence, object) \in Seq(Chunks)
         /\ Agent!TellsAll(output \o buffer \o Agent!Line(nextSequence, object))
<1> DEFINE line == Agent!Line(nextSequence, object)
           c == output \o buffer
           d == c \o line
           K == Agent!Known
<1>1. line \in Seq(Chunks) /\ Len(line) = 2
  BY DEF Agent!Line, AgentInv, AgentTypes, Chunks
<1>2. c \in Seq(Chunks) /\ Len(c) = 2 * nextSequence /\ nextSequence \in Nat
  BY DEF AgentInv, AgentTypes, RecordsCounted
<1>3. taken \in Seq(Agent!EventKinds) /\ Cardinality(K) \in Nat
  BY KnownAreFew DEF AgentInv, AgentTypes
<1>4. /\ Len(d) = 2 * nextSequence + 2
      /\ \A k \in 1 .. Len(c) : d[k] = c[k]
      /\ \A k \in 1 .. 2 : d[2 * nextSequence + k] = line[k]
  <2> HIDE DEF c, line
  <2> QED
    BY <1>1, <1>2, LineAtTheEnd
<1>5. ASSUME NEW n \in Nat, NEW what, Agent!Tells(c, n, what), n = nextSequence => what = object
      PROVE  Agent!Tells(d, n, what)
  <2>1. ASSUME NEW k \in 1 .. 2, 2 * n + k <= Len(d) PROVE d[2 * n + k] = Agent!Line(n, what)[k]
    <3>1. CASE n < nextSequence
      <4>1. 2 * n + k \in 1 .. Len(c) /\ 2 * n + k <= Len(c)
        BY <1>2, <2>1, <3>1
      <4>2. c[2 * n + k] = Agent!Line(n, what)[k]
        BY <1>5, <2>1, <4>1 DEF Agent!Tells
      <4> QED
        BY <1>4, <4>1, <4>2
    <3>2. CASE n = nextSequence
      BY <1>4, <1>5, <2>1, <3>2
    <3>3. ~(n > nextSequence)
      <4>1. 2 * n + k <= 2 * nextSequence + 2 /\ k >= 1
        BY <1>4, <2>1
      <4> HIDE DEF d, line, c
      <4> QED
        BY <1>2, <4>1
    <3> QED
      <4>1. n < nextSequence \/ n = nextSequence
        BY <1>2, <3>3
      <4> QED
        BY <3>1, <3>2, <4>1
  <2> HIDE DEF d
  <2> QED
    BY <2>1 DEF Agent!Tells
<1>6. \A n \in 1 .. 2 : Agent!Tells(c, n - 1, Agent!StartupEvents[n])
  BY DEF AgentInv, Agent!TellsAll
<1>7. \A i \in K : Agent!Tells(c, Agent!Number(i), Agent!Object(taken[i]))
  BY DEF AgentInv, Agent!TellsAll
<1>8. \A i \in K : Agent!Number(i) \in 2 .. 1 + Cardinality(K) /\ Agent!Number(i) \in Nat
  BY <1>3, NumbersInOrder
<1>9. CASE \E n \in 1 .. 2 : /\ object = Agent!StartupEvents[n]
                             /\ nextSequence = n - 1 /\ taken = <<>>
  <2>1. PICK m \in 1 .. 2 : object = Agent!StartupEvents[m] /\ nextSequence = m - 1 /\ taken = <<>>
    BY <1>9
  <2>2. K = {}
    BY <2>1 DEF Agent!Known
  <2>3. ASSUME NEW n \in 1 .. 2 PROVE Agent!Tells(d, n - 1, Agent!StartupEvents[n])
    <3>1. n - 1 \in Nat /\ (n - 1 = nextSequence => n = m)
      BY <2>1
    <3> HIDE DEF d, c
    <3> QED
      BY <1>5, <1>6, <2>1, <3>1
  <2>4. Len(d) <= 2 * (2 + Cardinality(K))
    BY <1>3, <1>4, <2>1
  <2> HIDE DEF d, c
  <2> QED
    BY <1>1, <2>2, <2>3, <2>4, SameSize DEF Agent!TellsAll, d, c
<1>10. CASE /\ Len(taken) \in K
            /\ object = Agent!Object(taken[Len(taken)])
            /\ nextSequence = 1 + Cardinality(K)
  <2>1. ASSUME NEW n \in 1 .. 2 PROVE Agent!Tells(d, n - 1, Agent!StartupEvents[n])
    <3>1. Len(taken) \in Nat /\ Cardinality(K) # 0
      BY <1>3, <1>10, KnownAreFew, FS_EmptySet
    <3>2. n - 1 \in Nat /\ n - 1 # nextSequence
      BY <1>3, <1>10, <3>1
    <3> HIDE DEF d, c
    <3> QED
      BY <1>5, <1>6, <3>2
  <2>2. ASSUME NEW i \in K PROVE Agent!Tells(d, Agent!Number(i), Agent!Object(taken[i]))
    <3>1. Agent!Number(i) = nextSequence => i = Len(taken)
      <4>1. ASSUME Agent!Number(i) = nextSequence PROVE i = Len(taken)
        <5>1. \A j \in K : j <= i
          BY <1>3, <1>10, <4>1, NumbersInOrder
        <5>2. i \in 1 .. Len(taken) /\ Len(taken) <= i
          BY <1>3, <1>10, <5>1, KnownAreFew
        <5> QED
          BY <1>3, <5>2
      <4> QED
        BY <4>1
    <3> HIDE DEF d, c
    <3> QED
      BY <1>5, <1>7, <1>8, <1>10, <3>1
  <2>3. Len(d) <= 2 * (2 + Cardinality(K))
    BY <1>3, <1>4, <1>10
  <2> HIDE DEF d, c
  <2> QED
    BY <1>1, <2>1, <2>2, <2>3, SameSize DEF Agent!TellsAll, d, c
<1> QED
  BY <1>9, <1>10 DEF AgentInv, RecordsCounted

(* Telling is a matter of the chunks and of the events read.               *)
LEMMA TellsThen ==
  ASSUME NEW c, c = output' \o buffer', Agent!TellsAll(c)'
  PROVE  Agent!TellsAll(output \o buffer)'
BY DEF Agent!TellsAll, Agent!Tells, Agent!Known, Agent!Number

LEMMA TellsLater ==
  ASSUME NEW c, c = output' \o buffer', taken' = taken, Agent!TellsAll(c)
  PROVE  Agent!TellsAll(output \o buffer)'
<1>1. Agent!Known' = Agent!Known
  BY DEF Agent!Known
<1>2. ASSUME NEW i PROVE Agent!Number(i)' = Agent!Number(i)
  BY <1>1 DEF Agent!Number
<1>3. Agent!TellsAll(c)'
  BY <1>1, <1>2 DEF Agent!TellsAll
<1> QED
  BY <1>3, TellsThen

(* The program ends: of what was held back, and of what it was writing,    *)
(* some beginning is in the output.                                        *)
LEMMA EndingTells ==
  ASSUME AgentTypes, NEW c \in Seq(Chunks), Agent!TellsAll(output \o buffer \o c),
         NEW n \in 0 .. Len(buffer \o c)
  PROVE  /\ output \o SubSeq(buffer \o c, 1, n) \in Seq(Chunks)
         /\ Agent!TellsAll(output \o SubSeq(buffer \o c, 1, n))
<1> DEFINE b == buffer \o c
           d == output \o SubSeq(b, 1, n)
<1>1. output \in Seq(Chunks) /\ buffer \in Seq(Chunks) /\ b \in Seq(Chunks)
      /\ taken \in Seq(Agent!EventKinds)
  BY DEF AgentTypes
<1>2. output \o buffer \o c = output \o b
  BY <1>1
<1> HIDE DEF b
<1>3. SubSeq(b, 1, n) \in Seq(Chunks) /\ Len(SubSeq(b, 1, n)) = n
      /\ \A k \in 1 .. n : SubSeq(b, 1, n)[k] = b[k]
  BY <1>1 DEF b
<1>4. /\ d \in Seq(Chunks) /\ output \o b \in Seq(Chunks) /\ Len(d) <= Len(output \o b)
  BY <1>1, <1>3 DEF b
<1>5. ASSUME NEW k \in 1 .. Len(d) PROVE d[k] = (output \o b)[k]
  BY <1>1, <1>3, SMTT(30) DEF b
<1> HIDE DEF d
<1>6. Agent!TellsAll(output \o b)
  BY <1>2
<1>7. Agent!TellsAll(d)
  BY <1>1, <1>4, <1>5, <1>6, PartsTell
<1> QED
  BY <1>4, <1>7 DEF d, b

LEMMA EndsKeeps ==
  ASSUME AgentInv, NEW c \in Seq(Chunks), Agent!TellsAll(output \o buffer \o c),
         Agent!Ends(c), taken' = taken
  PROVE  /\ agentAt' = "ended" /\ output' \in Seq(Chunks) /\ buffer' \in Seq(Chunks)
         /\ Agent!TellsAll(output \o buffer)'
<1>1. PICK n \in 0 .. Len(buffer \o c) : output' = output \o SubSeq(buffer \o c, 1, n)
  BY DEF Agent!Ends
<1>2. output' \in Seq(Chunks) /\ Agent!TellsAll(output')
  BY <1>1, EndingTells DEF AgentInv
<1>3. buffer' = <<>> /\ agentAt' = "ended"
  BY DEF Agent!Ends
<1>4. output' = output' \o buffer'
  BY <1>2, <1>3
<1> QED
  BY <1>2, <1>3, <1>4, TellsLater

LEMMA AgentInit == ASSUME Agent!Init PROVE AgentInv
<1>1. Agent!Known = {} /\ taken = <<>> /\ taken \in Seq(Agent!EventKinds)
  BY DEF Agent!Init, Agent!Known
<1>2. Cardinality(Agent!Known) = 0
  BY <1>1, FS_EmptySet
<1>3. output \o buffer = <<>> /\ Len(output \o buffer) = 0
  BY DEF Agent!Init
<1>4. AgentTypes
  BY DEF AgentTypes, Agent!Init, Agent!StartupEvents, Objects
<1>5. RecordsCounted
  BY <1>1, <1>3 DEF RecordsCounted, Agent!Init
<1>6. ASSUME NEW n \in 1 .. 2 PROVE Agent!Tells(output \o buffer, n - 1, Agent!StartupEvents[n])
  BY <1>3 DEF Agent!Tells
<1>7. Agent!TellsAll(output \o buffer)
  BY <1>1, <1>2, <1>3, <1>6, SameSize DEF Agent!TellsAll
<1> QED
  BY <1>4, <1>5, <1>7 DEF AgentInv

(* What is sent on and what is kept back is, one after the other, all.     *)
LEMMA Divided ==
  ASSUME NEW S, NEW y \in Seq(S), NEW n \in 0 .. Len(y)
  PROVE  /\ SubSeq(y, 1, n) \in Seq(S) /\ SubSeq(y, n + 1, Len(y)) \in Seq(S)
         /\ SubSeq(y, 1, n) \o SubSeq(y, n + 1, Len(y)) = y
<1>1. Len(y) \in Nat /\ n \in Int /\ n + 1 \in Int /\ \A i \in 1 .. Len(y) : y[i] \in S
  OBVIOUS
<1>2. SubSeq(y, 1, n) \in Seq(S)
  BY <1>1, SubSeqProperties
<1>3. SubSeq(y, n + 1, Len(y)) \in Seq(S)
  BY <1>1, SubSeqProperties
<1>4. SubSeq(y, 1, n) \o SubSeq(y, n + 1, Len(y)) = y
  <2>1. 1 \in 1 .. Len(y) + 1 /\ n \in 1 - 1 .. Len(y) /\ Len(y) \in n .. Len(y)
    BY <1>1
  <2>2. SubSeq(y, 1, n) \o SubSeq(y, n + 1, Len(y)) = SubSeq(y, 1, Len(y))
    BY <2>1, ConcatAdjacentSubSeq, Zenon
  <2> QED
    BY <2>2, SubSeqFull
<1> QED
  BY <1>2, <1>3, <1>4

(* Writing a line: what is held back grows by it, some of it may go out.   *)
LEMMA LineIsWritten ==
  ASSUME AgentInv, Agent!WriteJsonLine PROVE AgentInv'
<1> DEFINE line == Agent!Line(nextSequence, object)
           whole == buffer \o line
<1>1. /\ agentAt = "write" /\ nextSequence' = nextSequence + 1
      /\ agentPending' = agentPending /\ taken' = taken
  BY DEF Agent!WriteJsonLine
<1>2. PICK n \in 0 .. Len(whole) : /\ output' = output \o SubSeq(whole, 1, n)
                                   /\ buffer' = SubSeq(whole, n + 1, Len(whole))
  BY DEF Agent!WriteJsonLine, Agent!Buffered
<1>3. line \in Seq(Chunks) /\ Len(line) = 2 /\ Agent!TellsAll(output \o buffer \o line)
  BY <1>1, WritingTells DEF Agent!Line
<1>4. output \in Seq(Chunks) /\ buffer \in Seq(Chunks) /\ taken \in Seq(Agent!EventKinds)
      /\ nextSequence \in Nat /\ Len(output \o buffer) = 2 * nextSequence
  BY <1>1 DEF AgentInv, AgentTypes, RecordsCounted
<1>5. whole \in Seq(Chunks)
  <2> HIDE DEF line
  <2> QED
    BY <1>3, <1>4
<1>6. output \o buffer \o line = output \o whole
  <2> HIDE DEF line
  <2> QED
    BY <1>3, <1>4
<1>7. Len(output \o buffer \o line) = 2 * nextSequence + 2
  <2>1. output \o buffer \in Seq(Chunks)
    BY <1>4
  <2> HIDE DEF line
  <2> QED
    BY <1>3, <1>4, <2>1, LineAtTheEnd, SMTT(30)
<1> HIDE DEF whole
<1>8. /\ output' \in Seq(Chunks) /\ buffer' \in Seq(Chunks)
      /\ output' \o buffer' = output \o whole
  <2> DEFINE a == SubSeq(whole, 1, n)
             b == SubSeq(whole, n + 1, Len(whole))
  <2>1. a \in Seq(Chunks) /\ b \in Seq(Chunks) /\ a \o b = whole
    BY <1>5, Divided
  <2>2. output' = output \o a /\ buffer' = b
    BY <1>2
  <2> HIDE DEF a, b
  <2>3. a \in Seq(Chunks) /\ b \in Seq(Chunks) /\ output \in Seq(Chunks)
    BY <1>4, <2>1
  <2>4. (output \o a) \o b = output \o (a \o b)
    BY <2>3
  <2> QED
    BY <2>1, <2>2, <2>3, <2>4
<1>9. Agent!TellsAll(output \o buffer)'
  <2>1. Agent!TellsAll(output \o whole)
    BY <1>3, <1>6
  <2> HIDE DEF line
  <2> QED
    BY <1>1, <1>8, <2>1, TellsLater
<1>10. Agent!Known' = Agent!Known
  BY <1>1 DEF Agent!Known
<1>11. Cardinality(Agent!Known) \in Nat /\ (taken = <<>> => Cardinality(Agent!Known) = 0)
  <2>1. taken = <<>> => Agent!Known = {}
    BY DEF Agent!Known
  <2> QED
    BY <1>4, <2>1, KnownAreFew, FS_EmptySet
<1>12. Len(output \o buffer)' = 2 * nextSequence'
  BY <1>1, <1>4, <1>6, <1>7, <1>8, SMTT(30)
<1>13. AgentTypes'
  BY <1>1, <1>4, <1>8, SMTT(30)
     DEF AgentInv, AgentTypes, Agent!WriteJsonLine, Agent!StartupEvents, Objects
<1>14. RecordsCounted'
  <2>1. CASE object = Agent!StartupEvents[1]
    <3>1. nextSequence = 0 /\ taken = <<>> /\ agentAt' = "write" /\ object' = Agent!StartupEvents[2]
      BY <1>1, <2>1
         DEF Agent!WriteJsonLine, AgentInv, RecordsCounted, Agent!StartupEvents, Agent!Object
    <3> QED
      BY <1>1, <1>12, <3>1 DEF RecordsCounted, Agent!StartupEvents
  <2>2. CASE object = Agent!StartupEvents[2]
    <3>1. nextSequence = 1 /\ taken = <<>> /\ agentAt' = "flush"
      BY <1>1, <2>2
         DEF Agent!WriteJsonLine, AgentInv, RecordsCounted, Agent!StartupEvents, Agent!Object
    <3> QED
      BY <1>1, <1>10, <1>11, <1>12, <3>1 DEF RecordsCounted
  <2>3. CASE object # Agent!StartupEvents[1] /\ object # Agent!StartupEvents[2]
    <3>1. agentAt' = "receive" /\ written' = written + 1
      BY <2>3 DEF Agent!WriteJsonLine, Agent!StartupEvents
    <3>2. nextSequence = 1 + Cardinality(Agent!Known)
      <4>1. \A k \in 1 .. 2 : object # Agent!StartupEvents[k]
        BY <2>3
      <4> QED
        BY <1>1, <4>1 DEF AgentInv, RecordsCounted
    <3>3. nextSequence' = 2 + Cardinality(Agent!Known') /\ written' # 0
      BY <1>1, <1>10, <1>11, <3>1, <3>2 DEF AgentInv, AgentTypes
    <3> QED
      BY <1>12, <3>1, <3>3 DEF RecordsCounted
  <2> QED
    BY <2>1, <2>2, <2>3
<1> QED
  BY <1>9, <1>13, <1>14 DEF AgentInv

(* An event more is read: unless it cannot be decoded, what is held back   *)
(* and what is out stay as they are.                                       *)
LEMMA EventIsRead ==
  ASSUME AgentInv, Agent!TryRecvEvent PROVE AgentInv'
<1> DEFINE kind == Head(agentPending)
           isKnown == Agent!IsBinderTransaction(kind) /\ Agent!Decodes(kind)
<1>1. /\ agentAt = "receive" /\ agentPending # <<>>
      /\ agentPending' = Tail(agentPending) /\ taken' = Append(taken, kind)
      /\ written' = written /\ nextSequence' = nextSequence
  BY DEF Agent!TryRecvEvent
<1>2. kind \in Agent!EventKinds /\ agentPending' \in Seq(Agent!EventKinds)
      /\ taken' \in Seq(Agent!EventKinds)
  BY <1>1 DEF AgentInv, AgentTypes
<1>3. output \in Seq(Chunks) /\ buffer \in Seq(Chunks) /\ output \o buffer \in Seq(Chunks)
  BY DEF AgentInv, AgentTypes
<1>4. nextSequence \in Nat /\ nextSequence = 2 + Cardinality(Agent!Known)
      /\ Len(output \o buffer) = 2 * nextSequence
  BY <1>1 DEF AgentInv, AgentTypes, RecordsCounted
<1> HIDE DEF kind
<1>5. ASSUME NEW c \in Seq(Chunks), Agent!TellsAll(c)
      PROVE  /\ Agent!TellsAll(c)'
             /\ Cardinality(Agent!Known)' = Cardinality(Agent!Known) + IF isKnown THEN 1 ELSE 0
             /\ isKnown => Len(taken)' \in Agent!Known' /\ taken'[Len(taken)'] = kind
  BY <1>1, <1>2, <1>5, ReadingTells DEF AgentInv
<1>6. Agent!TellsAll(output \o buffer)
  BY DEF AgentInv
<1>7. /\ Cardinality(Agent!Known)' = Cardinality(Agent!Known) + IF isKnown THEN 1 ELSE 0
      /\ isKnown => Len(taken)' \in Agent!Known' /\ taken'[Len(taken)'] = kind
  <2> HIDE DEF isKnown
  <2> QED
    BY <1>3, <1>5, <1>6
<1>8. CASE ~Agent!IsBinderTransaction(kind)
  <2>1. agentAt' = agentAt /\ object' = object /\ buffer' = buffer /\ output' = output
    BY <1>8 DEF Agent!TryRecvEvent, kind
  <2>2. Agent!TellsAll(output \o buffer)'
    BY <1>3, <1>5, <1>6, <2>1, TellsThen
  <2>3. AgentTypes'
    BY <1>1, <1>2, <2>1 DEF AgentInv, AgentTypes
  <2>4. Cardinality(Agent!Known)' = Cardinality(Agent!Known)
    <3>1. Cardinality(Agent!Known) \in Nat
      BY KnownAreFew DEF AgentInv, AgentTypes
    <3> QED
      BY <1>7, <1>8, <3>1
  <2>5. RecordsCounted'
    BY <1>1, <1>4, <2>1, <2>4 DEF AgentInv, RecordsCounted
  <2> QED
    BY <2>2, <2>3, <2>5 DEF AgentInv
<1>9. CASE isKnown
  <2>1. /\ agentAt' = "write" /\ object' = Agent!Object(kind)
        /\ buffer' = buffer /\ output' = output
    BY <1>9 DEF Agent!TryRecvEvent, kind
  <2>2. Agent!TellsAll(output \o buffer)'
    BY <1>3, <1>5, <1>6, <2>1, TellsThen
  <2>3. AgentTypes'
    BY <1>1, <1>2, <2>1 DEF AgentInv, AgentTypes, Objects, Agent!Object
  <2>4. Agent!Object(kind) = Agent!Object(taken[Len(taken)])'
    BY <1>7, <1>9 DEF Agent!Object
  <2>5. Cardinality(Agent!Known)' = Cardinality(Agent!Known) + 1
    BY <1>7, <1>9
  <2>6. nextSequence' = 1 + Cardinality(Agent!Known)'
    <3>1. Cardinality(Agent!Known) \in Nat
      BY KnownAreFew DEF AgentInv, AgentTypes
    <3> QED
      BY <1>1, <1>4, <2>5, <3>1
  <2>7. RecordsCounted'
    BY <1>1, <1>4, <1>7, <1>9, <2>1, <2>4, <2>6 DEF RecordsCounted
  <2> QED
    BY <2>2, <2>3, <2>7 DEF AgentInv
<1>10. CASE Agent!IsBinderTransaction(kind) /\ ~Agent!Decodes(kind)
  <2>1. Agent!Ends(<<>>) /\ object' = object
    BY <1>10 DEF Agent!TryRecvEvent, kind
  <2>2. PICK n \in 0 .. Len(buffer) : output' = output \o SubSeq(buffer, 1, n)
    <3>1. buffer \o <<>> = buffer
      BY <1>3
    <3> QED
      BY <2>1, <3>1 DEF Agent!Ends
  <2>3. agentAt' = "ended" /\ buffer' = <<>>
    BY <2>1 DEF Agent!Ends
  <2>4. PICK c : c = output \o SubSeq(buffer, 1, n)
    OBVIOUS
  <2>5. c \in Seq(Chunks) /\ Agent!TellsAll(c)
    BY <2>4, WholeTells
  <2>6. output' = c /\ output' \o buffer' = c
    BY <2>2, <2>3, <2>4, <2>5
  <2>7. Agent!TellsAll(output \o buffer)'
    BY <1>5, <2>5, <2>6, TellsThen
  <2>8. AgentTypes'
    BY <1>1, <1>2, <2>1, <2>3, <2>5, <2>6 DEF AgentInv, AgentTypes
  <2>9. RecordsCounted'
    BY <2>3 DEF RecordsCounted
  <2> QED
    BY <2>7, <2>8, <2>9 DEF AgentInv
<1> QED
  BY <1>8, <1>9, <1>10

(* Nothing is read, written or sent on.                                    *)
LEMMA NothingMoves ==
  ASSUME AgentInv, UNCHANGED <<taken, output, buffer, nextSequence, object>>,
         agentPending' \in Seq(Agent!EventKinds), written' \in Nat,
         \/ agentAt' = agentAt /\ written' = written
         \/ agentAt = "poll" /\ agentAt' = "receive"
         \/ agentAt = "receive" /\ agentAt' = IF written > 0 THEN "flush" ELSE "poll"
  PROVE  AgentInv'
<1>1. Agent!Known' = Agent!Known
  BY DEF Agent!Known
<1>2. output' \o buffer' = output \o buffer
  OBVIOUS
<1>3. Agent!TellsAll(output \o buffer)'
  BY <1>2, TellsLater DEF AgentInv
<1>4. AgentTypes'
  BY DEF AgentInv, AgentTypes
<1>5. written \in Nat
  BY DEF AgentInv, AgentTypes
<1>6. RecordsCounted'
  BY <1>1, <1>2, <1>5 DEF AgentInv, RecordsCounted
<1> QED
  BY <1>3, <1>4, <1>6 DEF AgentInv

LEMMA Beginning ==
  ASSUME NEW S, NEW x \in Seq(S), NEW y \in Seq(S), NEW z \in Seq(S), Len(z) <= Len(y),
         \A k \in 1 .. Len(z) : z[k] = y[k]
  PROVE  /\ x \o y \in Seq(S) /\ x \o z \in Seq(S) /\ Len(x \o z) <= Len(x \o y)
         /\ \A k \in 1 .. Len(x \o z) : (x \o z)[k] = (x \o y)[k]
<1>1. /\ x \o y \in Seq(S) /\ Len(x \o y) = Len(x) + Len(y)
      /\ \A i \in 1 .. Len(x) + Len(y) :
           (x \o y)[i] = IF i <= Len(x) THEN x[i] ELSE y[i - Len(x)]
  BY ConcatProperties, Zenon
<1>2. /\ x \o z \in Seq(S) /\ Len(x \o z) = Len(x) + Len(z)
      /\ \A i \in 1 .. Len(x) + Len(z) :
           (x \o z)[i] = IF i <= Len(x) THEN x[i] ELSE z[i - Len(x)]
  BY ConcatProperties, Zenon
<1>3. Len(x) \in Nat /\ Len(y) \in Nat /\ Len(z) \in Nat
  OBVIOUS
<1>4. ASSUME NEW k \in 1 .. Len(x) + Len(z)
      PROVE  (x \o z)[k] = (x \o y)[k]
  <2>1. k \in 1 .. Len(x) + Len(y)
    BY <1>3
  <2>2. CASE k <= Len(x)
    BY <1>1, <1>2, <2>1, <2>2
  <2>3. CASE ~(k <= Len(x))
    <3>1. k - Len(x) \in 1 .. Len(z)
      BY <1>3, <2>3
    <3> QED
      BY <1>1, <1>2, <2>1, <2>3, <3>1
  <2> QED
    BY <2>2, <2>3
<1>5. Len(x) + Len(z) <= Len(x) + Len(y)
  BY <1>3
<1> QED
  BY <1>1, <1>2, <1>4, <1>5

LEMMA AgentStep ==
  ASSUME AgentInv, [Agent!Next]_agentVars PROVE AgentInv'
<1>1. CASE UNCHANGED agentVars
  <2>1. agentPending' \in Seq(Agent!EventKinds) /\ written' \in Nat
    BY <1>1 DEF AgentInv, AgentTypes, agentVars
  <2> QED
    BY <1>1, <2>1, NothingMoves DEF agentVars
<1>2. ASSUME NEW kind \in Agent!EventKinds, Agent!Emit(kind) PROVE AgentInv'
  <2>1. agentPending' \in Seq(Agent!EventKinds) /\ written' \in Nat
    BY <1>2 DEF AgentInv, AgentTypes, Agent!Emit
  <2> QED
    BY <1>2, <2>1, NothingMoves DEF Agent!Emit
<1>3. CASE Agent!WriteFails
  <2>1. agentAt = "write"
    BY <1>3 DEF Agent!WriteFails
  <2> DEFINE line == Agent!Line(nextSequence, object)
             cut  == <<line[1]>>
             c == output \o buffer \o line
             d == output \o buffer \o cut
  <2>2. line \in Seq(Chunks) /\ Len(line) = 2 /\ Agent!TellsAll(c)
    BY <2>1, WritingTells DEF Agent!Line
  <2>3. output \o buffer \in Seq(Chunks)
    BY DEF AgentInv, AgentTypes
  <2> HIDE DEF line
  <2>4. /\ cut \in Seq(Chunks) /\ Len(cut) <= Len(line)
        /\ \A k \in 1 .. Len(cut) : cut[k] = line[k]
    BY <2>2
  <2>5. ASSUME NEW x \in Seq(Chunks), NEW y \in Seq(Chunks), NEW z \in Seq(Chunks),
               Len(z) <= Len(y), \A k \in 1 .. Len(z) : z[k] = y[k]
        PROVE  /\ x \o y \in Seq(Chunks) /\ x \o z \in Seq(Chunks)
               /\ Len(x \o z) <= Len(x \o y)
               /\ \A k \in 1 .. Len(x \o z) : (x \o z)[k] = (x \o y)[k]
    BY <2>5, Beginning
  <2> HIDE DEF cut
  <2>6. /\ c \in Seq(Chunks) /\ d \in Seq(Chunks) /\ Len(d) <= Len(c)
        /\ \A k \in 1 .. Len(d) : d[k] = c[k]
    BY <2>2, <2>3, <2>4, <2>5, Zenon
  <2> HIDE DEF c, d
  <2>7. Agent!TellsAll(d)
    BY <2>2, <2>6, PartsTell DEF AgentInv, AgentTypes
  <2>8. Agent!Ends(cut) /\ nextSequence' = nextSequence + 1
        /\ UNCHANGED <<agentPending, taken, object, batch, written>>
    BY <1>3 DEF Agent!WriteFails, line, cut
  <2>9. /\ agentAt' = "ended" /\ output' \in Seq(Chunks) /\ buffer' \in Seq(Chunks)
        /\ Agent!TellsAll(output \o buffer)'
    BY <2>4, <2>7, <2>8, EndsKeeps DEF d
  <2> QED
    BY <2>8, <2>9 DEF AgentInv, AgentTypes, RecordsCounted
<1>4. CASE Agent!Flush
  <2>1. /\ agentAt = "flush" /\ agentAt' = "poll" /\ buffer' = <<>> /\ output' = output \o buffer
        /\ UNCHANGED <<agentPending, taken, object, batch, written, nextSequence>>
    BY <1>4 DEF Agent!Flush
  <2>2. output' \in Seq(Chunks) /\ output' \o buffer' = output \o buffer
    BY <2>1 DEF AgentInv, AgentTypes
  <2>3. Agent!TellsAll(output \o buffer)'
    BY <2>1, <2>2, TellsLater DEF AgentInv
  <2>4. Agent!Known' = Agent!Known
    BY <2>1 DEF Agent!Known
  <2>5. AgentTypes'
    BY <2>1, <2>2 DEF AgentInv, AgentTypes
  <2>6. RecordsCounted'
    BY <2>1, <2>2, <2>4 DEF AgentInv, RecordsCounted
  <2> QED
    BY <2>3, <2>5, <2>6 DEF AgentInv
<1>5. CASE Agent!FlushFails \/ Agent!SourceFails
  <2>1. Agent!Ends(<<>>) /\ UNCHANGED <<agentPending, taken, object, batch, written, nextSequence>>
    BY <1>5 DEF Agent!FlushFails, Agent!SourceFails
  <2>2. <<>> \in Seq(Chunks) /\ output \o buffer \o <<>> = output \o buffer
    BY DEF AgentInv, AgentTypes
  <2>3. /\ agentAt' = "ended" /\ output' \in Seq(Chunks) /\ buffer' \in Seq(Chunks)
        /\ Agent!TellsAll(output \o buffer)'
    BY <2>1, <2>2, EndsKeeps DEF AgentInv
  <2> QED
    BY <2>1, <2>3 DEF AgentInv, AgentTypes, RecordsCounted
<1>6. CASE Agent!PollEvent
  BY <1>6, NothingMoves DEF Agent!PollEvent, AgentInv, AgentTypes
<1>7. CASE Agent!BatchEnds
  BY <1>7, NothingMoves DEF Agent!BatchEnds, AgentInv, AgentTypes
<1>8. CASE Agent!Kill
  <2>1. /\ agentAt' = "ended" /\ buffer' = <<>>
        /\ UNCHANGED <<agentPending, taken, object, batch, written, nextSequence, output>>
    BY <1>8 DEF Agent!Kill
  <2>2. output \in Seq(Chunks) /\ output' \o buffer' = output
    BY <2>1 DEF AgentInv, AgentTypes
  <2>3. Agent!TellsAll(output)
    <3>1. output \o SubSeq(buffer, 1, 0) = output /\ 0 \in 0 .. Len(buffer)
      BY DEF AgentInv, AgentTypes
    <3> QED
      BY <3>1, WholeTells
  <2>4. Agent!TellsAll(output \o buffer)'
    BY <2>1, <2>2, <2>3, TellsLater
  <2> QED
    BY <2>1, <2>4 DEF AgentInv, AgentTypes, RecordsCounted
<1> QED
  BY <1>1, <1>2, <1>3, <1>4, <1>5, <1>6, <1>7, <1>8, LineIsWritten, EventIsRead DEF Agent!Next

LEMMA AgentIsSound == ASSUME AgentInv PROVE Agent!RecordsAreWhole
<1>1. Agent!TellsAll(output)
  <2>1. output \o SubSeq(buffer, 1, 0) = output /\ 0 \in 0 .. Len(buffer)
    BY DEF AgentInv, AgentTypes
  <2> QED
    BY <2>1, WholeTells
<1>2. ASSUME agentAt = "poll" PROVE Len(output) = 2 * (2 + Cardinality(Agent!Known))
  <2>1. output \o buffer = output
    BY <1>2 DEF AgentInv, AgentTypes, RecordsCounted
  <2> QED
    BY <1>2, <2>1 DEF AgentInv, RecordsCounted
<1> QED
  BY <1>1, <1>2, SameSize DEF Agent!RecordsAreWhole

-----------------------------------------------------------------------------
(* The keyboard: where a byte stands in its key, and what the parser has   *)
(* of the key then.                                                        *)
PlainBytes == {"q", "ctrlc", "space", "c", "tab"}
Final      == {"A", "B", "H", "F", "5", "6", "1", "4"}
Octets     == Typed \cup PlainBytes \cup Final \cup {"esc", "[", "O", "~"}
Commands   == {"quit", "space", "clear", "next", "up", "down", "pageup", "pagedown", "home", "end"}

(* The third byte says which command an escape sequence is.                *)
Meaning(byte) ==
  IF byte = "A" THEN "up" ELSE IF byte = "B" THEN "down"
  ELSE IF byte = "5" THEN "pageup" ELSE IF byte = "6" THEN "pagedown"
  ELSE IF byte \in {"H", "1"} THEN "home" ELSE "end"

EscapeShaped(e) ==
  /\ e.bytes \in Seq(Octets) /\ Len(e.bytes) \in {3, 4}
  /\ e.bytes[1] = "esc" /\ e.bytes[2] \in {"[", "O"} /\ e.bytes[3] \in Final
  /\ Len(e.bytes) = 4 <=> e.bytes[3] \in {"5", "6", "1", "4"}
  /\ Len(e.bytes) = 4 => e.bytes[4] = "~"
  /\ e.command = Meaning(e.bytes[3]) /\ e.command \in Commands

LEMMA EscapesAreShaped == \A e \in Input!EscapeCommands : EscapeShaped(e)
<1>1. ASSUME NEW a \in {"[", "O"}, NEW b \in {"A", "B", "H", "F"}
      PROVE  EscapeShaped([bytes |-> <<"esc", a, b>>, command |-> Meaning(b)])
  <2>1. Meaning(b) \in Commands
    BY DEF Meaning, Commands
  <2>2. "esc" \in Octets /\ a \in Octets /\ b \in Octets
    BY DEF Octets, Final
  <2>3. <<"esc", a, b>> \in Seq(Octets)
    BY <2>2
  <2> QED
    BY <2>1, <2>3 DEF EscapeShaped, Final
<1>2. ASSUME NEW b \in {"5", "6", "1", "4"}
      PROVE  EscapeShaped([bytes |-> <<"esc", "[", b, "~">>, command |-> Meaning(b)])
  <2>1. Meaning(b) \in Commands
    BY DEF Meaning, Commands
  <2>2. "esc" \in Octets /\ "[" \in Octets /\ b \in Octets /\ "~" \in Octets
    BY DEF Octets, Final
  <2>3. <<"esc", "[", b, "~">> \in Seq(Octets)
    BY <2>2
  <2> QED
    BY <2>1, <2>3 DEF EscapeShaped, Final
<1>3. ASSUME NEW e \in Input!EscapeCommands
      PROVE  \/ \E a \in {"[", "O"} : \E b \in {"A", "B", "H", "F"} :
                  e = [bytes |-> <<"esc", a, b>>, command |-> Meaning(b)]
             \/ \E b \in {"5", "6", "1", "4"} :
                  e = [bytes |-> <<"esc", "[", b, "~">>, command |-> Meaning(b)]
  <2>1. Meaning("A") = "up" /\ Meaning("B") = "down" /\ Meaning("H") = "home" /\ Meaning("F") = "end"
    BY DEF Meaning
  <2>2. /\ Meaning("5") = "pageup" /\ Meaning("6") = "pagedown"
        /\ Meaning("1") = "home" /\ Meaning("4") = "end"
    BY DEF Meaning
  <2> QED
    BY <2>1, <2>2, ZenonT(30) DEF Input!EscapeCommands
<1> QED
  BY <1>1, <1>2, <1>3

LEMMA PlainShape ==
  /\ DOMAIN Input!PlainCommands = PlainBytes
  /\ \A b \in PlainBytes : Input!PlainCommands[b] \in Commands
  /\ Input!None \notin Commands /\ "esc" \notin Commands
BY DEF Input!PlainCommands, PlainBytes, Commands, Input!None

(* A proper beginning of an escape sequence is no command.                 *)
LEMMA BeginningsWait ==
  ASSUME NEW e \in Input!EscapeCommands, NEW n \in 1 .. Len(e.bytes) - 1
  PROVE  /\ Input!EscapeToCommand(SubSeq(e.bytes, 1, n)) = Input!None
         /\ Input!IsEscapePrefix(SubSeq(e.bytes, 1, n))
<1> DEFINE t == SubSeq(e.bytes, 1, n)
<1>1. EscapeShaped(e)
  BY EscapesAreShaped
<1>2. Len(t) = n /\ \A i \in 1 .. n : t[i] = e.bytes[i]
  BY <1>1 DEF EscapeShaped
<1>3. ASSUME NEW f \in Input!EscapeCommands PROVE f.bytes # t
  <2>1. EscapeShaped(f)
    BY EscapesAreShaped
  <2>2. SUFFICES ASSUME f.bytes = t PROVE FALSE
    OBVIOUS
  <2>3. Len(f.bytes) = 3 /\ n = 3 /\ Len(e.bytes) = 4
    BY <1>1, <1>2, <2>1, <2>2 DEF EscapeShaped
  <2>4. f.bytes[3] = e.bytes[3]
    BY <1>2, <2>2, <2>3
  <2> QED
    BY <1>1, <2>1, <2>3, <2>4 DEF EscapeShaped
<1>4. Input!IsPrefix(t, e.bytes)
  <2>1. SubSeq(t, 1, Len(t)) = t /\ SubSeq(e.bytes, 1, Len(t)) = t
    BY <1>1, <1>2 DEF EscapeShaped
  <2> QED
    BY <1>1, <1>2, <2>1 DEF EscapeShaped, Input!IsPrefix
<1> QED
  BY <1>3, <1>4 DEF Input!EscapeToCommand, Input!IsEscapePrefix

LEMMA SequencesMean ==
  ASSUME NEW e \in Input!EscapeCommands
  PROVE  Input!EscapeToCommand(e.bytes) = e.command
<1> DEFINE c == CHOOSE f \in Input!EscapeCommands : f.bytes = e.bytes
<1>1. c \in Input!EscapeCommands /\ c.bytes = e.bytes
  OBVIOUS
<1>2. EscapeShaped(c) /\ EscapeShaped(e)
  BY <1>1, EscapesAreShaped
<1>3. c.command = e.command
  BY <1>1, <1>2 DEF EscapeShaped
<1> QED
  BY <1>3 DEF Input!EscapeToCommand

(* After a lone escape nothing but [ and O begins a sequence.              *)
LEMMA EscapeSwallows ==
  ASSUME NEW byte \in Octets, byte \notin {"[", "O"}
  PROVE  Input!Push(<<"esc">>, byte) = [escape |-> <<>>, command |-> Input!None]
<1> DEFINE t == Append(<<"esc">>, byte)
<1>1. <<"esc">> \in Seq(Octets)
  BY DEF Octets
<1>2. Len(t) = 2 /\ t[2] = byte /\ t \in Seq(Octets)
  BY <1>1
<1> HIDE DEF t
<1>3. ASSUME NEW e \in Input!EscapeCommands
      PROVE  e.bytes # t /\ ~Input!IsPrefix(t, e.bytes)
  <2>1. EscapeShaped(e)
    BY EscapesAreShaped
  <2>2. e.bytes # t
    BY <1>2, <2>1 DEF EscapeShaped
  <2>3. Input!IsPrefix(t, e.bytes) => e.bytes[2] = t[2]
    <3>1. SubSeq(t, 1, 2)[2] = t[2]
      BY <1>2
    <3>2. SubSeq(e.bytes, 1, 2)[2] = e.bytes[2]
      BY <2>1 DEF EscapeShaped
    <3> QED
      BY <1>2, <3>1, <3>2 DEF Input!IsPrefix
  <2> QED
    BY <1>2, <2>1, <2>2, <2>3 DEF EscapeShaped
<1>4. Input!EscapeToCommand(t) = Input!None /\ ~Input!IsEscapePrefix(t)
  BY <1>3 DEF Input!EscapeToCommand, Input!IsEscapePrefix
<1> QED
  BY <1>4 DEF Input!Push, t

(* What a key may send.                                                    *)
Pressed(p) == p.name \in Typed /\ p.bytes \in Input!Bytes(p.name)

LEMMA KeysAreShaped ==
  ASSUME NEW p, Pressed(p), Input!KeysAssumption
  PROVE  /\ p.bytes \in Seq(Octets) /\ Len(p.bytes) > 0
         /\ p.bytes[1] \notin {"[", "O"}
         /\ \/ \E e \in Input!EscapeCommands : e.bytes = p.bytes /\ e.command = p.name
            \/ /\ Len(p.bytes) = 1 /\ p.bytes[1] \in PlainBytes
               /\ Input!PlainCommands[p.bytes[1]] = p.name
            \/ /\ Len(p.bytes) = 1 /\ p.bytes[1] = p.name /\ p.name \notin PlainBytes
               /\ ~Input!IsCommand(p.name)
<1>1. CASE ~Input!IsCommand(p.name)
  <2>1. p.bytes = <<p.name>>
    BY <1>1 DEF Pressed, Input!Bytes
  <2>2. p.name \in Octets
    BY DEF Pressed, Octets
  <2>3. p.name \notin PlainBytes \cup {"[", "O"}
    BY <1>1, PlainShape DEF Pressed, Input!KeysAssumption
  <2> QED
    BY <1>1, <2>1, <2>2, <2>3
<1>2. CASE \E e \in Input!EscapeCommands : e.bytes = p.bytes /\ e.command = p.name
  <2> PICK e \in Input!EscapeCommands : e.bytes = p.bytes /\ e.command = p.name
    BY <1>2
  <2>1. EscapeShaped(e)
    BY EscapesAreShaped
  <2> QED
    BY <1>2, <2>1 DEF EscapeShaped
<1>3. CASE \E b \in PlainBytes : p.bytes = <<b>> /\ Input!PlainCommands[b] = p.name
  <2> PICK b \in PlainBytes : p.bytes = <<b>> /\ Input!PlainCommands[b] = p.name
    BY <1>3
  <2>1. b \in Octets /\ b \notin {"[", "O"}
    BY DEF Octets, PlainBytes
  <2> QED
    BY <2>1
<1>4. Input!IsCommand(p.name) =>
        \/ \E e \in Input!EscapeCommands : e.bytes = p.bytes /\ e.command = p.name
        \/ \E b \in PlainBytes : p.bytes = <<b>> /\ Input!PlainCommands[b] = p.name
  BY PlainShape DEF Pressed, Input!Bytes
<1> QED
  BY <1>1, <1>2, <1>3, <1>4

Place == [key : Nat \ {0}, at : Nat \ {0}]

PlaceOk(p) == p \in Place /\ p.key <= Len(keys) /\ p.at <= Len(keys[p.key].bytes)

Follows(p) ==
  IF p.at < Len(keys[p.key].bytes) THEN [key |-> p.key, at |-> p.at + 1]
  ELSE [key |-> p.key + 1, at |-> 1]

(* The bytes that have not been read; after them comes the next key.       *)
Line  == tty \o wire
At(i) == IF i <= Len(Line) THEN Line[i] ELSE [key |-> Len(keys) + 1, at |-> 1]

LineOk ==
  /\ tty \in Seq(Place) /\ wire \in Seq(Place)
  /\ \A i \in 1 .. Len(Line) : PlaceOk(Line[i]) /\ Follows(Line[i]) = At(i + 1)

KeysOk ==
  /\ keys \in Seq([name : Typed, bytes : Seq(Octets)])
  /\ \A k \in 1 .. Len(keys) : Pressed(keys[k])

Swallowed(k) == k > 1 /\ keys[k - 1].name = "esc"
Lost(k)      == k \in dropped \/ Swallowed(k)

(* What its key has sent before the byte at p.                             *)
Sent(p) == SubSeq(keys[p.key].bytes, 1, p.at - 1)

(* The parser's bytes, when the next one is that at p: none, between keys  *)
(* or in one that is lost; a lone escape; or what the key has sent so far. *)
Fits(sofar, p) ==
  \/ sofar = <<>> /\ (p.at = 1 \/ Lost(p.key))
  \/ sofar = <<"esc">> /\ p.at = 1 /\ Swallowed(p.key)
  \/ p.at > 1 /\ sofar = Sent(p)

Accounted(k) ==
  Input!IsCommand(keys[k].name) => Lost(k) \/ \E i \in DOMAIN done : done[i].key = k

DoneOk ==
  /\ done \in Seq([command : Commands, key : Nat \ {0}])
  /\ \A i \in 1 .. Len(done) :
       /\ done[i].key < At(1).key
       /\ keys[done[i].key].name = done[i].command
       /\ i > 1 => done[i - 1].key < done[i].key

InputInv ==
  /\ KeysOk /\ LineOk /\ DoneOk
  /\ Fits(escape, At(1))
  /\ \A k \in 1 .. At(1).key - 1 : Accounted(k)

(* One byte: it completes the command of its key, or the parser fits to    *)
(* the next place.                                                         *)
LEMMA OneByte ==
  ASSUME Input!KeysAssumption, KeysOk, NEW p, PlaceOk(p), NEW sofar, Fits(sofar, p),
         NEW r, r = Input!Push(sofar, Input!Byte(p))
  PROVE  IF r.command = Input!None
         THEN Fits(r.escape, Follows(p)) /\ (Follows(p).key # p.key => Accounted(p.key))
         ELSE /\ r.escape = <<>> /\ Follows(p) = [key |-> p.key + 1, at |-> 1]
              /\ r.command = keys[p.key].name /\ r.command \in Commands
<1> DEFINE key == keys[p.key]
           byte == key.bytes[p.at]
           out == IF r.command = Input!None
                  THEN Fits(r.escape, Follows(p)) /\ (Follows(p).key # p.key => Accounted(p.key))
                  ELSE /\ r.escape = <<>> /\ Follows(p) = [key |-> p.key + 1, at |-> 1]
                       /\ r.command = keys[p.key].name /\ r.command \in Commands
<1>0. p.key \in 1 .. Len(keys) /\ p.at \in 1 .. Len(key.bytes) /\ Input!Byte(p) = byte
  BY DEF PlaceOk, Place, Input!Byte
<1>1. /\ key.bytes \in Seq(Octets) /\ Len(key.bytes) > 0
      /\ key.bytes[1] \notin {"[", "O"}
      /\ \/ \E e \in Input!EscapeCommands : e.bytes = key.bytes /\ e.command = key.name
         \/ /\ Len(key.bytes) = 1 /\ key.bytes[1] \in PlainBytes
            /\ Input!PlainCommands[key.bytes[1]] = key.name
         \/ /\ Len(key.bytes) = 1 /\ key.bytes[1] = key.name /\ key.name \notin PlainBytes
            /\ ~Input!IsCommand(key.name)
  BY <1>0, KeysAreShaped DEF KeysOk
<1>2. /\ Len(key.bytes) \in Nat /\ p.at \in Nat /\ p.key \in Nat
      /\ 1 <= p.at /\ p.at <= Len(key.bytes)
  <2>1. Len(key.bytes) \in Nat
    BY <1>1
  <2>2. p \in Place
    BY DEF PlaceOk
  <2> QED
    BY <1>0, <2>1, <2>2 DEF Place
<1>7. p.at > 1 => \E e \in Input!EscapeCommands : e.bytes = key.bytes /\ e.command = key.name
  <2>1. p.at > 1 => Len(key.bytes) # 1
    <3> DEFINE place == p.at
               len == Len(key.bytes)
    <3>1. place \in Nat /\ len \in Nat /\ place <= len
      BY <1>2
    <3> HIDE DEF place, len
    <3>2. place > 1 => len # 1
      BY <3>1
    <3> QED
      BY <3>2 DEF place, len
  <2> QED
    BY <1>1, <2>1
<1>3. CASE sofar = <<>> /\ p.at = 1
  <2>1. r = [escape  |-> IF byte = "esc" THEN <<"esc">> ELSE <<>>,
             command |-> IF byte \in PlainBytes THEN Input!PlainCommands[byte] ELSE Input!None]
    BY <1>0, <1>3, PlainShape DEF Input!Push
  <2>2. CASE \E e \in Input!EscapeCommands : e.bytes = key.bytes /\ e.command = key.name
    <3> PICK e \in Input!EscapeCommands : e.bytes = key.bytes /\ e.command = key.name
      BY <2>2
    <3>1. byte = "esc" /\ Len(key.bytes) >= 3
      BY <1>3, EscapesAreShaped DEF EscapeShaped
    <3>2. r = [escape |-> <<"esc">>, command |-> Input!None]
      BY <2>1, <3>1 DEF PlainBytes
    <3>3. Follows(p) = [key |-> p.key, at |-> 2]
      BY <1>2, <1>3, <3>1 DEF Follows
    <3>4. SubSeq(key.bytes, 1, 1) = <<"esc">>
      <4> DEFINE t == SubSeq(key.bytes, 1, 1)
      <4>1. t \in Seq(Octets) /\ Len(t) = 1 /\ t[1] = "esc"
        BY <1>1, <1>2, <1>3, <3>1
      <4> HIDE DEF t
      <4>2. t = <<t[1]>>
        BY <4>1
      <4> QED
        BY <4>1, <4>2 DEF t
    <3>5. Sent([key |-> p.key, at |-> 2]) = <<"esc">>
      BY <3>4, 2 - 1 = 1 DEF Sent
    <3>6. Follows(p).at > 1 /\ Sent(Follows(p)) = <<"esc">>
      BY <3>3, <3>5
    <3> QED
      BY <3>2, <3>3, <3>6 DEF Fits
  <2>3. CASE Len(key.bytes) = 1 /\ byte \in PlainBytes /\ Input!PlainCommands[byte] = key.name
    <3>1. r = [escape |-> <<>>, command |-> key.name]
      BY <2>1, <2>3 DEF PlainBytes
    <3>2. key.name \in Commands /\ key.name # Input!None
      BY <2>3, PlainShape
    <3>3. Follows(p) = [key |-> p.key + 1, at |-> 1]
      BY <1>3, <2>3 DEF Follows
    <3> QED
      BY <3>1, <3>2, <3>3
  <2>4. CASE Len(key.bytes) = 1 /\ byte = key.name /\ key.name \notin PlainBytes /\ ~Input!IsCommand(key.name)
    <3>1. r = [escape |-> IF key.name = "esc" THEN <<"esc">> ELSE <<>>, command |-> Input!None]
      BY <2>1, <2>4
    <3>2. Follows(p) = [key |-> p.key + 1, at |-> 1]
      BY <1>3, <2>4 DEF Follows
    <3>3. p.key + 1 > 1 /\ (p.key + 1) - 1 = p.key
      BY <1>0, <1>2
    <3>4. key.name = "esc" => Swallowed(p.key + 1)
      BY <3>3 DEF Swallowed
    <3>5. Fits(r.escape, Follows(p))
      BY <3>1, <3>2, <3>4 DEF Fits
    <3> QED
      BY <2>4, <3>1, <3>5 DEF Accounted
  <2> QED
    BY <1>1, <1>3, <2>2, <2>3, <2>4
<1>4. CASE sofar = <<>> /\ p.at # 1 /\ Lost(p.key)
  <2> PICK e \in Input!EscapeCommands : e.bytes = key.bytes /\ e.command = key.name
    BY <1>2, <1>4, <1>7
  <2>1. byte \in {"[", "O", "~"} \cup Final
    <3>1. EscapeShaped(e)
      BY EscapesAreShaped
    <3>2. Len(key.bytes) = 3 \/ Len(key.bytes) = 4
      BY <3>1 DEF EscapeShaped
    <3>3. p.at \in {2, 3, 4} /\ (p.at = 4 => Len(key.bytes) = 4)
      <4> DEFINE place == p.at
                 len == Len(key.bytes)
      <4>1. place \in Nat /\ 1 <= place /\ place # 1 /\ place <= len /\ (len = 3 \/ len = 4)
        BY <1>2, <1>4, <3>2
      <4> HIDE DEF place, len
      <4>2. place \in {2, 3, 4} /\ (place = 4 => len = 4)
        BY <4>1
      <4> QED
        BY <4>2 DEF place, len
    <3> QED
      BY <3>1, <3>3 DEF EscapeShaped
  <2>2. r = [escape |-> <<>>, command |-> Input!None]
    BY <1>0, <1>4, <2>1, PlainShape DEF Input!Push, PlainBytes, Final
  <2>3. Follows(p).at = 1 \/ Follows(p).key = p.key
    BY DEF Follows
  <2> QED
    BY <1>4, <2>2, <2>3 DEF Fits, Accounted
<1>5. CASE sofar = <<"esc">> /\ p.at = 1 /\ Swallowed(p.key)
  <2>1. r = [escape |-> <<>>, command |-> Input!None]
    BY <1>0, <1>1, <1>5, EscapeSwallows
  <2>2. Follows(p).at = 1 \/ Follows(p).key = p.key
    BY DEF Follows
  <2> QED
    BY <1>5, <2>1, <2>2 DEF Fits, Accounted, Lost
<1>6. CASE p.at > 1 /\ sofar = SubSeq(key.bytes, 1, p.at - 1)
  <2> PICK e \in Input!EscapeCommands : e.bytes = key.bytes /\ e.command = key.name
    BY <1>6, <1>7, SMTT(30)
  <2>1. Append(sofar, byte) = SubSeq(key.bytes, 1, p.at)
    <3>1. key.bytes \in Seq(Octets) /\ 1 \in 1 .. Len(key.bytes) /\ p.at \in 1 .. Len(key.bytes)
      BY <1>0, <1>1, <1>2
    <3>2. SubSeq(key.bytes, 1, p.at) = SubSeq(key.bytes, 1, p.at - 1) \o <<key.bytes[p.at]>>
      BY <3>1, SubSeqRecursiveSecond
    <3>3. sofar \in Seq(Octets) /\ byte \in Octets
      BY <1>2, <1>6, <3>1, SubSeqProperties, ElementOfSeq
    <3>4. Append(sofar, byte) = sofar \o <<byte>>
      BY <3>3, AppendIsConcat
    <3> QED
      BY <1>6, <3>2, <3>4
  <2>2. sofar # <<>>
    <3>1. \A i \in 1 .. p.at - 1 : key.bytes[i] \in Octets
      BY <1>1, <1>2, ElementOfSeq
    <3>2. Len(SubSeq(key.bytes, 1, p.at - 1)) = IF 1 <= p.at - 1 THEN (p.at - 1) - 1 + 1 ELSE 0
      BY <1>2, <3>1, SubSeqProperties
    <3>3. Len(sofar) # 0 /\ Len(<<>>) = 0
      BY <1>2, <1>6, <3>2
    <3> QED
      BY <3>3
  <2>3. CASE p.at < Len(key.bytes)
    <3>1. /\ Input!EscapeToCommand(SubSeq(key.bytes, 1, p.at)) = Input!None
          /\ Input!IsEscapePrefix(SubSeq(key.bytes, 1, p.at))
      BY <1>0, <1>2, <2>3, BeginningsWait
    <3>2. r = [escape |-> SubSeq(key.bytes, 1, p.at), command |-> Input!None]
      BY <1>0, <2>1, <2>2, <3>1 DEF Input!Push
    <3>3. Follows(p) = [key |-> p.key, at |-> p.at + 1] /\ (p.at + 1) - 1 = p.at /\ p.at + 1 > 1
      BY <1>2, <1>6, <2>3 DEF Follows
    <3>4. Sent([key |-> p.key, at |-> p.at + 1]) = SubSeq(key.bytes, 1, p.at)
      BY <3>3 DEF Sent
    <3>5. Follows(p).at > 1 /\ Sent(Follows(p)) = SubSeq(key.bytes, 1, p.at)
      BY <3>3, <3>4
    <3> QED
      BY <3>2, <3>3, <3>5 DEF Fits
  <2>4. CASE p.at = Len(key.bytes)
    <3>1. SubSeq(key.bytes, 1, p.at) = key.bytes
      BY <1>1, <2>4
    <3>2. Input!EscapeToCommand(key.bytes) = key.name
      BY SequencesMean
    <3>3. key.name \in Commands /\ key.name # Input!None
      BY EscapesAreShaped, PlainShape DEF EscapeShaped
    <3>4. r = [escape |-> <<>>, command |-> key.name]
      BY <1>0, <2>1, <2>2, <3>1, <3>2, <3>3 DEF Input!Push
    <3>5. Follows(p) = [key |-> p.key + 1, at |-> 1]
      BY <1>2, <2>4 DEF Follows
    <3> QED
      BY <3>3, <3>4, <3>5
  <2> QED
    BY <1>2, <2>3, <2>4
<1> QED
  BY <1>3, <1>4, <1>5, <1>6 DEF Fits, Sent

LEMMA LineIsBoth ==
  ASSUME LineOk, KeysOk
  PROVE  /\ Line \in Seq(Place) /\ Len(Line) = Len(tty) + Len(wire)
         /\ \A i \in 1 .. Len(tty) : Line[i] = tty[i]
         /\ \A i \in 1 .. Len(wire) : Line[Len(tty) + i] = wire[i]
         /\ \A i \in Nat \ {0} : At(i) \in Place
<1>1. /\ Line \in Seq(Place) /\ Len(Line) = Len(tty) + Len(wire)
      /\ \A i \in 1 .. Len(tty) : Line[i] = tty[i]
      /\ \A i \in 1 .. Len(wire) : Line[Len(tty) + i] = wire[i]
  BY DEF LineOk, Line
<1>2. ASSUME NEW i \in Nat \ {0} PROVE At(i) \in Place
  <2>1. Len(keys) \in Nat
    BY DEF KeysOk
  <2>2. CASE i <= Len(Line)
    <3>1. i \in 1 .. Len(Line)
      BY <1>1, <2>2
    <3> QED
      BY <1>1, <2>2, <3>1 DEF At
  <2>3. CASE ~(i <= Len(Line))
    BY <2>1, <2>3 DEF At, Place
  <2> QED
    BY <2>2, <2>3
<1> QED
  BY <1>1, <1>2

(* How far a read has come after m bytes: it fits to the next place, or    *)
(* has a command, and the keys after that have lost a byte.                *)
ReadOk(s, m) ==
  /\ At(1).key <= At(m + 1).key
  /\ s.command = Input!None =>
       /\ s.used = m /\ Fits(s.escape, At(m + 1))
       /\ \A k \in 1 .. At(m + 1).key - 1 : Accounted(k)
  /\ s.command # Input!None =>
       /\ s.used \in 1 .. m /\ s.escape = <<>> /\ s.command \in Commands
       /\ At(1).key <= tty[s.used].key /\ tty[s.used].key < At(m + 1).key
       /\ keys[tty[s.used].key].name = s.command
       /\ \A k \in 1 .. tty[s.used].key - 1 : Accounted(k)
       /\ \A k \in tty[s.used].key + 1 .. At(m + 1).key - 1 : \E i \in s.used + 1 .. m : tty[i].key = k
       /\ At(m + 1).at = 1 \/ \E i \in s.used + 1 .. m : tty[i].key = At(m + 1).key

ParserAfter(s, m) ==
  IF s.command # Input!None THEN s
  ELSE LET p == Input!Push(s.escape, Input!Byte(tty[m]))
       IN  [escape |-> p.escape, command |-> p.command, used |-> m]

LEMMA ReadByte ==
  ASSUME Input!KeysAssumption, KeysOk, LineOk, NEW m \in Nat, m < Len(tty), NEW s, ReadOk(s, m)
  PROVE  ReadOk(ParserAfter(s, m + 1), m + 1)
<1> DEFINE p == tty[m + 1]
           next == At(m + 1 + 1)
           t == ParserAfter(s, m + 1)
<1>1. /\ m + 1 \in 1 .. Len(tty) /\ m + 1 \in 1 .. Len(Line) /\ At(m + 1) = p
      /\ Len(tty) \in Nat /\ Len(wire) \in Nat
  BY LineIsBoth DEF At, LineOk
<1>2. PlaceOk(p) /\ Follows(p) = next
  <2>1. PlaceOk(Line[m + 1]) /\ Follows(Line[m + 1]) = next
    BY <1>1 DEF LineOk
  <2>2. Line[m + 1] = p
    BY <1>1, LineIsBoth
  <2> QED
    BY <2>1, <2>2
<1>3. next \in Place /\ p \in Place /\ At(1) \in Place
  BY <1>1, LineIsBoth
<1>4. \/ next.key = p.key
      \/ next.key = p.key + 1 /\ next.at = 1
  BY <1>2 DEF Follows
<1>5. /\ next.key \in Nat \ {0} /\ p.key \in Nat \ {0} /\ At(1).key \in Nat \ {0}
      /\ At(1).key <= p.key /\ p.key <= next.key
  BY <1>1, <1>3, <1>4 DEF Place, ReadOk
<1>6. CASE s.command = Input!None
  <2> DEFINE r == Input!Push(s.escape, Input!Byte(p))
  <2>1. t = [escape |-> r.escape, command |-> r.command, used |-> m + 1]
    BY <1>6 DEF ParserAfter
  <2>2. Fits(s.escape, p) /\ \A k \in 1 .. p.key - 1 : Accounted(k)
    BY <1>1, <1>6 DEF ReadOk
  <2>3. IF r.command = Input!None
        THEN Fits(r.escape, Follows(p)) /\ (Follows(p).key # p.key => Accounted(p.key))
        ELSE /\ r.escape = <<>> /\ Follows(p) = [key |-> p.key + 1, at |-> 1]
             /\ r.command = keys[p.key].name /\ r.command \in Commands
    BY <1>2, <2>2, OneByte
  <2> HIDE DEF r, next, t, p
  <2>4. CASE r.command = Input!None
    <3>1. ASSUME NEW k \in 1 .. next.key - 1 PROVE Accounted(k)
      <4>1. CASE k = p.key
        BY <1>2, <2>3, <2>4, <4>1, <1>5
      <4>2. CASE k # p.key
        BY <1>4, <1>5, <2>2, <4>2
      <4> QED
        BY <4>1, <4>2
    <3>2. t.command = Input!None /\ t.used = m + 1 /\ Fits(t.escape, next) /\ At(1).key <= next.key
      BY <1>2, <1>5, <2>1, <2>3, <2>4
    <3>3. ReadOk(t, m + 1)
      BY <3>1, <3>2 DEF ReadOk, next
    <3> QED
      BY <3>3 DEF t
  <2>5. CASE r.command # Input!None
    <3>1. /\ t.command = r.command /\ t.used = m + 1 /\ t.escape = <<>> /\ tty[t.used] = p
          /\ t.command = keys[p.key].name /\ t.command \in Commands
      BY <2>1, <2>3, <2>5 DEF p
    <3>2. next.key = p.key + 1 /\ next.at = 1
      BY <1>2, <2>3, <2>5
    <3>3. t.used \in 1 .. m + 1
      BY <1>1, <3>1
    <3>4. \A k \in p.key + 1 .. next.key - 1 : FALSE
      BY <1>5, <3>2
    <3>5. p.key < next.key /\ At(1).key <= next.key
      BY <1>5, <3>2
    <3>6. ReadOk(t, m + 1)
      BY <1>5, <2>2, <2>5, <3>1, <3>2, <3>3, <3>4, <3>5 DEF ReadOk, next
    <3> QED
      BY <3>6 DEF t
  <2> QED
    BY <2>4, <2>5
<1>7. CASE s.command # Input!None
  <2>1. t = s
    BY <1>7 DEF ParserAfter
  <2> DEFINE key == tty[s.used].key
  <2>2. /\ s.used \in 1 .. m /\ s.escape = <<>> /\ s.command \in Commands
        /\ At(1).key <= key /\ key < p.key
        /\ keys[key].name = s.command
        /\ \A k \in 1 .. key - 1 : Accounted(k)
        /\ \A k \in key + 1 .. p.key - 1 : \E i \in s.used + 1 .. m : tty[i].key = k
    BY <1>1, <1>7 DEF ReadOk
  <2>3. s.used \in Nat /\ s.used \in 1 .. m + 1 /\ m + 1 \in s.used + 1 .. m + 1
        /\ \A i \in s.used + 1 .. m : i \in s.used + 1 .. m + 1
    BY <2>2
  <2>4. key \in Nat
    <3>1. s.used \in 1 .. Len(tty)
      BY <1>1, <2>2
    <3>2. tty[s.used] \in Place
      BY <3>1 DEF LineOk
    <3> QED
      BY <3>2 DEF Place
  <2> HIDE DEF next, t, key
  <2>5. ASSUME NEW k \in key + 1 .. next.key - 1
        PROVE  \E i \in s.used + 1 .. m + 1 : tty[i].key = k
    <3>1. CASE k = p.key
      BY <2>3, <3>1
    <3>2. CASE k # p.key
      <4>1. k \in key + 1 .. p.key - 1
        BY <1>4, <1>5, <2>4, <3>2, SMTT(30)
      <4> QED
        BY <2>2, <2>3, <4>1
    <3> QED
      BY <3>1, <3>2
  <2>6. next.at = 1 \/ \E i \in s.used + 1 .. m + 1 : tty[i].key = next.key
    BY <1>4, <2>3
  <2>7. key < next.key /\ At(1).key <= next.key
    BY <1>5, <2>2, <2>4
  <2>8. ReadOk(s, m + 1)
    BY <1>7, <2>2, <2>3, <2>5, <2>6, <2>7 DEF ReadOk, next, key
  <2> QED
    BY <2>1, <2>8 DEF t
<1> QED
  BY <1>6, <1>7

(* Induction by sets: Nat is well-founded.                                 *)
LEMMA SetInduction ==
  ASSUME NEW T \in SUBSET Nat, 0 \in T, \A n \in T : n + 1 \in T
  PROVE  \A n \in Nat : n \in T
<1> SUFFICES ASSUME Nat \ T # {} PROVE FALSE
  OBVIOUS
<1> DEFINE R == OpToRel(<, Nat)
<1>1. IsWellFoundedOn(R, Nat)
  BY NatLessThanWellFounded
<1>2. \A x, y \in Nat : x < y => <<x, y>> \in R
  BY DEF OpToRel
<1> HIDE DEF R
<1>3. PICK m \in Nat \ T : \A y \in Nat \ T : ~(<<y, m>> \in R)
  BY <1>1, WFMin
<1>4. m # 0 /\ m - 1 \in Nat /\ m - 1 < m
  BY <1>3
<1>5. m - 1 \in T
  <2>1. <<m - 1, m>> \in R
    BY <1>2, <1>4
  <2> QED
    BY <1>3, <1>4, <2>1
<1> QED
  BY <1>3, <1>4, <1>5

(* The parser of a read that may take n bytes.                             *)
ParserStep(f, n) ==
  IF n = 0 THEN [escape |-> escape, command |-> Input!None, used |-> 0]
  ELSE ParserAfter(f[n - 1], n)

IsParser(f, n) == f = [m \in 0 .. n |-> ParserStep(f, m)]

LEMMA ParsersExist == \A n \in Nat : \E f : IsParser(f, n)
<1> DEFINE T == {n \in Nat : \E f : IsParser(f, n)}
<1>1. 0 \in T
  <2>1. IsParser([m \in 0 .. 0 |-> ParserStep(<<>>, 0)], 0)
    BY DEF IsParser, ParserStep
  <2> QED
    BY <2>1
<1>2. ASSUME NEW n \in T PROVE n + 1 \in T
  <2>1. PICK f : IsParser(f, n)
    BY <1>2
  <2> DEFINE g == [m \in 0 .. n + 1 |-> IF m = n + 1 THEN ParserStep(f, m) ELSE f[m]]
  <2>2. ASSUME NEW m \in 0 .. n + 1 PROVE g[m] = ParserStep(g, m)
    <3>1. CASE m = 0
      BY <2>1, <3>1 DEF IsParser, ParserStep
    <3>2. CASE m # 0
      <4>1. g[m - 1] = f[m - 1]
        BY <3>2
      <4>2. ParserStep(g, m) = ParserStep(f, m)
        BY <4>1 DEF ParserStep
      <4>3. m # n + 1 => f[m] = ParserStep(f, m)
        BY <2>1 DEF IsParser
      <4> QED
        BY <4>2, <4>3
    <3> QED
      BY <3>1, <3>2
  <2>3. IsParser(g, n + 1)
    BY <2>2 DEF IsParser
  <2> HIDE DEF g
  <2> QED
    BY <2>3
<1> HIDE DEF T
<1>3. \A n \in Nat : n \in T
  BY <1>1, <1>2, SetInduction DEF T
<1> QED
  BY <1>3 DEF T

LEMMA ReadHolds ==
  ASSUME Input!KeysAssumption, InputInv, NEW n \in Nat, n <= Len(tty)
  PROVE  ReadOk(Input!Parsed(n), n)
<1> DEFINE f == CHOOSE g : IsParser(g, n)
<1>1. IsParser(f, n)
  BY ParsersExist
<1>2. Input!Parsed(n) = f[n]
  BY DEF Input!Parsed, IsParser, ParserStep, ParserAfter
<1> HIDE DEF f
<1> DEFINE T == {m \in Nat : m <= n => ReadOk(f[m], m)}
<1>3. 0 \in T
  <2>1. f[0] = [escape |-> escape, command |-> Input!None, used |-> 0]
    BY <1>1 DEF IsParser, ParserStep
  <2>2. At(1) \in Place
    BY LineIsBoth DEF InputInv
  <2>3. ReadOk(f[0], 0)
    BY <2>1, <2>2 DEF ReadOk, InputInv, Place
  <2> QED
    BY <2>3
<1>4. ASSUME NEW m \in T PROVE m + 1 \in T
  <2>1. SUFFICES ASSUME m + 1 <= n PROVE ReadOk(f[m + 1], m + 1)
    OBVIOUS
  <2>2. m \in Nat /\ Len(tty) \in Nat /\ m < Len(tty) /\ m <= n
    BY <2>1 DEF InputInv, LineOk
  <2>3. ReadOk(f[m], m)
    BY <1>4, <2>2
  <2>4. f[m + 1] = ParserAfter(f[m], m + 1)
    <3>1. m + 1 \in 0 .. n /\ m + 1 # 0 /\ (m + 1) - 1 = m
      BY <2>1, <2>2
    <3>2. f[m + 1] = ParserStep(f, m + 1)
      BY <1>1, <3>1 DEF IsParser
    <3> QED
      BY <3>1, <3>2 DEF ParserStep
  <2> QED
    BY <2>2, <2>3, <2>4, ReadByte DEF InputInv
<1> HIDE DEF T
<1>5. n \in T
  BY <1>3, <1>4, SetInduction DEF T
<1> QED
  BY <1>2, <1>5 DEF T

LEMMA InputStarts == ASSUME Input!Init PROVE InputInv
<1> USE DEF Input!Init
<1>1. Line = <<>> /\ Len(Line) = 0
  BY DEF Line
<1>2. At(1) = [key |-> 1, at |-> 1]
  BY <1>1 DEF At
<1>3. KeysOk /\ LineOk /\ DoneOk
  BY <1>1 DEF KeysOk, LineOk, DoneOk
<1> QED
  BY <1>2, <1>3 DEF InputInv, Fits

(* A key comes behind the line.                                            *)
LEMMA PressKeeps ==
  ASSUME Input!KeysAssumption, InputInv,
         NEW name \in Typed, NEW bytes \in Input!Bytes(name), Input!Press(name, bytes)
  PROVE  InputInv'
<1> DEFINE key == [name |-> name, bytes |-> bytes]
           n   == Len(keys)
           new == [i \in DOMAIN bytes |-> [key |-> n + 1, at |-> i]]
           len == Len(Line)
<1>1. Pressed(key) /\ key.name = name /\ key.bytes = bytes
  BY DEF Pressed
<1>2. bytes \in Seq(Octets) /\ Len(bytes) \in Nat \ {0} /\ DOMAIN bytes = 1 .. Len(bytes)
  BY <1>1, KeysAreShaped
<1>3. KeysOk /\ LineOk /\ DoneOk /\ n \in Nat
  BY DEF InputInv, KeysOk
<1>4. keys' = Append(keys, key) /\ wire' = wire \o new /\ UNCHANGED <<tty, escape, done, dropped>>
  BY DEF Input!Press
<1> HIDE DEF key, new
<1>5. /\ Len(keys') = n + 1 /\ keys'[n + 1] = key
      /\ \A k \in 1 .. n : keys'[k] = keys[k]
  BY <1>3, <1>4 DEF KeysOk
<1>6. KeysOk'
  <2>1. key \in [name : Typed, bytes : Seq(Octets)]
    BY <1>2 DEF key
  <2>2. keys' \in Seq([name : Typed, bytes : Seq(Octets)])
    BY <1>3, <1>4, <2>1 DEF KeysOk
  <2>3. ASSUME NEW k \in 1 .. n + 1 PROVE Pressed(keys'[k])
    <3>1. CASE k = n + 1
      BY <1>1, <1>5, <3>1
    <3>2. CASE k # n + 1
      BY <1>3, <1>5, <3>2 DEF KeysOk
    <3> QED
      BY <3>1, <3>2
  <2> QED
    BY <1>5, <2>2, <2>3 DEF KeysOk, Pressed
<1>7. /\ new \in Seq(Place) /\ Len(new) = Len(bytes)
      /\ \A i \in 1 .. Len(bytes) : new[i] = [key |-> n + 1, at |-> i]
  BY <1>2, <1>3 DEF new, Place
<1>8. /\ Line \in Seq(Place) /\ len \in Nat
      /\ \A i \in Nat \ {0} : At(i) \in Place
  BY <1>3, LineIsBoth
<1>9. /\ Line' = Line \o new /\ Len(Line') = len + Len(bytes)
      /\ \A i \in 1 .. len : Line'[i] = Line[i]
      /\ \A i \in 1 .. Len(bytes) : Line'[len + i] = [key |-> n + 1, at |-> i]
  <2>1. Line' = tty \o (wire \o new)
    BY <1>4 DEF Line
  <2>2. tty \o (wire \o new) = Line \o new
    <3>1. tty \in Seq(Place) /\ wire \in Seq(Place) /\ new \in Seq(Place)
      BY <1>3, <1>7 DEF LineOk
    <3>2. \A s, t, u \in Seq(Place) : (s \o t) \o u = s \o (t \o u)
      BY ConcatAssociative
    <3>3. tty \o (wire \o new) = (tty \o wire) \o new
      BY <3>1, <3>2
    <3> QED
      BY <3>3 DEF Line
  <2>3. /\ Len(Line \o new) = len + Len(bytes)
        /\ \A i \in 1 .. len : (Line \o new)[i] = Line[i]
        /\ \A i \in 1 .. Len(bytes) : (Line \o new)[len + i] = new[i]
    BY <1>2, <1>7, <1>8
  <2> QED
    BY <1>7, <2>1, <2>2, <2>3
<1>10. ASSUME NEW i \in 1 .. len + 1 PROVE At(i)' = At(i)
  <2>1. CASE i <= len
    BY <1>2, <1>8, <1>9, <2>1 DEF At
  <2>2. CASE i = len + 1
    <3>1. At(i) = [key |-> n + 1, at |-> 1]
      BY <1>8, <2>2 DEF At
    <3>2. Line'[i] = [key |-> n + 1, at |-> 1] /\ i <= Len(Line')
      BY <1>2, <1>8, <1>9, <2>2
    <3> QED
      BY <3>1, <3>2 DEF At
  <2> QED
    BY <1>8, <2>1, <2>2
<1>11. ASSUME NEW p, PlaceOk(p)
       PROVE  PlaceOk(p)' /\ Follows(p)' = Follows(p)
  <2>1. p \in Place /\ p.key \in 1 .. n /\ p.at <= Len(keys[p.key].bytes)
    BY <1>3, <1>11 DEF PlaceOk, Place
  <2>2. keys'[p.key] = keys[p.key] /\ p.key <= n + 1
    BY <1>3, <1>5, <2>1
  <2> QED
    BY <1>5, <2>1, <2>2 DEF PlaceOk, Follows
<1>12. LineOk'
  <2>1. tty' \in Seq(Place) /\ wire' \in Seq(Place)
    BY <1>3, <1>4, <1>7 DEF LineOk
  <2>2. ASSUME NEW i \in 1 .. len + Len(bytes)
        PROVE  PlaceOk(Line[i])' /\ Follows(Line[i])' = At(i + 1)'
    <3>1. CASE i <= len
      <4>1. i \in 1 .. len /\ i + 1 \in 1 .. len + 1
        BY <1>8, <3>1
      <4>2. PlaceOk(Line[i]) /\ Follows(Line[i]) = At(i + 1)
        BY <1>3, <4>1 DEF LineOk
      <4>3. Line'[i] = Line[i] /\ At(i + 1)' = At(i + 1)
        BY <1>9, <1>10, <4>1
      <4>4. PlaceOk(Line[i])' = (PlaceOk(Line[i]))' /\ Line[i]' = Line[i]
        BY <4>3
      <4>5. \A p : p = Line[i] => PlaceOk(p)' /\ Follows(p)' = Follows(p)
        BY <1>11, <4>2
      <4> QED
        BY <4>2, <4>3, <4>5 DEF PlaceOk, Follows
    <3>2. CASE i > len
      <4> DEFINE j == i - len
      <4>1. j \in 1 .. Len(bytes) /\ i = len + j
        BY <1>2, <1>8, <3>2
      <4>2. Line'[i] = [key |-> n + 1, at |-> j]
        BY <1>9, <4>1
      <4>3. keys'[n + 1].bytes = bytes
        BY <1>1, <1>5
      <4>4. PlaceOk(Line[i])'
        BY <1>2, <1>3, <1>5, <4>1, <4>2, <4>3 DEF PlaceOk, Place
      <4>5. CASE j < Len(bytes)
        <5>1. Follows(Line[i])' = [key |-> n + 1, at |-> j + 1]
          BY <4>2, <4>3, <4>5 DEF Follows
        <5>2. At(i + 1)' = [key |-> n + 1, at |-> j + 1]
          <6>1. j + 1 \in 1 .. Len(bytes) /\ i + 1 = len + (j + 1) /\ i + 1 <= len + Len(bytes)
            BY <1>2, <1>8, <4>1, <4>5
          <6> QED
            BY <1>9, <6>1 DEF At
        <5> QED
          BY <4>4, <5>1, <5>2
      <4>6. CASE j = Len(bytes)
        <5>1. Follows(Line[i])' = [key |-> n + 1 + 1, at |-> 1]
          BY <1>2, <4>2, <4>3, <4>6 DEF Follows
        <5>2. At(i + 1)' = [key |-> n + 1 + 1, at |-> 1]
          BY <1>2, <1>5, <1>8, <1>9, <4>1, <4>6 DEF At
        <5> QED
          BY <4>4, <5>1, <5>2
      <4> QED
        BY <4>1, <4>5, <4>6
    <3> QED
      BY <1>8, <3>1, <3>2
  <2> QED
    BY <1>9, <2>1, <2>2 DEF LineOk
<1>13. At(1)' = At(1) /\ At(1) \in Place /\ At(1).key <= n + 1 /\ (At(1).at > 1 => At(1).key <= n)
  <2>1. At(1)' = At(1) /\ At(1) \in Place
    BY <1>8, <1>10
  <2>2. CASE len >= 1
    <3>1. 1 \in 1 .. len /\ At(1) = Line[1]
      BY <1>8, <2>2 DEF At
    <3>2. PlaceOk(At(1))
      BY <1>3, <3>1 DEF LineOk
    <3> QED
      BY <1>3, <2>1, <3>2 DEF PlaceOk, Place
  <2>3. CASE len = 0
    BY <2>3, <1>3, <1>8, <2>1 DEF At
  <2> QED
    BY <1>8, <2>1, <2>2, <2>3
<1>14. ASSUME NEW k \in Nat \ {0}, k < At(1).key
       PROVE  k \in 1 .. n /\ keys'[k] = keys[k]
  BY <1>3, <1>5, <1>13, <1>14 DEF Place
<1>15. DoneOk'
  <2>1. ASSUME NEW i \in 1 .. Len(done)
        PROVE  done[i].key < At(1)'.key /\ keys'[done[i].key].name = done[i].command
    <3>1. done[i] \in [command : Commands, key : Nat \ {0}]
      <4>1. done \in Seq([command : Commands, key : Nat \ {0}])
        BY <1>3 DEF DoneOk
      <4> QED
        BY <4>1, ElementOfSeq
    <3>2. done[i].key \in Nat \ {0}
      BY <3>1
    <3>3. done[i].key < At(1).key /\ keys[done[i].key].name = done[i].command
      BY <1>3 DEF DoneOk
    <3>4. keys'[done[i].key] = keys[done[i].key]
      BY <1>14, <3>2, <3>3
    <3> QED
      BY <1>13, <3>3, <3>4
  <2> QED
    BY <1>3, <1>4, <2>1 DEF DoneOk
<1>16. Lost(At(1).key)' <=> Lost(At(1).key)
  BY <1>4, <1>13, <1>14 DEF Lost, Swallowed, Place
<1>17. Fits(escape, At(1))'
  BY <1>3, <1>4, <1>5, <1>13, <1>14, <1>16 DEF Fits, Lost, Swallowed, Sent, InputInv, Place
<1>18. \A k \in 1 .. At(1)'.key - 1 : Accounted(k)'
  BY <1>4, <1>13, <1>14 DEF Accounted, Lost, Swallowed, InputInv, Place
<1> QED
  BY <1>6, <1>12, <1>15, <1>17, <1>18 DEF InputInv

(* A byte that reaches the terminal stays where it is in the line.         *)
LEMMA DeliverKeeps == ASSUME InputInv, Input!Deliver PROVE InputInv'
<1>1. /\ tty \in Seq(Place) /\ wire \in Seq(Place) /\ wire # <<>>
      /\ tty' = Append(tty, Head(wire)) /\ wire' = Tail(wire)
      /\ UNCHANGED <<keys, escape, done, dropped>>
  BY DEF InputInv, LineOk, Input!Deliver
<1>2. tty' \in Seq(Place) /\ wire' \in Seq(Place)
  BY <1>1
<1>3. Line' = Line
  <2>1. tty' \o wire' = tty \o wire
    BY <1>1
  <2> QED
    BY <2>1 DEF Line
<1>4. At(1)' = At(1)
  BY <1>1, <1>3 DEF At
<1>5. LineOk'
  BY <1>1, <1>2, <1>3 DEF InputInv, LineOk, PlaceOk, Follows, At
<1>6. KeysOk' /\ DoneOk'
  BY <1>1, <1>4 DEF InputInv, KeysOk, DoneOk, Pressed
<1>7. Fits(escape, At(1))' /\ \A k \in 1 .. At(1)'.key - 1 : Accounted(k)'
  BY <1>1, <1>4 DEF InputInv, Fits, Sent, Accounted, Lost, Swallowed
<1> QED
  BY <1>5, <1>6, <1>7 DEF InputInv

(* A read takes bytes off the front of the line.                           *)
LEMMA LineIsCut ==
  ASSUME KeysOk, LineOk, NEW n \in 1 .. Len(tty),
         tty' = SubSeq(tty, n + 1, Len(tty)), UNCHANGED <<keys, wire>>
  PROVE  LineOk' /\ \A i \in Nat \ {0} : At(i)' = At(i + n)
<1> DEFINE len == Len(Line)
<1>1. /\ tty \in Seq(Place) /\ wire \in Seq(Place) /\ Len(tty) \in Nat /\ Len(wire) \in Nat /\ n \in Nat
      /\ len = Len(tty) + Len(wire) /\ len \in Nat
  BY LineIsBoth DEF LineOk
<1>2. /\ tty' \in Seq(Place) /\ Len(tty') = Len(tty) - n
      /\ \A i \in 1 .. Len(tty) - n : tty'[i] = tty[i + n]
  BY <1>1
<1>3. /\ Line' = tty' \o wire /\ Len(Line') = len - n
      /\ \A i \in 1 .. Len(tty) - n : Line'[i] = tty[i + n]
      /\ \A i \in 1 .. Len(wire) : Line'[Len(tty) - n + i] = wire[i]
  <2>1. Line' = tty' \o wire
    BY DEF Line
  <2>2. /\ Len(tty' \o wire) = Len(tty') + Len(wire)
        /\ \A i \in 1 .. Len(tty') : (tty' \o wire)[i] = tty'[i]
        /\ \A i \in 1 .. Len(wire) : (tty' \o wire)[Len(tty') + i] = wire[i]
    <3> DEFINE cut == tty'
    <3>1. cut \in Seq(Place) /\ wire \in Seq(Place)
      BY <1>1, <1>2
    <3> HIDE DEF cut
    <3>2. /\ Len(cut \o wire) = Len(cut) + Len(wire)
          /\ \A i \in 1 .. Len(cut) : (cut \o wire)[i] = cut[i]
          /\ \A i \in 1 .. Len(wire) : (cut \o wire)[Len(cut) + i] = wire[i]
      BY <3>1
    <3> QED
      BY <3>2 DEF cut
  <2>3. Len(tty') + Len(wire) = len - n
    BY <1>1, <1>2
  <2> QED
    BY <1>2, <2>1, <2>2, <2>3
<1>4. ASSUME NEW i \in 1 .. len - n PROVE Line'[i] = Line[i + n]
  <2>1. CASE i <= Len(tty) - n
    <3>1. i \in 1 .. Len(tty) - n /\ i + n \in 1 .. Len(tty)
      BY <1>1, <2>1
    <3> QED
      BY <1>3, <3>1, LineIsBoth
  <2>2. CASE i > Len(tty) - n
    <3> DEFINE j == i - (Len(tty) - n)
    <3>1. j \in 1 .. Len(wire) /\ i = Len(tty) - n + j /\ i + n = Len(tty) + j
      BY <1>1, <2>2
    <3> QED
      BY <1>3, <3>1, LineIsBoth
  <2> QED
    BY <1>1, <2>1, <2>2
<1>5. ASSUME NEW i \in Nat \ {0} PROVE At(i)' = At(i + n)
  <2>1. CASE i <= len - n
    <3>1. i \in 1 .. len - n /\ i + n <= len
      BY <1>1, <2>1
    <3> QED
      BY <1>3, <1>4, <2>1, <3>1 DEF At
  <2>2. CASE ~(i <= len - n)
    <3>1. ~(i + n <= len)
      BY <1>1, <2>2
    <3> QED
      BY <1>3, <2>2, <3>1 DEF At
  <2> QED
    BY <2>1, <2>2
<1>6. ASSUME NEW i \in 1 .. len - n
      PROVE  PlaceOk(Line[i])' /\ Follows(Line[i])' = At(i + 1)'
  <2>1. i + n \in 1 .. len /\ i + 1 \in Nat \ {0} /\ (i + 1) + n = (i + n) + 1
    BY <1>1
  <2>2. PlaceOk(Line[i + n]) /\ Follows(Line[i + n]) = At((i + n) + 1)
    BY <2>1 DEF LineOk
  <2>3. At(i + 1)' = At((i + n) + 1)
    BY <1>5, <2>1
  <2> QED
    BY <1>4, <2>2, <2>3 DEF PlaceOk, Follows
<1>7. LineOk'
  BY <1>1, <1>2, <1>3, <1>6 DEF LineOk
<1> QED
  BY <1>5, <1>7

LEMMA ReadKeeps ==
  ASSUME Input!KeysAssumption, InputInv, Input!ReadCommand
  PROVE  InputInv'
<1> DEFINE n    == IF Len(tty) < ReadSize THEN Len(tty) ELSE ReadSize
           r    == Input!Parsed(n)
           next == At(n + 1)
           key  == tty[r.used].key
<1>1. /\ KeysOk /\ LineOk /\ DoneOk /\ Len(tty) \in Nat /\ tty # <<>>
      /\ done \in Seq([command : Commands, key : Nat \ {0}])
  BY DEF InputInv, LineOk, DoneOk, Input!ReadCommand
<1>2. n \in 1 .. Len(tty) /\ n \in Nat /\ n <= Len(tty)
  <2>1. Len(tty) # 0
    BY <1>1 DEF LineOk
  <2> QED
    BY <1>1, <2>1 DEF Input!KeysAssumption
<1>3. /\ tty' = SubSeq(tty, n + 1, Len(tty)) /\ escape' = r.escape
      /\ done' = IF r.command = Input!None THEN done
                 ELSE Append(done, [command |-> r.command, key |-> key])
      /\ dropped' = dropped \cup {tty[i].key : i \in r.used + 1 .. n}
      /\ UNCHANGED <<keys, wire>>
  BY DEF Input!ReadCommand
<1>4. ReadOk(r, n)
  BY <1>2, ReadHolds
<1> HIDE DEF n, r
<1>5. LineOk' /\ At(1)' = next /\ At(1) \in Place /\ next \in Place
  <2>1. LineOk' /\ At(1)' = At(1 + n) /\ 1 + n = n + 1
    BY <1>1, <1>2, <1>3, LineIsCut
  <2> QED
    BY <1>1, <1>2, <2>1, LineIsBoth
<1>6. KeysOk'
  BY <1>1, <1>3 DEF KeysOk, Pressed
<1>7. \A k : Lost(k) => Lost(k)'
  BY <1>3 DEF Lost, Swallowed
<1>8. ASSUME NEW k, Accounted(k) PROVE Accounted(k)'
  <2>1. \A i \in DOMAIN done : i \in DOMAIN done' /\ done'[i] = done[i]
    BY <1>1, <1>3
  <2> QED
    BY <1>3, <1>7, <1>8, <2>1 DEF Accounted
<1>9. At(1).key \in Nat \ {0} /\ next.key \in Nat \ {0} /\ At(1).key <= next.key
  BY <1>4, <1>5 DEF ReadOk, Place
<1>10. \A i \in 1 .. Len(done) : done[i].key \in Nat \ {0} /\ done[i].key < At(1).key
  <2>1. \A i \in 1 .. Len(done) : done[i] \in [command : Commands, key : Nat \ {0}]
    BY <1>1, ElementOfSeq
  <2> QED
    BY <1>1, <2>1 DEF DoneOk
<1>11. CASE r.command = Input!None
  <2>1. /\ r.used = n /\ Fits(r.escape, next)
        /\ \A k \in 1 .. next.key - 1 : Accounted(k)
    BY <1>4, <1>11 DEF ReadOk
  <2>2. DoneOk'
    <3>1. done' = done /\ keys' = keys /\ At(1)' = next
      BY <1>3, <1>5, <1>11
    <3>2. \A i \in 1 .. Len(done) : done[i].key < next.key
      BY <1>9, <1>10
    <3> QED
      BY <1>1, <3>1, <3>2 DEF DoneOk
  <2>3. Fits(escape, At(1))'
    BY <1>3, <1>5, <1>7, <2>1 DEF Fits, Sent, Swallowed
  <2>4. \A k \in 1 .. At(1)'.key - 1 : Accounted(k)'
    BY <1>5, <1>8, <2>1
  <2> QED
    BY <1>5, <1>6, <2>2, <2>3, <2>4 DEF InputInv
<1>12. CASE r.command # Input!None
  <2>1. /\ r.used \in 1 .. n /\ r.escape = <<>> /\ r.command \in Commands
        /\ At(1).key <= key /\ key < next.key /\ keys[key].name = r.command
        /\ \A k \in 1 .. key - 1 : Accounted(k)
        /\ \A k \in key + 1 .. next.key - 1 : \E i \in r.used + 1 .. n : tty[i].key = k
        /\ next.at = 1 \/ \E i \in r.used + 1 .. n : tty[i].key = next.key
    BY <1>4, <1>12 DEF ReadOk
  <2>2. key \in Nat \ {0}
    <3>1. r.used \in 1 .. Len(tty) /\ tty \in Seq(Place)
      BY <1>1, <1>2, <2>1 DEF LineOk
    <3>2. tty[r.used] \in Place
      BY <3>1, ElementOfSeq
    <3> QED
      BY <3>2 DEF Place
  <2> DEFINE entry == [command |-> r.command, key |-> key]
             len   == Len(done)
  <2>3. /\ entry \in [command : Commands, key : Nat \ {0}] /\ entry.key = key /\ entry.command = r.command
        /\ done' = Append(done, entry)
    BY <1>3, <1>12, <2>1, <2>2
  <2> HIDE DEF entry, key
  <2>4. /\ done' \in Seq([command : Commands, key : Nat \ {0}]) /\ Len(done') = len + 1 /\ len \in Nat
        /\ done'[len + 1] = entry /\ \A i \in 1 .. len : done'[i] = done[i]
    BY <1>1, <2>3
  <2>5. ASSUME NEW i \in 1 .. len + 1
        PROVE  /\ done'[i].key < next.key
               /\ keys'[done'[i].key].name = done'[i].command
               /\ i > 1 => done'[i - 1].key < done'[i].key
    <3>1. CASE i = len + 1
      <4>1. done'[i] = entry
        BY <2>4, <3>1
      <4>2. ASSUME i > 1 PROVE done'[i - 1].key < key
        <5>1. i - 1 \in 1 .. len
          BY <2>4, <3>1, <4>2
        <5>2. done'[i - 1] = done[i - 1]
          BY <2>4, <5>1
        <5>3. done[i - 1].key \in Nat /\ done[i - 1].key < At(1).key
          BY <1>10, <5>1
        <5> QED
          BY <1>9, <2>1, <2>2, <5>2, <5>3
      <4>3. key < next.key /\ keys'[key].name = r.command
        BY <1>3, <2>1
      <4> QED
        BY <2>3, <4>1, <4>2, <4>3
    <3>2. CASE i # len + 1
      <4>0. i \in 1 .. len /\ (i > 1 => i - 1 \in 1 .. len)
        BY <2>4, <3>2
      <4>1. i \in 1 .. len /\ done'[i] = done[i] /\ (i > 1 => done'[i - 1] = done[i - 1])
        BY <2>4, <4>0
      <4>2. done[i].key < next.key
        BY <1>9, <1>10, <4>1
      <4>3. keys[done[i].key].name = done[i].command /\ (i > 1 => done[i - 1].key < done[i].key)
        BY <1>1, <4>1 DEF DoneOk
      <4> QED
        BY <1>3, <4>1, <4>2, <4>3
    <3> QED
      BY <3>1, <3>2
  <2>6. DoneOk'
    BY <1>5, <2>4, <2>5 DEF DoneOk
  <2>7. Fits(escape, At(1))'
    BY <1>3, <1>5, <2>1 DEF Fits, Lost
  <2>8. ASSUME NEW k \in 1 .. next.key - 1 PROVE Accounted(k)'
    <3>1. CASE k < key
      <4>1. k \in 1 .. key - 1
        BY <2>2, <3>1
      <4> QED
        BY <1>8, <2>1, <4>1
    <3>2. CASE k = key
      <4>1. len + 1 \in DOMAIN done' /\ done'[len + 1].key = k
        BY <2>3, <2>4, <3>2
      <4> QED
        BY <4>1 DEF Accounted
    <3>3. CASE k > key
      <4>1. k \in key + 1 .. next.key - 1
        BY <1>9, <2>2, <3>3
      <4>2. k \in dropped'
        BY <1>3, <2>1, <4>1
      <4> QED
        BY <4>2 DEF Accounted, Lost
    <3> QED
      BY <2>2, <3>1, <3>2, <3>3
  <2> QED
    BY <1>5, <1>6, <2>6, <2>7, <2>8 DEF InputInv
<1> QED
  BY <1>11, <1>12

LEMMA InputStays == ASSUME InputInv, UNCHANGED <<keys, wire, tty, escape, done, dropped>> PROVE InputInv'
<1>1. Line' = Line
  BY DEF Line
<1>2. \A i : At(i)' = At(i)
  BY <1>1 DEF At
<1> QED
  BY <1>1, <1>2 DEF InputInv, KeysOk, LineOk, DoneOk, Fits, Sent, Accounted, Lost, Swallowed, Pressed,
                    PlaceOk, Follows

LEMMA InputStep == InputInv /\ [Input!Next]_inputVars => InputInv'
<1> SUFFICES ASSUME InputInv, [Input!Next]_inputVars PROVE InputInv'
  OBVIOUS
<1>1. Input!KeysAssumption
  BY PartsAssumption
<1>2. CASE \E name \in Typed : \E bytes \in Input!Bytes(name) : Input!Press(name, bytes)
  BY <1>1, <1>2, PressKeeps
<1>3. CASE Input!Deliver
  BY <1>3, DeliverKeeps
<1>4. CASE Input!ReadCommand
  BY <1>1, <1>4, ReadKeeps
<1>5. CASE Input!InputFails
  BY <1>5, InputStays DEF Input!InputFails
<1>6. CASE UNCHANGED inputVars
  BY <1>6, InputStays DEF inputVars
<1> QED
  BY <1>2, <1>3, <1>4, <1>5, <1>6 DEF Input!Next

LEMMA InputIsSound == InputInv => KeysAreAccountedFor
<1> SUFFICES ASSUME InputInv PROVE Input!KeysAreAccountedFor
  BY DEF KeysAreAccountedFor
<1>1. \A i \in DOMAIN done :
        /\ keys[done[i].key].name = done[i].command
        /\ i > 1 => done[i - 1].key < done[i].key
  <2>1. DOMAIN done = 1 .. Len(done)
    BY DEF InputInv, DoneOk
  <2> QED
    BY <2>1 DEF InputInv, DoneOk
<1>2. ASSUME NEW k \in DOMAIN keys, Input!IsCommand(keys[k].name),
             \A i \in DOMAIN wire : wire[i].key > k, \A i \in DOMAIN tty : tty[i].key > k
      PROVE  Accounted(k)
  <2>1. k \in 1 .. Len(keys) /\ Len(keys) \in Nat
    BY DEF InputInv, KeysOk
  <2>2. At(1) \in Place /\ Line \in Seq(Place)
    BY LineIsBoth DEF InputInv
  <2>3. k < At(1).key
    <3>1. CASE Len(tty) > 0
      <4>1. 1 \in DOMAIN tty /\ 1 \in 1 .. Len(tty) /\ Line[1] = tty[1] /\ 1 <= Len(Line)
        BY <3>1, LineIsBoth DEF InputInv, LineOk
      <4> QED
        BY <1>2, <2>1, <2>2, <4>1 DEF At, Place
    <3>2. CASE Len(tty) = 0 /\ Len(wire) > 0
      <4>1. 1 \in DOMAIN wire /\ 1 \in 1 .. Len(wire) /\ Line[0 + 1] = wire[1] /\ 1 <= Len(Line)
        BY <3>2, LineIsBoth DEF InputInv, LineOk
      <4> QED
        BY <1>2, <2>1, <2>2, <4>1 DEF At, Place
    <3>3. CASE Len(tty) = 0 /\ Len(wire) = 0
      <4>1. Len(Line) = 0
        BY <3>3, LineIsBoth DEF InputInv
      <4>2. At(1).key = Len(keys) + 1
        BY <4>1 DEF At
      <4> QED
        BY <2>1, <4>2
    <3> QED
      BY <3>1, <3>2, <3>3 DEF InputInv, LineOk
  <2>4. k \in 1 .. At(1).key - 1
    BY <2>1, <2>2, <2>3 DEF Place
  <2> QED
    BY <2>4 DEF InputInv
<1> QED
  BY <1>1, <1>2 DEF Input!KeysAreAccountedFor, Accounted, Lost, Swallowed

-----------------------------------------------------------------------------
(* The parts side by side.                                                 *)

(* A behaviour of the whole is one of each of these parts.                 *)
LEMMA PartsAlone ==
  AllSpec => Spec /\ Agent!Spec /\ Files!Spec /\ Guard!Spec /\ Filter!Spec
<1>1. AllInit => Init /\ Agent!Init /\ Files!Init /\ Guard!Init /\ Filter!Init
  BY DEF AllInit
<1> DEFINE all == <<part, familyVars, agentVars, fileVars, inputVars, paneVars,
                    guardVars, filterVars>>
<1>2. [AllNext]_all => [Next]_vars
  BY DEF AllNext, familyVars
<1>3. [AllNext]_all => [Files!Next]_(Files!vars)
  BY DEF AllNext, fileVars, Files!vars
<1>4. [AllNext]_all => [Guard!Next]_(Guard!vars)
  BY DEF AllNext, guardVars, Guard!vars
<1>5. [AllNext]_all => [Filter!Next]_(Filter!vars)
  BY DEF AllNext, filterVars, Filter!vars
<1>6. [AllNext]_all => [Agent!Next]_(Agent!vars)
  BY DEF AllNext, agentVars, Agent!vars
<1> QED
  BY <1>1, <1>2, <1>3, <1>4, <1>5, <1>6, PTL
     DEF AllSpec, Spec, Agent!Spec, Files!Spec, Guard!Spec, Filter!Spec

(* The variables of these parts keep their types, whatever fails.          *)
THEOREM PartsTypeCorrect == AllSpec => [](TypeOK /\ Files!TypeOK /\ Guard!TypeOK)
<1>1. FamilyInv => TypeOK
  BY DEF FamilyInv
<1>2. Files!IndInv => Files!TypeOK
  BY DEF Files!IndInv
<1>3. Guard!IndInv => Guard!TypeOK
  BY DEF Guard!IndInv
<1> QED
  BY PartsAlone, FamilyInit, FamilyStep, FilesInductive, GuardInductive, <1>1, <1>2, <1>3, PTL
     DEF Spec

(* As long as every entry could be restored, no page a patched entry leads *)
(* through is guarded, and when all hooks are gone the pages are guarded   *)
(* as they were before the module came (inline_hook.c:83-167).             *)
THEOREM GuardsAreRestored == AllSpec => []GuardsComeBack
<1>1. Guard!IndInv => GuardsComeBack
  <2>1. SUFFICES ASSUME Guard!IndInv, ~failed
                 PROVE  /\ \A h \in patched : Touches[h] \cap guarded = {}
                        /\ guardPhase = "finished" => guarded = Guarded
    BY DEF GuardsComeBack, Guard!GuardsComeBack
  <2>2. \A h \in patched : Touches[h] \cap guarded = {}
    BY <2>1 DEF Guard!IndInv, Guard!TypeOK, Guard!BitsAccounted, Guard!PhaseSound
  <2>3. ASSUME guardPhase = "finished" PROVE guarded = Guarded
    <3>1. \A h \in Guard!Hooks : hadGp[h] = {}
      BY <2>1, <2>3 DEF Guard!IndInv, Guard!TypeOK, Guard!PhaseSound
    <3> QED
      BY <3>1, <2>1 DEF Guard!IndInv, Guard!TypeOK, Guard!BitsAccounted
  <2> QED
    BY <2>2, <2>3
<1> QED
  BY PartsAlone, GuardInductive, <1>1, PTL

(* What the agent has put out is the lines of the events it read, each     *)
(* once and in order, the last one possibly cut off, and all of them while *)
(* it waits, wherever a write, a flush or the socket fails and whenever it *)
(* is killed (agent.rs:192-283, jsonl.rs:75-98).  However many programs   *)
(* start, are killed and start again, nobody finds or reads half a table   *)
(* or half a marker, and a table of the user's is written over only where  *)
(* hard links do not work (startup_marker.rs:124,                          *)
(* android_platform_methods.rs:192).                                       *)
THEOREM FilesCorrect == AllSpec => []FilesAreWhole
<1>1. Agent!Init => AgentInv
  BY AgentInit
<1>2. AgentInv /\ [Agent!Next]_(Agent!vars) => AgentInv'
  BY AgentStep DEF agentVars, Agent!vars
<1>3. AgentInv => Agent!RecordsAreWhole
  BY AgentIsSound
<1>4. Files!IndInv => Files!PublishedIsComplete
  BY DEF Files!IndInv
<1>5. Agent!Spec => []AgentInv
  BY <1>1, <1>2, PTL DEF Agent!Spec
<1>6. AgentInv /\ Files!IndInv => FilesAreWhole
  BY <1>3, <1>4 DEF FilesAreWhole
<1> QED
  BY PartsAlone, FilesInductive, <1>5, <1>6, PTL

(* A call is captured only if a configuration in force while it was        *)
(* decided wants it, and ignored only if one does not; and the counters do *)
(* not tell of more verdicts than hits and threads, for every number of    *)
(* threads and clients and whatever the users ask for (bt_capture.c:118-   *)
(* 195).                                                                   *)
THEOREM CaptureCorrect == AllSpec => []CapturedAsAsked
<1>1. CountersInv => CapturedAsAsked
  <2> SUFFICES ASSUME CountersInv, \A p \in Clients : clearing[p] = 0
               PROVE  counters.captured + counters.filtered <= Filter!Hits + Cardinality(Threads)
    BY SameCardinality
       DEF CapturedAsAsked, Filter!CapturedAsAsked, Filter!VerdictsFollowHits, CountersInv,
           VerdictInv
  <2>1. counters.captured + counters.filtered + Cardinality(UnderWay)
          <= Filter!Hits + Cardinality(Threads)
    BY DEF CountersInv, Balance
  <2>2. /\ counters.captured \in Nat /\ counters.filtered \in Nat /\ Filter!Hits \in Nat
        /\ Cardinality(UnderWay) \in Nat /\ Cardinality(Threads) \in Nat
    BY UnderWayIsFew DEF CountersInv, CountersOk, Filter!Hits
  <2> QED
    BY <2>1, <2>2
<1> QED
  BY PartsAlone, FilterInductive, <1>1, PTL

(* An event the kernel holds is announced, is being read, or was left by a *)
(* drain that had its share (tui/mod.rs:617, 701).                         *)
THEOREM NothingStranded == AllSpec => []NothingIsStranded
BY TuiInductive, ListOfTui, PTL

(* The list shows the history without gaps, whatever comes while keys are  *)
(* pressed and filters switched, unless it jumped, and never more rows     *)
(* than it has (tui/mod.rs:330-470).                                       *)
THEOREM WindowIsGapless == AllSpec => []WindowHasNoGaps
BY TuiInductive, ListOfTui, PTL

(* What is selected can be shown in the other panes (tui/mod.rs:409-445).  *)
THEOREM SelectionLoaded == AllSpec => []SelectionIsLoaded
BY TuiInductive, ListOfTui, PTL

(* The panes show lines the selected event has, at a position chosen for   *)
(* it, and a key finds complete counts, for any payloads and any number of *)
(* kinds of events (tui/mod.rs:272-319).                                   *)
THEOREM PanesInside == AllSpec => []PanesStayInside
<1>1. TuiInv => PanesStayInside
  <2> SUFFICES ASSUME TuiInv, part = "panes" PROVE Panes!PanesStayInside
    BY DEF PanesStayInside
  <2>1. PanesOf!PanesAssumption /\ PanesOf!PanesInv
    BY PartsAssumption, PanesAreTui DEF TuiInv
  <2> QED
    BY <2>1, PanesOf!PanesAreSound, PanesPromise
<1> QED
  BY TuiInductive, <1>1, PTL

(* Commands are executed in the order of their keys, each for the key that *)
(* was pressed, however the terminal cuts the bytes into reads and however *)
(* long a read may be; and a command is only missing when a byte of it was *)
(* thrown away behind another one or it follows a lone escape (tui/        *)
(* input.rs:63-125).                                                       *)
THEOREM KeysCorrect == AllSpec => []KeysAreAccountedFor
<1>1. AllInit => InputInv
  BY InputStarts DEF AllInit
<1> DEFINE all == <<part, familyVars, agentVars, fileVars, inputVars, paneVars,
                    guardVars, filterVars>>
<1>2. [AllNext]_all => [Input!Next]_inputVars
  BY DEF AllNext
<1> QED
  BY <1>1, <1>2, InputStep, InputIsSound, PTL DEF AllSpec
=============================================================================
