------------------------- MODULE HookLifecycleProofs ------------------------
(* Theorems about HookLifecycle, for every finite set of threads.          *)
EXTENDS HookLifecycle, FiniteSetTheorems, TLAPS

-----------------------------------------------------------------------------
(* The two orders.                                                         *)

(* The first hook installed is binder_ioctl, the last one removed too.     *)
LEMMA Orders ==
  /\ Len(InstallOrder) = 3 /\ Len(RemoveOrder) = 3
  /\ InstallOrder[1] = "ioctl" /\ InstallOrder[2] = "copy"
  /\ InstallOrder[3] = "transaction"
  /\ RemoveOrder[1] = "transaction" /\ RemoveOrder[2] = "copy"
  /\ RemoveOrder[3] = "ioctl"
BY DEF InstallOrder, RemoveOrder

-----------------------------------------------------------------------------
(* Counting.                                                               *)

(* The counted threads are finitely many.                                  *)
LEMMA CountedFinite == IsFiniteSet(Counted)
BY FS_Subset, ThreadsAssumption DEF Counted

(* bt_hook_enter keeps the counter right.                                  *)
LEMMA EnterCounts ==
  ASSUME TypeOK, NEW t \in Threads, Enter(t)
  PROVE  active' = Cardinality(Counted')
<1>1. Counted' = Counted \cup {t} /\ t \notin Counted
  BY DEF TypeOK, Enter, Goto, Counted
<1>2. Cardinality(Counted \cup {t}) = Cardinality(Counted) + 1
  BY <1>1, CountedFinite, FS_AddElement
<1> QED
  BY <1>1, <1>2 DEF TypeOK, Enter

(* bt_hook_leave keeps the counter right, and it does not fall below zero. *)
LEMMA LeaveCounts ==
  ASSUME TypeOK, NEW t \in Threads, Leave(t)
  PROVE  active' \in Nat /\ active' = Cardinality(Counted')
<1>1. Counted' = Counted \ {t} /\ t \in Counted
  BY DEF TypeOK, Leave, Goto, Counted
<1>2. Cardinality(Counted \ {t}) = Cardinality(Counted) - 1
  BY <1>1, CountedFinite, FS_RemoveElement
<1>3. IsFiniteSet(Counted \ {t})
  BY CountedFinite, FS_RemoveElement
<1>4. Cardinality(Counted \ {t}) \in Nat
  BY <1>3, FS_CardinalityType
<1> QED
  BY <1>1, <1>2, <1>4 DEF TypeOK, Leave

(* When the counter is zero nobody is counted.                             *)
LEMMA ZeroMeansNobody ==
  ASSUME TypeOK, active = 0
  PROVE  Counted = {}
BY CountedFinite, FS_EmptySet DEF TypeOK

-----------------------------------------------------------------------------
(* The invariant is inductive.                                             *)

(* The state insmod finds satisfies the invariant.                         *)
LEMMA InitInv == Init => IndInv
<1> SUFFICES ASSUME Init PROVE IndInv
  OBVIOUS
<1>1. Counted = {}
  BY DEF Init, Counted
<1>2. Cardinality(Counted) = 0
  BY <1>1, FS_EmptySet
<1>3. TypeOK
  <2>1. active \in Nat /\ active = Cardinality(Counted)
    BY <1>2 DEF Init
  <2>2. at \in [Threads -> Hooks]
    BY DEF Init, Hooks
  <2>3. step \in 1 .. 3
    BY DEF Init
  <2> QED
    BY <2>1, <2>2, <2>3 DEF Init, TypeOK
<1>4. HooksSound
  BY Orders DEF Init, HooksSound, Hooks
<1>5. InsideSound
  BY <1>1 DEF Init, InsideSound, Inside
<1> QED
  BY <1>3, <1>4, <1>5 DEF Init, IndInv, TracingSound, QuietOnceDrained

(* A step of a thread preserves what it can disturb.                       *)
LEMMA ThreadSteps ==
  ASSUME IndInv, NEW t \in Threads, Proceed(t) \/ \E h \in Hooks : CallHooked(t, h)
  PROVE  IndInv'
<1> USE DEF IndInv
<1>1. TypeOK'
  <2>1. ASSUME NEW h \in Hooks, CallHooked(t, h) PROVE TypeOK'
    <3>1. Counted' = Counted
      BY <2>1 DEF CallHooked, Goto, Counted, TypeOK
    <3> QED
      BY <2>1, <3>1 DEF CallHooked, Goto, TypeOK, hookVars, mainVars
  <2>2. CASE Enter(t)
    <3>1. active' = Cardinality(Counted')
      BY <2>2, EnterCounts
    <3>2. active' \in Nat
      BY <2>2 DEF Enter, TypeOK
    <3> QED
      BY <2>2, <3>1, <3>2 DEF Enter, Goto, TypeOK, hookVars, mainVars
  <2>3. CASE Decide(t)
    <3>1. Counted' = Counted
      BY <2>3 DEF Decide, Goto, Counted, TypeOK
    <3> QED
      BY <2>3, <3>1 DEF Decide, Goto, TypeOK, hookVars, mainVars
  <2>4. CASE CheckBackup(t)
    <3>1. Counted' = Counted
      BY <2>4 DEF CheckBackup, Goto, Counted, TypeOK
    <3> QED
      BY <2>4, <3>1 DEF CheckBackup, Goto, TypeOK, hookVars, mainVars
  <2>5. CASE OriginalReturns(t)
    <3>1. Counted' = Counted
      BY <2>5 DEF OriginalReturns, Goto, Counted, TypeOK
    <3> QED
      BY <2>5, <3>1 DEF OriginalReturns, Goto, TypeOK, hookVars, mainVars
  <2>6. CASE Leave(t)
    BY <2>6, LeaveCounts DEF Leave, Goto, TypeOK, hookVars, mainVars
  <2>7. CASE Return(t)
    <3>1. Counted' = Counted
      BY <2>7 DEF Return, Goto, Counted, TypeOK
    <3> QED
      BY <2>7, <3>1 DEF Return, Goto, TypeOK, hookVars, mainVars
  <2> QED
    BY <2>1, <2>2, <2>3, <2>4, <2>5, <2>6, <2>7 DEF Proceed
<1>2. UNCHANGED <<hookVars, mainVars, draining>>
  BY DEF Proceed, CallHooked, Enter, Decide, CheckBackup, OriginalReturns, Leave, Return
<1>3. HooksSound'
  BY <1>2 DEF HooksSound, Behind, hookVars, mainVars
<1>4. InsideSound'
  BY <1>2 DEF InsideSound, Inside, Counted, TypeOK, hookVars, mainVars, Proceed, Goto,
    CallHooked, Enter, Decide, CheckBackup, OriginalReturns, Leave, Return, HooksSound
<1>5. TracingSound' /\ QuietOnceDrained'
  BY <1>2 DEF TracingSound, QuietOnceDrained, Counted, TypeOK, hookVars, mainVars, Proceed,
    Goto, CallHooked, Enter, Decide, CheckBackup, OriginalReturns, Leave, Return
<1> QED
  BY <1>1, <1>3, <1>4, <1>5

(* A step of the thread that loads or unloads leaves the calls alone.      *)
LEMMA MainLeavesThreads ==
  ASSUME Load \/ Rmmod \/ Remove \/ Unload
  PROVE  UNCHANGED threadVars /\ Counted' = Counted /\ Inside' = Inside
BY DEF Load, Remove, Prepare, Patch, InstallFails, Rmmod, BeginRemove, Disable, GraceBegins,
  GraceEnds, WaitEnds, Free, EndRemove, Unload, threadVars, Counted, Inside

(* It gives every variable a value of its type.                            *)
LEMMA MainTypes ==
  ASSUME TypeOK, Load \/ Rmmod \/ Remove \/ Unload
  PROVE  TypeOK'
<1>1. UNCHANGED threadVars /\ Cardinality(Counted)' = Cardinality(Counted)
  BY MainLeavesThreads
<1>2. InstallOrder \in [1 .. 3 -> Hooks] /\ RemoveOrder \in [1 .. 3 -> Hooks]
  BY DEF InstallOrder, RemoveOrder, Hooks
<1>3. CASE Prepare
  BY <1>1, <1>2, <1>3, Orders DEF Prepare, TypeOK, threadVars, hookVars, Advance
<1>4. CASE Patch
  BY <1>1, <1>2, <1>4, Orders DEF Patch, TypeOK, threadVars, hookVars, Advance
<1>5. CASE InstallFails
  BY <1>1, <1>2, <1>5, Orders DEF InstallFails, TypeOK, threadVars, hookVars, Advance
<1>6. CASE Rmmod
  BY <1>1, <1>2, <1>6, Orders DEF Rmmod, TypeOK, threadVars, hookVars, Advance
<1>7. CASE BeginRemove
  BY <1>1, <1>2, <1>7, Orders DEF BeginRemove, TypeOK, threadVars, hookVars, Advance
<1>8. CASE Disable
  BY <1>1, <1>2, <1>8, Orders DEF Disable, TypeOK, threadVars, hookVars, Advance
<1>9. CASE GraceBegins
  BY <1>1, <1>2, <1>9, Orders DEF GraceBegins, TypeOK, threadVars, hookVars, Advance
<1>10. CASE GraceEnds
  BY <1>1, <1>2, <1>10, Orders DEF GraceEnds, TypeOK, threadVars, hookVars, Advance
<1>11. CASE WaitEnds
  BY <1>1, <1>2, <1>11, Orders DEF WaitEnds, TypeOK, threadVars, hookVars, Advance
<1>12. CASE Free
  <2>1. entry' \in [Hooks -> {"original", "hooked"}] /\ disabled' \in [Hooks -> BOOLEAN]
    BY <1>12 DEF Free, TypeOK
  <2>2. /\ mem' \in [Hooks -> BOOLEAN] /\ backup' \in [Hooks -> BOOLEAN]
        /\ handle' \in [Hooks -> BOOLEAN] /\ failed' \in BOOLEAN
    BY <1>2, <1>12 DEF Free, TypeOK
  <2>3. step' \in 1 .. 3 /\ phase' \in {"free", "removed"}
    BY <1>12, Orders DEF Free, TypeOK, Advance
  <2> QED
    BY <1>1, <1>12, <2>1, <2>2, <2>3 DEF Free, TypeOK, threadVars
<1>13. CASE EndRemove
  BY <1>1, <1>2, <1>13, Orders DEF EndRemove, TypeOK, threadVars, hookVars, Advance
<1>14. CASE Unload
  BY <1>1, <1>2, <1>14, Orders DEF Unload, TypeOK, threadVars, hookVars, Advance
<1> QED
  BY <1>3, <1>4, <1>5, <1>6, <1>7, <1>8, <1>9, <1>10, <1>11, <1>12, <1>13, <1>14 DEF Load, Remove

(* A step of the thread that loads preserves the invariant.                *)
LEMMA MainSteps ==
  ASSUME IndInv, Load \/ Rmmod \/ Remove \/ Unload
  PROVE  IndInv'
<1> USE DEF IndInv
<1>1. TypeOK'
  BY MainTypes
<1>2. UNCHANGED threadVars /\ Counted' = Counted /\ Inside' = Inside
  BY MainLeavesThreads
<1>3. TracingSound'
  BY <1>2 DEF TracingSound, threadVars
<1>4. step \in {1, 2, 3}
  BY DEF TypeOK
<1>5. CASE Prepare
  <2>1. HooksSound'
    BY <1>4, <1>5, Orders DEF Prepare, TypeOK, HooksSound, Hooks, Behind, hookVars, Advance
  <2>2. InsideSound'
    BY <1>2, <1>4, <1>5, Orders DEF Prepare, TypeOK, HooksSound, InsideSound, Hooks, Behind,
      Inside, Counted, threadVars, hookVars, Advance
  <2>3. QuietOnceDrained'
    BY <1>2, <1>5, Orders DEF Prepare, TypeOK, QuietOnceDrained, Removing, threadVars, Advance
  <2> QED
    BY <1>1, <1>3, <2>1, <2>2, <2>3
<1>6. CASE Patch
  <2>1. HooksSound'
    BY <1>4, <1>6, Orders DEF Patch, TypeOK, HooksSound, Hooks, Behind, hookVars, Advance
  <2>2. InsideSound'
    BY <1>2, <1>4, <1>6, Orders DEF Patch, TypeOK, HooksSound, InsideSound, Hooks, Behind,
      Inside, Counted, threadVars, hookVars, Advance
  <2>3. QuietOnceDrained'
    BY <1>2, <1>6, Orders DEF Patch, TypeOK, QuietOnceDrained, Removing, threadVars, Advance
  <2> QED
    BY <1>1, <1>3, <2>1, <2>2, <2>3
<1>7. CASE InstallFails
  <2>1. HooksSound'
    BY <1>4, <1>7, Orders DEF InstallFails, TypeOK, HooksSound, Hooks, Behind, hookVars, Advance
  <2>2. InsideSound'
    BY <1>2, <1>4, <1>7, Orders DEF InstallFails, TypeOK, HooksSound, InsideSound, Hooks, Behind,
      Inside, Counted, threadVars, hookVars, Advance
  <2>3. QuietOnceDrained'
    BY <1>2, <1>7, Orders DEF InstallFails, TypeOK, QuietOnceDrained, Removing, threadVars, Advance
  <2> QED
    BY <1>1, <1>3, <2>1, <2>2, <2>3
<1>8. CASE Rmmod
  <2>1. HooksSound'
    BY <1>4, <1>8, Orders DEF Rmmod, TypeOK, HooksSound, Hooks, Behind, hookVars, Advance
  <2>2. InsideSound'
    BY <1>2, <1>4, <1>8, Orders DEF Rmmod, TypeOK, HooksSound, InsideSound, Hooks, Behind,
      Inside, Counted, threadVars, hookVars, Advance
  <2>3. QuietOnceDrained'
    BY <1>2, <1>8, Orders DEF Rmmod, TypeOK, QuietOnceDrained, Removing, threadVars, Advance
  <2> QED
    BY <1>1, <1>3, <2>1, <2>2, <2>3
<1>9. CASE BeginRemove
  <2>1. HooksSound'
    BY <1>4, <1>9, Orders DEF BeginRemove, TypeOK, HooksSound, Hooks, Behind, hookVars, Advance
  <2>2. InsideSound'
    BY <1>2, <1>4, <1>9, Orders DEF BeginRemove, TypeOK, HooksSound, InsideSound, Hooks, Behind,
      Inside, Counted, threadVars, hookVars, Advance
  <2>3. QuietOnceDrained'
    BY <1>2, <1>9, Orders DEF BeginRemove, TypeOK, QuietOnceDrained, Removing, threadVars, Advance
  <2> QED
    BY <1>1, <1>3, <2>1, <2>2, <2>3
<1>10. CASE Disable
  <2>1. HooksSound'
    BY <1>4, <1>10, Orders DEF Disable, TypeOK, HooksSound, Hooks, Behind, hookVars, Advance
  <2>2. InsideSound'
    BY <1>2, <1>4, <1>10, Orders DEF Disable, TypeOK, HooksSound, InsideSound, Hooks, Behind,
      Inside, Counted, threadVars, hookVars, Advance
  <2>3. QuietOnceDrained'
    BY <1>2, <1>10, Orders DEF Disable, TypeOK, QuietOnceDrained, Removing, threadVars, Advance
  <2> QED
    BY <1>1, <1>3, <2>1, <2>2, <2>3
<1>11. CASE GraceBegins
  <2>1. HooksSound'
    BY <1>4, <1>11, Orders DEF GraceBegins, TypeOK, HooksSound, Hooks, Behind, hookVars, Advance
  <2>2. InsideSound'
    BY <1>2, <1>4, <1>11, Orders DEF GraceBegins, TypeOK, HooksSound, InsideSound, Hooks, Behind,
      Inside, Counted, threadVars, hookVars, Advance
  <2>3. QuietOnceDrained'
    BY <1>2, <1>11, Orders DEF GraceBegins, TypeOK, QuietOnceDrained, Removing, threadVars, Advance
  <2> QED
    BY <1>1, <1>3, <2>1, <2>2, <2>3
<1>12. CASE GraceEnds
  <2>1. HooksSound'
    BY <1>4, <1>12, Orders DEF GraceEnds, TypeOK, HooksSound, Hooks, Behind, hookVars, Advance
  <2>2. InsideSound'
    BY <1>2, <1>4, <1>12, Orders DEF GraceEnds, TypeOK, HooksSound, InsideSound, Hooks, Behind,
      Inside, Counted, threadVars, hookVars, Advance
  <2>3. QuietOnceDrained'
    BY <1>2, <1>12, Orders DEF GraceEnds, TypeOK, QuietOnceDrained, Removing, threadVars, Advance
  <2> QED
    BY <1>1, <1>3, <2>1, <2>2, <2>3
<1>13. CASE WaitEnds
  <2>1. HooksSound'
    BY <1>4, <1>13, Orders DEF WaitEnds, TypeOK, HooksSound, Hooks, Behind, hookVars, Advance
  <2>2. InsideSound'
    BY <1>2, <1>13, ZeroMeansNobody DEF WaitEnds, InsideSound, Inside, threadVars, hookVars
  <2>3. QuietOnceDrained'
    BY <1>2, <1>13, ZeroMeansNobody DEF WaitEnds, QuietOnceDrained, TracingSound, threadVars
  <2> QED
    BY <1>1, <1>3, <2>1, <2>2, <2>3
<1>14. CASE Free
  <2>1. HooksSound'
    BY <1>4, <1>14, Orders DEF Free, TypeOK, HooksSound, Hooks, Behind, hookVars, Advance
  <2>2. InsideSound'
    BY <1>2, <1>4, <1>14, Orders DEF Free, TypeOK, HooksSound, InsideSound, Hooks, Behind,
      Inside, Counted, threadVars, hookVars, Advance
  <2>3. QuietOnceDrained'
    BY <1>2, <1>14, Orders DEF Free, TypeOK, QuietOnceDrained, Removing, threadVars, Advance
  <2> QED
    BY <1>1, <1>3, <2>1, <2>2, <2>3
<1>15. CASE EndRemove
  <2>1. HooksSound'
    BY <1>4, <1>15, Orders DEF EndRemove, TypeOK, HooksSound, Hooks, Behind, hookVars, Advance
  <2>2. InsideSound'
    BY <1>2, <1>4, <1>15, Orders DEF EndRemove, TypeOK, HooksSound, InsideSound, Hooks, Behind,
      Inside, Counted, threadVars, hookVars, Advance
  <2>3. QuietOnceDrained'
    BY <1>2, <1>15, Orders DEF EndRemove, TypeOK, QuietOnceDrained, Removing, threadVars, Advance
  <2> QED
    BY <1>1, <1>3, <2>1, <2>2, <2>3
<1>16. CASE Unload
  <2>1. HooksSound'
    BY <1>4, <1>16, Orders DEF Unload, TypeOK, HooksSound, Hooks, Behind, hookVars, Advance
  <2>2. InsideSound'
    BY <1>2, <1>4, <1>16, Orders DEF Unload, TypeOK, HooksSound, InsideSound, Hooks, Behind,
      Inside, Counted, threadVars, hookVars, Advance
  <2>3. QuietOnceDrained'
    BY <1>2, <1>16, Orders DEF Unload, TypeOK, QuietOnceDrained, Removing, threadVars, Advance
  <2> QED
    BY <1>1, <1>3, <2>1, <2>2, <2>3
<1> QED
  BY <1>5, <1>6, <1>7, <1>8, <1>9, <1>10, <1>11, <1>12, <1>13, <1>14, <1>15, <1>16 DEF Load, Remove

-----------------------------------------------------------------------------
(* The theorems.                                                           *)

(* Every step of the module and of its callers preserves the invariant.    *)
LEMMA NextInv == IndInv /\ [Next]_vars => IndInv'
<1> SUFFICES ASSUME IndInv, [Next]_vars PROVE IndInv'
  OBVIOUS
<1>1. CASE \E t \in Threads : Proceed(t) \/ \E h \in Hooks : CallHooked(t, h)
  BY <1>1, ThreadSteps
<1>2. CASE Load \/ Rmmod \/ Remove \/ Unload
  BY <1>2, MainSteps
<1>3. CASE UNCHANGED vars
  <2>1. Counted' = Counted /\ Inside' = Inside
    BY <1>3 DEF vars, threadVars, Counted, Inside
  <2>2. TypeOK' /\ HooksSound'
    BY <1>3, <2>1 DEF IndInv, vars, hookVars, mainVars, threadVars, TypeOK, HooksSound, Behind
  <2>3. InsideSound' /\ TracingSound' /\ QuietOnceDrained'
    BY <1>3, <2>1 DEF IndInv, vars, hookVars, mainVars, threadVars, InsideSound,
      TracingSound, QuietOnceDrained
  <2> QED
    BY <2>2, <2>3 DEF IndInv
<1> QED
  BY <1>1, <1>2, <1>3 DEF Next

(* The invariant holds throughout the module's life.                       *)
THEOREM HooksInvariance == Spec => []IndInv
BY InitInv, NextInv, PTL DEF Spec

(* Every variable keeps its type, and bt_active_hook_calls is always the   *)
(* number of threads between bt_hook_enter and bt_hook_leave.              *)
THEOREM HooksTypeCorrect == Spec => []TypeOK
<1>1. IndInv => TypeOK
  BY DEF IndInv
<1> QED
  BY <1>1, HooksInvariance, PTL

(* A patched entry always has its trampoline, its original and the module  *)
(* behind it, whatever failed.                                             *)
THEOREM PatchedEntriesCorrect == Spec => []PatchedEntriesLeadHome
<1>1. IndInv => PatchedEntriesLeadHome
  BY DEF IndInv, HooksSound, PatchedEntriesLeadHome
<1> QED
  BY <1>1, HooksInvariance, PTL

(* Nothing a thread inside a hook still needs is freed under it.           *)
THEOREM NobodyCutOffCorrect == Spec => []NobodyIsCutOff
<1>1. IndInv => NobodyIsCutOff
  BY DEF IndInv, HooksSound, InsideSound, NobodyIsCutOff, TypeOK, Inside, Counted
<1> QED
  BY <1>1, HooksInvariance, PTL

(* After the wait for active calls nothing is traced while draining.       *)
THEOREM QuietCorrect == Spec => []QuietOnceDrained
<1>1. IndInv => QuietOnceDrained
  BY DEF IndInv
<1> QED
  BY <1>1, HooksInvariance, PTL
=============================================================================
