---------------------------- MODULE HookLifecycle ---------------------------
(***************************************************************************)
(* The life of the Binder hooks of the kernel module: installation, calls  *)
(* through the patched entries, removal and unloading                      *)
(* (kernel/src/core/bt_hooks.c, the init and exit of bt_main.c, and the    *)
(* install, disable and free of kernel/src/hook/inline_hook.c).            *)
(*                                                                         *)
(* The thread that loads or unloads the module patches and restores kernel *)
(* text while other threads run through it.  Restoring an entry stops new  *)
(* calls; synchronize_rcu_tasks waits for threads that have jumped but     *)
(* are not counted yet; the wait for active calls covers the rest.  A      *)
(* write to kernel text either takes effect or fails with nothing written. *)
(* A hooked call made inside another one (binder_ioctl calls               *)
(* binder_transaction) is a thread of its own here: it counts once more.   *)
(***************************************************************************)
EXTENDS Integers, Sequences, FiniteSets

CONSTANT Threads   (* threads that call the hooked Binder functions        *)

ASSUME ThreadsAssumption == IsFiniteSet(Threads)

Hooks == {"ioctl", "copy", "transaction"}

InstallOrder == <<"ioctl", "copy", "transaction">>
RemoveOrder  == <<"transaction", "copy", "ioctl">>

VARIABLES
  entry,      (* entry[h]: the text at the function's entry                *)
  mem,        (* mem[h]: the hook with its trampoline is allocated         *)
  backup,     (* backup[h]: the pointer to the original is set             *)
  handle,     (* handle[h]: the pointer to the hook is set                 *)
  disabled,   (* disabled[h]: this removal has restored the entry          *)
  draining,   (* bt_hooks_draining                                         *)
  active,     (* bt_active_hook_calls                                      *)
  phase,      (* where loading, removal and unloading stand                *)
  step,       (* how many hooks the loop of the phase is at                *)
  caller,     (* who called remove: a failed install, or the exit          *)
  failed,     (* first_ret of the removal is not 0                         *)
  gp,         (* threads the Tasks RCU grace period still waits for        *)
  pc,         (* where a thread is                                         *)
  at,         (* at[t]: the hook it came through                           *)
  tracing     (* should_trace of its call                                  *)

hookVars   == <<entry, mem, backup, handle, disabled>>
mainVars   == <<phase, step, caller, failed>>
threadVars == <<pc, at, tracing, active>>
vars       == <<hookVars, mainVars, threadVars, draining, gp>>

(* The module as insmod finds it: nothing patched, bt_binder_hooks zeroed. *)
Init ==
  /\ entry    = [h \in Hooks |-> "original"]
  /\ mem      = [h \in Hooks |-> FALSE]
  /\ backup   = [h \in Hooks |-> FALSE]
  /\ handle   = [h \in Hooks |-> FALSE]
  /\ disabled = [h \in Hooks |-> FALSE]
  /\ draining = FALSE
  /\ active   = 0
  /\ phase    = "prepare"
  /\ step     = 1
  /\ caller   = "install"
  /\ failed   = FALSE
  /\ gp       = {}
  /\ pc       = [t \in Threads |-> "out"]
  /\ at       = [t \in Threads |-> "ioctl"]
  /\ tracing  = [t \in Threads |-> FALSE]

-----------------------------------------------------------------------------
(* Threads that call the hooked functions.                                 *)

Goto(t, from, to) ==
  /\ pc[t] = from
  /\ pc' = [pc EXCEPT ![t] = to]

(* A thread runs into a patched entry and jumps to the replacement.        *)
CallHooked(t, h) ==
  /\ entry[h] = "hooked"
  /\ Goto(t, "out", "entry")
  /\ at' = [at EXCEPT ![t] = h]
  /\ UNCHANGED <<hookVars, mainVars, tracing, active, draining, gp>>

(* bt_hook_enter.                                                          *)
Enter(t) ==
  /\ Goto(t, "entry", "decide")
  /\ active' = active + 1
  /\ UNCHANGED <<hookVars, mainVars, at, tracing, draining, gp>>

(* Faulty variant: the capture filter alone decides.                       *)
DecideAlways(t) ==
  /\ Goto(t, "decide", "check")
  /\ \E wanted \in BOOLEAN : tracing' = [tracing EXCEPT ![t] = wanted]
  /\ UNCHANGED <<hookVars, mainVars, at, active, draining, gp>>

(* Whether to trace: never while draining, else as the filter says.        *)
Decide(t) ==
  /\ Goto(t, "decide", "check")
  /\ \E wanted \in BOOLEAN :
       tracing' = [tracing EXCEPT ![t] = ~draining /\ wanted]
  /\ UNCHANGED <<hookVars, mainVars, at, active, draining, gp>>

(* The replacement looks whether there is an original to call; when there  *)
(* is none it returns an error, and no event is emitted.                   *)
CheckBackup(t) ==
  /\ Goto(t, "check", IF backup[at[t]] THEN "original" ELSE "leave")
  /\ tracing' = [tracing EXCEPT ![t] = backup[at[t]] /\ @]
  /\ UNCHANGED <<hookVars, mainVars, at, active, draining, gp>>

(* The original, reached through the relocated instructions, returns; it   *)
(* may sleep for as long as a Binder call sleeps.                          *)
OriginalReturns(t) ==
  /\ Goto(t, "original", "leave")
  /\ gp' = gp \ {t}
  /\ UNCHANGED <<hookVars, mainVars, at, tracing, active, draining>>

(* Faulty variant: a call that was not traced leaves without a decrement.  *)
LeaveTraced(t) ==
  /\ Goto(t, "leave", "left")
  /\ active'  = IF tracing[t] THEN active - 1 ELSE active
  /\ tracing' = [tracing EXCEPT ![t] = FALSE]
  /\ UNCHANGED <<hookVars, mainVars, at, draining, gp>>

(* The event of a traced call is emitted, then bt_hook_leave: the thread   *)
(* no longer counts, but it still runs the module's text.                  *)
Leave(t) ==
  /\ Goto(t, "leave", "left")
  /\ active'  = active - 1
  /\ tracing' = [tracing EXCEPT ![t] = FALSE]
  /\ UNCHANGED <<hookVars, mainVars, at, draining, gp>>

(* The replacement returns to the caller, and the thread gets to where     *)
(* Tasks RCU sees it: user space or a voluntary sleep.                     *)
Return(t) ==
  /\ Goto(t, "left", "out")
  /\ gp' = gp \ {t}
  /\ UNCHANGED <<hookVars, mainVars, at, tracing, active, draining>>

-----------------------------------------------------------------------------
(* Loading.                                                                *)

(* Before the entry of a hook is patched: its memory is allocated and the  *)
(* backup pointer is set.                                                  *)
Prepare ==
  LET h == InstallOrder[step] IN
  /\ phase = "prepare"
  /\ mem'    = [mem EXCEPT ![h] = TRUE]
  /\ backup' = [backup EXCEPT ![h] = TRUE]
  /\ phase'  = "patch"
  /\ UNCHANGED <<entry, handle, disabled, step, caller, failed, threadVars, draining, gp>>

(* The trampoline is written; the last hook completes the load.            *)
Patch ==
  LET h == InstallOrder[step] IN
  /\ phase = "patch"
  /\ entry'  = [entry EXCEPT ![h] = "hooked"]
  /\ handle' = [handle EXCEPT ![h] = TRUE]
  /\ IF step < Len(InstallOrder)
     THEN phase' = "prepare" /\ step' = step + 1
     ELSE phase' = "loaded" /\ step' = 1
  /\ UNCHANGED <<mem, backup, disabled, caller, failed, threadVars, draining, gp>>

(* An installation fails, before or at the write.  The hook is freed and   *)
(* its pointers are cleared; the load then fails (binder_ioctl), is rolled *)
(* back (binder_alloc_copy_user_to_buffer), or goes on without the         *)
(* optional hook (binder_transaction).                                     *)
InstallFails ==
  LET h == InstallOrder[step] IN
  /\ phase \in {"prepare", "patch"}
  /\ mem'    = [mem EXCEPT ![h] = FALSE]
  /\ backup' = [backup EXCEPT ![h] = FALSE]
  /\ step'   = 1
  /\ phase'  = CASE h = "ioctl" -> "finished" [] h = "copy" -> "remove"
                 [] OTHER -> "loaded"
  /\ caller' = "install"
  /\ UNCHANGED <<entry, handle, disabled, failed, threadVars, draining, gp>>

(* rmmod runs bt_kmod_exit.                                                *)
Rmmod ==
  /\ phase = "loaded"
  /\ phase'  = "remove"
  /\ caller' = "exit"
  /\ UNCHANGED <<hookVars, step, failed, threadVars, draining, gp>>

-----------------------------------------------------------------------------
(* bt_binder_hooks_remove.                                                 *)

BeginRemove ==
  /\ phase = "remove"
  /\ draining' = TRUE
  /\ failed'   = FALSE
  /\ phase'    = "disable"
  /\ UNCHANGED <<hookVars, step, caller, threadVars, gp>>

(* The loop over the hooks goes on, or the next phase begins.              *)
Advance(next) ==
  IF step < Len(RemoveOrder)
  THEN step' = step + 1 /\ phase' = phase
  ELSE step' = 1 /\ phase' = next

(* Faulty variant: a failed restoration is noted as done.                  *)
DisableUnchecked ==
  LET h == RemoveOrder[step] IN
  /\ phase = "disable"
  /\ \E ok \in BOOLEAN :
       /\ disabled' = [disabled EXCEPT ![h] = handle[h]]
       /\ entry'    = [entry EXCEPT ![h] = IF handle[h] /\ ok THEN "original" ELSE @]
       /\ failed'   = (failed \/ (handle[h] /\ ~ok))
  /\ Advance("grace")
  /\ UNCHANGED <<mem, backup, handle, caller, threadVars, draining, gp>>

(* The entry of an installed hook is restored, or the write fails and the  *)
(* removal goes on with the others.                                        *)
Disable ==
  LET h == RemoveOrder[step] IN
  /\ phase = "disable"
  /\ \E ok \in BOOLEAN :
       /\ disabled' = [disabled EXCEPT ![h] = handle[h] /\ ok]
       /\ entry'    = [entry EXCEPT ![h] = IF handle[h] /\ ok THEN "original" ELSE @]
       /\ failed'   = (failed \/ (handle[h] /\ ~ok))
  /\ Advance("grace")
  /\ UNCHANGED <<mem, backup, handle, caller, threadVars, draining, gp>>

(* synchronize_rcu_tasks begins: it waits for every thread that is neither *)
(* in user space nor, possibly, asleep in the original.                    *)
GraceBegins ==
  /\ phase = "grace"
  /\ gp'    = {t \in Threads : pc[t] \notin {"out", "original"}}
  /\ phase' = "settle"
  /\ UNCHANGED <<hookVars, step, caller, failed, threadVars, draining>>

(* ... and ends when each of them has been seen there.                     *)
GraceEnds ==
  /\ phase = "settle"
  /\ \A t \in gp : pc[t] = "original"
  /\ gp'    = {}
  /\ phase' = "wait"
  /\ UNCHANGED <<hookVars, step, caller, failed, threadVars, draining>>

(* Faulty variant: the removal frees without waiting for active calls.     *)
WaitSkipped ==
  /\ phase = "wait"
  /\ phase' = "free"
  /\ UNCHANGED <<hookVars, step, caller, failed, threadVars, draining, gp>>

(* bt_wait_for_active_hooks finds no active call.                          *)
WaitEnds ==
  /\ phase = "wait"
  /\ active = 0
  /\ phase' = "free"
  /\ UNCHANGED <<hookVars, step, caller, failed, threadVars, draining, gp>>

(* Faulty variant: a hook that was never installed counts as one that      *)
(* could not be restored.                                                  *)
FreeUninstalled ==
  LET h == RemoveOrder[step] IN
  /\ phase = "free"
  /\ IF ~disabled[h]
     THEN /\ failed' = TRUE
          /\ UNCHANGED <<mem, backup, handle>>
     ELSE /\ mem'    = [mem EXCEPT ![h] = FALSE]
          /\ backup' = [backup EXCEPT ![h] = FALSE]
          /\ handle' = [handle EXCEPT ![h] = FALSE]
          /\ UNCHANGED failed
  /\ Advance("removed")
  /\ UNCHANGED <<entry, disabled, caller, threadVars, draining, gp>>

(* A hook whose entry was restored is freed and forgotten; one whose entry *)
(* was not keeps its trampoline and its backup, and the removal fails.     *)
Free ==
  LET h == RemoveOrder[step] IN
  /\ phase = "free"
  /\ IF handle[h] /\ ~disabled[h]
     THEN /\ failed' = TRUE
          /\ UNCHANGED <<mem, backup, handle>>
     ELSE /\ mem'    = [mem EXCEPT ![h] = FALSE]
          /\ backup' = [backup EXCEPT ![h] = FALSE]
          /\ handle' = [handle EXCEPT ![h] = FALSE]
          /\ UNCHANGED failed
  /\ Advance("removed")
  /\ UNCHANGED <<entry, disabled, caller, threadVars, draining, gp>>

(* The caller of the removal: a failed rollback keeps the module loaded, a *)
(* failed exit never returns, otherwise the rest of the module is cleaned  *)
(* up.                                                                     *)
EndRemove ==
  /\ phase = "removed"
  /\ phase' = IF ~failed THEN "finished"
              ELSE IF caller = "install" THEN "loaded" ELSE "blocked"
  /\ UNCHANGED <<hookVars, step, caller, failed, threadVars, draining, gp>>

(* The kernel frees the module after a failed init or after the exit.      *)
Unload ==
  /\ phase = "finished"
  /\ phase' = "unloaded"
  /\ UNCHANGED <<hookVars, step, caller, failed, threadVars, draining, gp>>

-----------------------------------------------------------------------------

(* Steps of a thread that do not wait for anything, once the original      *)
(* returns.                                                                *)
Proceed(t) ==
  \/ Enter(t) \/ Decide(t) \/ CheckBackup(t)
  \/ OriginalReturns(t) \/ Leave(t) \/ Return(t)

Load   == Prepare \/ Patch \/ InstallFails
Remove ==
  \/ BeginRemove \/ Disable \/ GraceBegins \/ GraceEnds
  \/ WaitEnds \/ Free \/ EndRemove

Next ==
  \/ \E t \in Threads :
       \/ \E h \in Hooks : CallHooked(t, h)
       \/ Proceed(t)
  \/ Load \/ Rmmod \/ Remove \/ Unload

Spec == Init /\ [][Next]_vars

(* The threads and the removal are scheduled, and a Binder call that is    *)
(* waiting for work gets some in the end; nobody has to call or to unload. *)
FairSpec ==
  /\ Spec
  /\ \A t \in Threads : WF_vars(Proceed(t))
  /\ WF_vars(Remove)
  /\ WF_vars(Unload)

-----------------------------------------------------------------------------
(* Properties.                                                             *)

(* The threads bt_active_hook_calls counts.                                *)
Counted == {t \in Threads : pc[t] \in {"decide", "check", "original", "leave"}}

(* The threads that went through a patched entry and have yet to leave.    *)
Inside == {t \in Threads : pc[t] = "entry"} \cup Counted

(* Every variable holds a value the program can give it, and the counter   *)
(* is the number of threads between bt_hook_enter and bt_hook_leave.       *)
TypeOK ==
  /\ entry \in [Hooks -> {"original", "hooked"}]
  /\ mem \in [Hooks -> BOOLEAN]
  /\ backup \in [Hooks -> BOOLEAN]
  /\ handle \in [Hooks -> BOOLEAN]
  /\ disabled \in [Hooks -> BOOLEAN]
  /\ draining \in BOOLEAN
  /\ active \in Nat
  /\ active = Cardinality(Counted)
  /\ phase \in {"prepare", "patch", "loaded", "remove", "disable", "grace", "settle",
                "wait", "free", "removed", "finished", "unloaded", "blocked"}
  /\ step \in 1 .. 3
  /\ caller \in {"install", "exit"}
  /\ failed \in BOOLEAN
  /\ gp \in SUBSET Threads
  /\ pc \in [Threads -> {"out", "entry", "decide", "check", "original", "leave", "left"}]
  /\ at \in [Threads -> Hooks]
  /\ tracing \in [Threads -> BOOLEAN]

(* A patched entry always leads home: while any thread can still run into  *)
(* it, its trampoline is allocated, the pointer to the original is set and *)
(* the module's text is there, also after a restoration failed.            *)
PatchedEntriesLeadHome ==
  \A h \in Hooks :
    entry[h] = "hooked" => mem[h] /\ backup[h] /\ phase # "unloaded"

(* Nobody inside a hook has the way out removed under it: the trampoline   *)
(* is not freed, the original is not forgotten (the Binder call would be   *)
(* dropped) and the module is not unloaded before the thread is through.   *)
NobodyIsCutOff ==
  \A t \in Inside :
    /\ phase # "unloaded"
    /\ pc[t] # "leave" => mem[at[t]] /\ backup[at[t]]

Removing == {"disable", "grace", "settle", "wait"}

(* Once a removal has waited for the active calls no call is traced any    *)
(* more, not even one that comes through an entry that could not be        *)
(* restored: no event follows the end of the capture.                      *)
QuietOnceDrained ==
  draining /\ phase \notin Removing => \A t \in Threads : ~tracing[t]

(* A removal whose entries were all restored ends: every call inside gets  *)
(* out, the hooks are freed and the module goes away.                      *)
RemovalEnds == (phase = "grace" /\ ~failed) ~> phase = "unloaded"

(* What kernel/README.md:80-84 says the wait is for: no thread returns to  *)
(* module code that has been freed.                                        *)
NoReturnIntoFreedModule == phase = "unloaded" => \A t \in Threads : pc[t] = "out"

-----------------------------------------------------------------------------
(* The inductive invariant.                                                *)

(* The hook a removal comes to in its i-th turn is behind the loop.        *)
Behind(h) == \E i \in 1 .. step - 1 : RemoveOrder[i] = h

(* An installed hook has its memory and its pointers, and an entry is      *)
(* patched for as long as its hook is installed, except that a removal     *)
(* has restored some.                                                      *)
HooksSound ==
  /\ \A h \in Hooks : handle[h] => mem[h] /\ backup[h]
  /\ \A h \in Hooks : entry[h] = "hooked" => handle[h]
  /\ phase \in {"prepare", "patch"} =>
       \A i \in 1 .. 3 : handle[InstallOrder[i]] <=> i < step
  /\ phase \in {"prepare", "patch", "loaded", "remove", "removed", "blocked"} =>
       \A h \in Hooks : handle[h] => entry[h] = "hooked"
  /\ phase = "patch" => mem[InstallOrder[step]] /\ backup[InstallOrder[step]]
  /\ phase = "disable" =>
       \A h \in Hooks :
         handle[h] => (entry[h] = "hooked" <=> (Behind(h) => ~disabled[h]))
  /\ phase \in {"grace", "settle", "wait"} =>
       \A h \in Hooks : handle[h] => (entry[h] = "hooked" <=> ~disabled[h])
  /\ phase = "free" =>
       \A h \in Hooks :
         handle[h] => IF Behind(h) THEN failed /\ entry[h] = "hooked"
                      ELSE entry[h] = "hooked" <=> ~disabled[h]
  /\ phase = "removed" /\ ~failed => \A h \in Hooks : ~handle[h]
  /\ phase \in {"finished", "unloaded"} => \A h \in Hooks : ~handle[h]
  /\ phase \in {"loaded", "remove", "grace", "settle", "wait", "removed"} => step = 1

(* Who can still be inside which hook, phase by phase.                     *)
InsideSound ==
  /\ \A t \in Inside : handle[at[t]]
  /\ phase = "settle" =>
       \A t \in Threads : pc[t] = "entry" => entry[at[t]] = "hooked" \/ t \in gp
  /\ phase = "wait" =>
       \A t \in Threads : pc[t] = "entry" => entry[at[t]] = "hooked"
  /\ phase \in {"free", "removed"} => \A t \in Inside : entry[at[t]] = "hooked"

TracingSound == \A t \in Threads : tracing[t] => t \in Counted

IndInv ==
  /\ TypeOK
  /\ HooksSound
  /\ InsideSound
  /\ TracingSound
  /\ QuietOnceDrained
=============================================================================
