----------------------------- MODULE GuardPages -----------------------------
(***************************************************************************)
(* The guard bit (BTI) of the pages of kernel text the hooks of the module *)
(* change (kernel/src/hook/inline_hook.c, with the order in which          *)
(* kernel/src/core/bt_hooks.c installs and frees).  A hook clears the bit  *)
(* of every page its trampoline sends somebody to, notes whether it was    *)
(* set, and sets those it had cleared again when it is freed.  Hooks do    *)
(* not know of each other, and may well be on one page.                    *)
(*                                                                         *)
(* Only the bits: HookLifecycle has the hooks' memory and the threads that *)
(* run through them.  This is the default, without preserve_bti.           *)
(***************************************************************************)
EXTENDS Integers

CONSTANTS
  Touches,   (* Touches[h]: the pages of the entry of h and of the targets *)
             (* of its relocated instructions                              *)
  Guarded    (* the pages guarded before the module came                   *)

(* binder_ioctl, binder_alloc_copy_user_to_buffer and binder_transaction,  *)
(* in the order of their installation.                                     *)
Hooks == 1 .. 3

Pages == Guarded \cup UNION {Touches[h] : h \in Hooks}

VARIABLES
  guarded,   (* the pages whose bit is set                                 *)
  tracked,   (* bti_guard_pages of each hook: their pages ...              *)
  hadGp,     (* ... and those of them that had the bit                     *)
  patched,   (* hooks whose trampoline is in place                         *)
  phase, hook, (* what is done, and with which hook                        *)
  failed     (* a restoration has failed                                   *)

vars == <<guarded, tracked, hadGp, patched, phase, hook, failed>>

Init ==
  /\ guarded = Guarded
  /\ tracked = [h \in Hooks |-> {}] /\ hadGp = [h \in Hooks |-> {}]
  /\ patched = {}
  /\ phase = "install" /\ hook = 1
  /\ failed = FALSE

(* Faulty variant: the bit is taken to have been set.                      *)
TrackGuardPageSet(page) ==
  /\ phase = "install"
  /\ page \in Touches[hook] \ tracked[hook]
  /\ tracked' = [tracked EXCEPT ![hook] = @ \cup {page}]
  /\ hadGp'   = [hadGp EXCEPT ![hook] = @ \cup {page}]
  /\ guarded' = guarded \ {page}
  /\ UNCHANGED <<patched, phase, hook, failed>>

(* hook_track_bti_guard_page *)
TrackGuardPage(page) ==
  /\ phase = "install"
  /\ page \in Touches[hook] \ tracked[hook]
  /\ tracked' = [tracked EXCEPT ![hook] = @ \cup {page}]
  /\ hadGp'   = [hadGp EXCEPT ![hook] = @ \cup (guarded \cap {page})]
  /\ guarded' = guarded \ {page}
  /\ UNCHANGED <<patched, phase, hook, failed>>

(* hook_restore_bti_guard_pages *)
RestoreGuardPages ==
  /\ guarded' = guarded \cup hadGp[hook]
  /\ tracked' = [tracked EXCEPT ![hook] = {}]
  /\ hadGp'   = [hadGp EXCEPT ![hook] = {}]

WriteTrampoline ==
  /\ phase = "install"
  /\ tracked[hook] = Touches[hook]
  /\ patched' = patched \cup {hook}
  /\ IF hook < 3 THEN hook' = hook + 1 /\ phase' = phase
                 ELSE hook' = 3 /\ phase' = "loaded"
  /\ UNCHANGED <<guarded, tracked, hadGp, failed>>

(* A page cannot be tracked, an instruction not relocated or the           *)
(* trampoline not written.  The first hook is required, the second too and *)
(* the first then removed, the third is optional.                          *)
InstallFails ==
  /\ phase = "install"
  /\ RestoreGuardPages
  /\ phase' = CASE hook = 1 -> "finished" [] hook = 2 -> "disable" [] hook = 3 -> "loaded"
  /\ hook'  = 3
  /\ UNCHANGED <<patched, failed>>

Exit ==
  /\ phase = "loaded"
  /\ phase' = "disable"
  /\ UNCHANGED <<guarded, tracked, hadGp, patched, hook, failed>>

(* The loop over the hooks, the last one first.                            *)
Advance(next) ==
  IF hook > 1 THEN hook' = hook - 1 /\ phase' = phase ELSE hook' = 3 /\ phase' = next

(* wuwa_disable_hook of what is there.                                     *)
DisableHook ==
  /\ phase = "disable"
  /\ \/ patched' = patched \ {hook} /\ UNCHANGED failed
     \/ hook \in patched /\ failed' = TRUE /\ UNCHANGED patched
  /\ Advance("free")
  /\ UNCHANGED <<guarded, tracked, hadGp>>

(* wuwa_free_hook of what was disabled; an exit that could not remove all  *)
(* stays for ever, a load that could not keeps the module.                 *)
FreeHook ==
  /\ phase = "free"
  /\ IF hook \in patched THEN UNCHANGED <<guarded, tracked, hadGp>> ELSE RestoreGuardPages
  /\ Advance("finished")
  /\ UNCHANGED <<patched, failed>>

Next ==
  \/ \E page \in Pages : TrackGuardPage(page)
  \/ WriteTrampoline \/ InstallFails
  \/ Exit \/ DisableHook \/ FreeHook

Spec == Init /\ [][Next]_vars

-----------------------------------------------------------------------------
TypeOK ==
  /\ guarded \subseteq Guarded
  /\ tracked \in [Hooks -> SUBSET Pages]
  /\ \A h \in Hooks : hadGp[h] \subseteq tracked[h] /\ tracked[h] \subseteq Touches[h]
  /\ hadGp \in [Hooks -> SUBSET Guarded]
  /\ patched \subseteq Hooks
  /\ phase \in {"install", "loaded", "disable", "free", "finished"}
  /\ hook \in Hooks
  /\ failed \in BOOLEAN

(* Where every entry could be restored: none of the pages a patched entry  *)
(* leads through is guarded, whatever the other hooks on it have done, and *)
(* when all of them are gone the pages are guarded as they were.           *)
GuardsComeBack ==
  ~failed => /\ \A h \in patched : Touches[h] \cap guarded = {}
             /\ phase = "finished" => guarded = Guarded

-----------------------------------------------------------------------------
(* A bit is missing because of one hook, which alone has noted it, and     *)
(* which no hook before it has on its pages.                               *)
BitsAccounted ==
  /\ \A page \in Guarded : page \notin guarded => \E h \in Hooks : page \in hadGp[h]
  /\ \A h \in Hooks : tracked[h] \cap guarded = {}
  /\ \A g, h \in Hooks : g < h => hadGp[h] \cap tracked[g] = {}

(* Which hooks have pages, phase by phase.                                 *)
PhaseSound ==
  /\ \A h \in patched : tracked[h] = Touches[h]
  /\ phase = "install" => /\ patched = 1 .. hook - 1
                          /\ \A h \in Hooks : h > hook => tracked[h] = {}
  /\ phase = "loaded" => hook = 3
  /\ phase = "disable" => \A h \in Hooks : h > hook => h \notin patched
  /\ phase = "free"    => patched = {} /\ \A h \in Hooks : h > hook => tracked[h] = {}
  /\ phase = "finished" => patched = {} /\ \A h \in Hooks : tracked[h] = {}

IndInv == TypeOK /\ (~failed => BitsAccounted /\ PhaseSound)
=============================================================================
