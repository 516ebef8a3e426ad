---------------------------- MODULE SocketFamily ---------------------------
(***************************************************************************)
(* How a program finds the kernel module (kernel/src/ipc/bt_protocol.c,    *)
(* SocketIpcClient::connect of crates/bt-agent/src/socket_ipc.rs): the     *)
(* module takes the first free protocol family, the program tries one      *)
(* family after the other and asks whoever answers who it is.  In between  *)
(* modules are loaded and the module is unloaded.                          *)
(*                                                                         *)
(* A family is what its sockets answer.  "ours" and "older" are versions   *)
(* of the module; of the families of others, a "silent" one is told by its *)
(* answer to a stream socket, a "strict" one answers that like the module  *)
(* and then refuses the raw socket, an "alien" one opens it and knows no   *)
(* such ioctl, or gives another magic, and a "broken" one fails it in      *)
(* another way.                                                            *)
(***************************************************************************)
EXTENDS Integers

CONSTANTS
  First, Last   (* BT_FIRST_FAMILY: AF_DECnet, BT_LAST_FAMILY - 1          *)

ASSUME SocketFamilyAssumption == First \in Nat /\ Last \in Nat /\ First <= Last

Families == First .. Last
Foreign  == {"silent", "strict", "alien", "broken"}
Versions == {"ours", "older"}
Results  == {"none", "connected", "not found", "abi", "error"}

VARIABLES
  family,   (* what answers on each family                                 *)
  root,     (* the program runs as root                                    *)
  pc,       (* where the scan stands                                       *)
  at,       (* the family it tries                                         *)
  result,   (* what connect returned                                       *)
  away      (* the module was not there at some time since connect began   *)

vars == <<family, root, pc, at, result, away>>

Init ==
  /\ family = [f \in Families |-> "free"]
  /\ root \in BOOLEAN
  /\ pc = "idle" /\ at = First /\ result = "none"
  /\ away = TRUE

Loaded == \E f \in Families : family[f] \in Versions

-----------------------------------------------------------------------------
(* The kernel.                                                             *)

RegisterForeign(f, kind) ==
  /\ family[f] = "free"
  /\ family' = [family EXCEPT ![f] = kind]
  /\ UNCHANGED <<root, pc, at, result, away>>

(* bt_register_free_family, one family after the other until one is free.  *)
RegisterFreeFamily(version) ==
  /\ ~Loaded
  /\ \E f \in Families :
       /\ family[f] = "free"
       /\ \A g \in Families : g < f => family[g] # "free"
       /\ family' = [family EXCEPT ![f] = version]
  /\ UNCHANGED <<root, pc, at, result, away>>

(* A socket of the family keeps the module from being unloaded.            *)
Holds(f) == at = f /\ (pc = "feature" \/ result = "connected")

ProtocolCleanup ==
  /\ \E f \in Families :
       /\ family[f] \in Versions /\ ~Holds(f)
       /\ family' = [family EXCEPT ![f] = "free"]
  /\ away' = TRUE
  /\ UNCHANGED <<root, pc, at, result>>

(* bt_sock_create: what the two kinds of socket get.                       *)
LooksLikeBinderTrace(f) ==
  \/ family[f] \in Versions /\ root
  \/ family[f] \in {"strict", "alien", "broken"}

-----------------------------------------------------------------------------
(* The program.                                                            *)

Connect ==
  /\ pc = "idle" /\ result = "none"
  /\ pc' = "probe" /\ at' = First
  /\ away' = ~Loaded
  /\ UNCHANGED <<family, root, result>>

Skip       == pc' = "probe" /\ at' = at + 1 /\ UNCHANGED result
Return(r)  == pc' = "idle" /\ result' = r /\ UNCHANGED at

(* Faulty variant: the last family is left out.                            *)
NotFoundEarly ==
  /\ pc = "probe" /\ at >= Last
  /\ Return("not found")
  /\ UNCHANGED <<family, root, away>>

NotFound ==
  /\ pc = "probe" /\ at > Last
  /\ Return("not found")
  /\ UNCHANGED <<family, root, away>>

(* family_looks_like_binder_trace: a stream socket.                        *)
Probe ==
  /\ pc = "probe" /\ at <= Last
  /\ IF LooksLikeBinderTrace(at) THEN pc' = "open" /\ UNCHANGED <<at, result>> ELSE Skip
  /\ UNCHANGED <<family, root, away>>

(* Faulty variant: any error of the raw socket counts as no such family.   *)
OpenRawSkips ==
  /\ pc = "open"
  /\ IF family[at] \in Versions \cup {"alien", "broken"}
       THEN pc' = "feature" /\ UNCHANGED <<at, result>> ELSE Skip
  /\ UNCHANGED <<family, root, away>>

(* open_raw_socket: a family that has gone is skipped, any other error     *)
(* ends the scan, be it that of a lack of memory.  Whoever is silent may   *)
(* open one or not.                                                        *)
OpenRawSocket ==
  /\ pc = "open"
  /\ \/ /\ family[at] = "free"
        /\ Skip
     \/ /\ family[at] # "free"
        /\ Return("error")
     \/ /\ family[at] \in Versions \cup {"alien", "broken", "silent"}
        /\ pc' = "feature" /\ UNCHANGED <<at, result>>
  /\ UNCHANGED <<family, root, away>>

(* get_feature: magic and version.                                         *)
GetFeature ==
  /\ pc = "feature"
  /\ \/ family[at] = "ours"  /\ Return("connected")
     \/ family[at] = "older" /\ Return("abi")
     \/ family[at] \in {"alien", "silent"}  /\ Skip
     \/ family[at] \in {"broken", "silent"} /\ Return("error")
  /\ UNCHANGED <<family, root, away>>

Next ==
  \/ \E f \in Families, kind \in Foreign : RegisterForeign(f, kind)
  \/ \E version \in Versions : RegisterFreeFamily(version)
  \/ ProtocolCleanup
  \/ Connect \/ Probe \/ NotFound \/ OpenRawSocket \/ GetFeature

Spec == Init /\ [][Next]_vars

-----------------------------------------------------------------------------
TypeOK ==
  /\ family \in [Families -> {"free"} \cup Foreign \cup Versions]
  /\ root \in BOOLEAN
  /\ pc \in {"idle", "probe", "open", "feature"}
  /\ at \in First .. Last + 1
  /\ pc \in {"open", "feature"} => at <= Last
  /\ result \in Results
  /\ away \in BOOLEAN

(* What connect says is so: a client speaks to the module in its own       *)
(* version as long as it keeps the socket, and root is told that there is  *)
(* no module only if there was none at some time of the scan, whatever     *)
(* came and went meanwhile.                                                *)
ConnectTellsTheTruth ==
  /\ result = "connected" => at \in Families /\ family[at] = "ours"
  /\ result = "not found" /\ root => away
=============================================================================
