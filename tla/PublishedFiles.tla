--------------------------- MODULE PublishedFiles --------------------------
(***************************************************************************)
(* The two files programs put where others look for them: the startup      *)
(* marker every program writes (crates/bt-cli/src/startup_marker.rs), and  *)
(* the table of Android's Binder methods, which is unpacked on first use   *)
(* unless there is one (crates/bt-decoder/src/android_platform_methods.rs).*)
(* Both are written beside their place and then moved there.               *)
(*                                                                         *)
(* Programs run at the same time, are killed, and start again under the    *)
(* same process id; the user puts a table of his own in place and takes    *)
(* tables away.  Content is what it is of: half of it, all of it, or the   *)
(* user's own.                                                             *)
(***************************************************************************)

CONSTANT Programs   (* by process id                                       *)

Contents == {"none", "half", "whole", "custom"}

VARIABLES
  pc,        (* where each program stands                                  *)
  table,     (* the file at the table's path                               *)
  marker,    (* the file at the marker's path                              *)
  tableTmp,  (* the file each program unpacks to                           *)
  markerTmp, (* the file each program writes its marker to                 *)
  loaded,    (* the table each program has read                            *)
  unlinkable,(* a hard link has failed for another reason than a file that *)
             (* was there                                                  *)
  replaced   (* a table of the user's was written over                     *)

vars == <<pc, table, marker, tableTmp, markerTmp, loaded, unlinkable, replaced>>

Steps ==
  {"marker write", "marker half", "marker permissions", "marker rename",
   "check", "create", "copy", "link", "recheck", "rename", "remove", "read",
   "running", "stopped"}

Init ==
  /\ pc = [p \in Programs |-> "marker write"]
  /\ table = "none" /\ marker = "none"
  /\ tableTmp  = [p \in Programs |-> "none"]
  /\ markerTmp = [p \in Programs |-> "none"]
  /\ loaded    = [p \in Programs |-> "none"]
  /\ unlinkable = FALSE /\ replaced = FALSE

GoesOn(p, from, to) == pc[p] = from /\ pc' = [pc EXCEPT ![p] = to]

TableAlone  == UNCHANGED <<marker, markerTmp>>
MarkerAlone == UNCHANGED <<table, tableTmp, loaded, unlinkable, replaced>>

-----------------------------------------------------------------------------
(* The marker: write_atomic.  Whatever fails is a warning.                 *)

(* The parent directory is not there.                                      *)
SkipMarker(p) ==
  /\ GoesOn(p, "marker write", "check")
  /\ UNCHANGED <<marker, markerTmp>> /\ MarkerAlone

BeginMarker(p) ==
  /\ GoesOn(p, "marker write", "marker half")
  /\ markerTmp' = [markerTmp EXCEPT ![p] = "half"]
  /\ UNCHANGED marker /\ MarkerAlone

WriteMarker(p) ==
  /\ GoesOn(p, "marker half", "marker permissions")
  /\ markerTmp' = [markerTmp EXCEPT ![p] = "whole"]
  /\ UNCHANGED marker /\ MarkerAlone

SetPermissions(p) ==
  /\ GoesOn(p, "marker permissions", "marker rename")
  /\ UNCHANGED <<marker, markerTmp>> /\ MarkerAlone

RenameMarker(p) ==
  /\ GoesOn(p, "marker rename", "check")
  /\ marker' = markerTmp[p]
  /\ markerTmp' = [markerTmp EXCEPT ![p] = "none"]
  /\ MarkerAlone

(* The file is removed then, if it can be.                                 *)
MarkerFails(p) ==
  /\ \E from \in {"marker write", "marker half", "marker permissions", "marker rename"} :
       GoesOn(p, from, "check")
  /\ \/ markerTmp' = [markerTmp EXCEPT ![p] = "none"]
     \/ UNCHANGED markerTmp
  /\ UNCHANGED marker /\ MarkerAlone

-----------------------------------------------------------------------------
(* The table: load_android_platform_methods.                               *)

CheckTable(p) ==
  /\ GoesOn(p, "check", IF table = "none" THEN "create" ELSE "read")
  /\ UNCHANGED <<table, tableTmp, loaded, unlinkable, replaced>> /\ TableAlone

(* A file that a killed program of the same id has left is removed first.  *)
CreateTemp(p) ==
  /\ GoesOn(p, "create", "copy")
  /\ tableTmp' = [tableTmp EXCEPT ![p] = "half"]
  /\ UNCHANGED <<table, loaded, unlinkable, replaced>> /\ TableAlone

CopyTable(p) ==
  /\ GoesOn(p, "copy", "link")
  /\ tableTmp' = [tableTmp EXCEPT ![p] = "whole"]
  /\ UNCHANGED <<table, loaded, unlinkable, replaced>> /\ TableAlone

(* Faulty variant: the file is renamed to its place at once.               *)
HardLinkRenames(p) ==
  /\ GoesOn(p, "link", "remove")
  /\ table'    = tableTmp[p]
  /\ replaced' = (replaced \/ table = "custom")
  /\ UNCHANGED <<tableTmp, loaded, unlinkable>> /\ TableAlone

(* publish_temp_tsv: a hard link never replaces a file.                    *)
HardLink(p) ==
  /\ GoesOn(p, "link", "remove")
  /\ table' = IF table = "none" THEN tableTmp[p] ELSE table
  /\ UNCHANGED <<tableTmp, loaded, unlinkable, replaced>> /\ TableAlone

HardLinkFails(p) ==
  /\ GoesOn(p, "link", "recheck")
  /\ unlinkable' = TRUE
  /\ UNCHANGED <<table, tableTmp, loaded, replaced>> /\ TableAlone

Recheck(p) ==
  /\ GoesOn(p, "recheck", IF table = "none" THEN "rename" ELSE "remove")
  /\ UNCHANGED <<table, tableTmp, loaded, unlinkable, replaced>> /\ TableAlone

(* A rename replaces what has come since.                                  *)
RenameTable(p) ==
  /\ GoesOn(p, "rename", "read")
  /\ table'    = tableTmp[p]
  /\ tableTmp' = [tableTmp EXCEPT ![p] = "none"]
  /\ replaced' = (replaced \/ table = "custom")
  /\ UNCHANGED <<loaded, unlinkable>> /\ TableAlone

(* The file keeps lying there when it cannot be removed.                   *)
RemoveTemp(p) ==
  /\ GoesOn(p, "remove", "read")
  /\ \/ tableTmp' = [tableTmp EXCEPT ![p] = "none"]
     \/ UNCHANGED tableTmp
  /\ UNCHANGED <<table, loaded, unlinkable, replaced>> /\ TableAlone

ReadTable(p) ==
  /\ table # "none"
  /\ GoesOn(p, "read", "running")
  /\ loaded' = [loaded EXCEPT ![p] = table]
  /\ UNCHANGED <<table, tableTmp, unlinkable, replaced>> /\ TableAlone

(* Unpacking fails, or the table has gone in the meantime or is one of the *)
(* user's that makes no sense: a panic, which ends the program, or its     *)
(* thread, whose successor tries again.                                    *)
LoadingFails(p) ==
  /\ \E to \in {"check", "stopped"} :
       \/ \E from \in {"create", "copy", "rename"} : GoesOn(p, from, to)
       \/ GoesOn(p, "read", to) /\ table \in {"none", "custom"}
  /\ \/ tableTmp' = [tableTmp EXCEPT ![p] = IF pc[p] = "read" THEN @ ELSE "none"]
     \/ UNCHANGED tableTmp
  /\ UNCHANGED <<table, loaded, unlinkable, replaced>> /\ TableAlone

-----------------------------------------------------------------------------
(* What happens to programs and files from outside.                        *)

Kill(p) ==
  /\ pc[p] # "stopped"
  /\ pc' = [pc EXCEPT ![p] = "stopped"]
  /\ UNCHANGED <<marker, markerTmp>> /\ MarkerAlone

Start(p) ==
  /\ GoesOn(p, "stopped", "marker write")
  /\ loaded' = [loaded EXCEPT ![p] = "none"]
  /\ UNCHANGED <<table, marker, tableTmp, markerTmp, unlinkable, replaced>>

UserPutsTable ==
  /\ table' = "custom"
  /\ UNCHANGED <<pc, tableTmp, loaded, unlinkable, replaced>> /\ TableAlone

UserTakesTable ==
  /\ table' = "none"
  /\ UNCHANGED <<pc, tableTmp, loaded, unlinkable, replaced>> /\ TableAlone

Next ==
  \/ \E p \in Programs :
       \/ SkipMarker(p) \/ BeginMarker(p) \/ WriteMarker(p) \/ SetPermissions(p)
       \/ RenameMarker(p) \/ MarkerFails(p)
       \/ CheckTable(p) \/ CreateTemp(p) \/ CopyTable(p) \/ HardLink(p) \/ HardLinkFails(p)
       \/ Recheck(p) \/ RenameTable(p) \/ RemoveTemp(p) \/ ReadTable(p) \/ LoadingFails(p)
       \/ Kill(p) \/ Start(p)
  \/ UserPutsTable \/ UserTakesTable

Spec == Init /\ [][Next]_vars

-----------------------------------------------------------------------------
TypeOK ==
  /\ pc \in [Programs -> Steps]
  /\ table \in Contents /\ marker \in Contents
  /\ tableTmp \in [Programs -> Contents] /\ markerTmp \in [Programs -> Contents]
  /\ loaded \in [Programs -> Contents]
  /\ unlinkable \in BOOLEAN /\ replaced \in BOOLEAN

(* Nobody finds half a file at the table's or the marker's path, or has    *)
(* read half a table, whoever was killed in the middle of what; and a      *)
(* table the user put there is written over at most where hard links do    *)
(* not work.                                                               *)
PublishedIsComplete ==
  /\ table # "half" /\ marker # "half"
  /\ \A p \in Programs : loaded[p] # "half"
  /\ replaced => unlinkable

-----------------------------------------------------------------------------
(* What is moved to its place is whole by then, and is only renamed there  *)
(* once a link has failed.                                                 *)
IndInv ==
  /\ TypeOK
  /\ PublishedIsComplete
  /\ \A p \in Programs :
       /\ pc[p] \in {"link", "recheck", "rename"} => tableTmp[p] = "whole"
       /\ pc[p] \in {"recheck", "rename"} => unlinkable
       /\ pc[p] \in {"marker permissions", "marker rename"} => markerTmp[p] = "whole"
=============================================================================
