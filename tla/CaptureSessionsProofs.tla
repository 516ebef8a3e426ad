------------------------ MODULE CaptureSessionsProofs -----------------------
(***************************************************************************)
(* The programs that share the capture configuration, for any number of    *)
(* each kind: the configuration follows its last writer, and a refusal     *)
(* stays visible.                                                          *)
(*                                                                         *)
(* What is claimed of a program that runs rests on how it came to run: by  *)
(* the time it does, it has written the configuration last itself, or has  *)
(* not written at all.  Sound(p) says so for every place p can be at; a    *)
(* step of another program keeps it, because that one either leaves the    *)
(* configuration alone or becomes its writer.                              *)
(***************************************************************************)
EXTENDS CaptureSessions, TLAPS

AgentSound(a) ==
  writer = a => /\ pc[a] = "run" => config = a
                /\ pc[a] = "off" => config = saved[a]

TuiSound(t) ==
  /\ pc[t] \in {"start", "configure", "open"} => recording[t]
  /\ pc[t] = "configure" => t \notin ReadOnly
  /\ writer = t => /\ t \notin ReadOnly
                   /\ pc[t] \in {"open", "run"} => config = IF recording[t] THEN t ELSE Off
                   /\ pc[t] = "off" => config = Off

CollectorSound(c) ==
  /\ pc[c] \in {"start", "configure", "open"} => ~refused[c]
  /\ refused[c] => shown[c] = "error" \/ pc[c] \in {"report", "killed"}

WebuiSound(w) ==
  writer = w /\ pc[w] \in {"open", "poll", "push"} => config = IF refused[w] THEN Off ELSE w

(* A program that starts has not written, although its predecessor may.    *)
Sound(p) ==
  /\ pc[p] \in {"start", "save", "configure"} => writer # p
  /\ p \in Agents => AgentSound(p)
  /\ p \in Tuis => TuiSound(p)
  /\ p \in Collectors => CollectorSound(p)
  /\ p \in Webuis => WebuiSound(p)

IInv == TypeOK /\ \A p \in Programs : Sound(p)

Places == {"off", "killed", "start", "save", "configure", "open", "run",
           "poll", "push", "report", "idle"}

LEMMA Kinds ==
  /\ \A a \in Agents : a \in Programs /\ a \notin Tuis /\ a \notin Collectors /\ a \notin Webuis
  /\ \A t \in Tuis : t \in Programs /\ t \notin Agents /\ t \notin Collectors /\ t \notin Webuis
  /\ \A c \in Collectors : c \in Programs /\ c \notin Agents /\ c \notin Tuis
  /\ \A w \in Webuis : w \in Collectors /\ w \notin Mcps
  /\ \A m \in Mcps : m \in Collectors /\ m \notin Webuis
  /\ \A p \in Programs : p \in Agents \/ p \in Tuis \/ p \in Collectors
  /\ \A p \in Programs : p # Off
BY SessionsAssumption DEF Programs, Collectors

LEMMA SessionsInit == Init => IInv
<1> SUFFICES ASSUME Init PROVE IInv
  OBVIOUS
<1>1. TypeOK
  <2>1. 0 \in 0 .. MaxBacklog /\ 0 \in 0 .. Limit
    BY SessionsAssumption
  <2>2. backlog \in [Programs -> 0 .. MaxBacklog] /\ stored \in [Collectors -> 0 .. Limit]
    BY <2>1 DEF Init
  <2>3. pc \in [Programs -> {"off"}] /\ shown \in [Collectors -> {"disabled"}]
    BY DEF Init
  <2>4. /\ cast \in Casts /\ config = Off /\ writer = Off /\ inflight \in BOOLEAN
        /\ saved \in [Agents -> Programs \cup {Off}]
        /\ recording \in [Tuis -> BOOLEAN] /\ refused \in [Collectors -> BOOLEAN]
    BY DEF Init
  <2> QED  BY <2>2, <2>3, <2>4 DEF TypeOK
<1>2. ASSUME NEW p \in Programs PROVE Sound(p)
  BY <1>2, Kinds DEF Init, Sound, AgentSound, TuiSound, CollectorSound, WebuiSound
<1> QED  BY <1>1, <1>2 DEF IInv

(* What is left alone of the other programs, and of the configuration      *)
(* unless p becomes its writer.                                            *)
OnlyOf(p) ==
  /\ \A q \in Programs \ {p} : pc'[q] = pc[q]
  /\ \A a \in Agents \ {p} : saved'[a] = saved[a]
  /\ \A t \in Tuis \ {p} : recording'[t] = recording[t]
  /\ \A c \in Collectors \ {p} : refused'[c] = refused[c] /\ shown'[c] = shown[c]
  /\ writer' = p \/ writer' = Off \/ (writer' = writer /\ config' = config)

(* A step that is p's alone has to be looked at for p alone.               *)
LEMMA OthersStaySound ==
  ASSUME IInv, NEW p \in Programs, OnlyOf(p), TypeOK', Sound(p)'
  PROVE  IInv'
<1>1. ASSUME NEW q \in Programs \ {p} PROVE Sound(q)'
  <2>1. Sound(q) /\ q # Off /\ pc'[q] = pc[q]
    BY Kinds DEF IInv, OnlyOf
  <2>2. writer' = q => writer = q /\ config' = config
    BY <2>1 DEF OnlyOf
  <2>3. q \in Agents => AgentSound(q)'
    BY <2>1, <2>2 DEF Sound, AgentSound, OnlyOf
  <2>4. q \in Tuis => TuiSound(q)'
    BY <2>1, <2>2 DEF Sound, TuiSound, OnlyOf
  <2>5. q \in Collectors => CollectorSound(q)'
    BY <2>1 DEF Sound, CollectorSound, OnlyOf
  <2>6. q \in Webuis => WebuiSound(q)'
    BY <2>1, <2>2, Kinds DEF Sound, WebuiSound, OnlyOf
  <2>7. pc'[q] \in {"start", "save", "configure"} => writer' # q
    BY <2>1, <2>2 DEF Sound
  <2> QED  BY <2>3, <2>4, <2>5, <2>6, <2>7 DEF Sound
<1> QED  BY <1>1 DEF IInv

-----------------------------------------------------------------------------
(* The kernel, and what happens to any program.                            *)

LEMMA KernelStep == ASSUME IInv, DecideToTrace \/ EmitEvent PROVE IInv'
<1>1. UNCHANGED <<cast, config, writer, pc, saved, recording, viewVars>>
  BY DEF DecideToTrace, EmitEvent
<1>2. inflight' \in BOOLEAN
  BY DEF DecideToTrace, EmitEvent
<1>3. backlog' \in [Programs -> 0 .. MaxBacklog]
  <2>1. backlog \in [Programs -> 0 .. MaxBacklog]
    BY DEF IInv, TypeOK
  <2>2. \A p \in Programs : backlog[p] < MaxBacklog => backlog[p] + 1 \in 0 .. MaxBacklog
    BY <2>1, SessionsAssumption
  <2>3. CASE EmitEvent
    BY <2>1, <2>2, <2>3 DEF EmitEvent
  <2> QED  BY <2>1, <2>3 DEF DecideToTrace
<1>4. TypeOK'
  BY <1>1, <1>2, <1>3 DEF IInv, TypeOK, viewVars
<1>5. ASSUME NEW p \in Programs PROVE Sound(p)'
  BY <1>1, <1>5 DEF IInv, Sound, AgentSound, TuiSound, CollectorSound, WebuiSound, viewVars
<1> QED  BY <1>4, <1>5 DEF IInv

LEMMA StartStep == ASSUME IInv, NEW p \in Programs, Start(p) PROVE IInv'
<1>1. TypeOK'
  <2>1. 0 \in 0 .. Limit
    BY SessionsAssumption
  <2>2. stored' \in [Collectors -> 0 .. Limit]
    BY <2>1 DEF Start, IInv, TypeOK
  <2>3. pc' \in [Programs -> Places]
    BY DEF Start, IInv, TypeOK, Places
  <2>4. shown' \in [Collectors -> {"disabled", "connecting", "connected", "error"}]
    BY DEF Start, IInv, TypeOK
  <2>5. /\ UNCHANGED <<cast, config, inflight, backlog, saved>>
        /\ writer' \in Programs \cup {Off}
        /\ recording' \in [Tuis -> BOOLEAN] /\ refused' \in [Collectors -> BOOLEAN]
    BY DEF Start, IInv, TypeOK
  <2> QED  BY <2>2, <2>3, <2>4, <2>5 DEF IInv, TypeOK, Places
<1>2. OnlyOf(p)
  BY Kinds DEF Start, IInv, TypeOK, OnlyOf
<1>3. pc'[p] = "start" /\ writer' # p
  BY Kinds DEF Start, IInv, TypeOK
<1>4. /\ p \in Tuis => recording'[p]
      /\ p \in Collectors => ~refused'[p]
  BY DEF Start, IInv, TypeOK
<1>5. Sound(p)'
  BY <1>3, <1>4 DEF Sound, AgentSound, TuiSound, CollectorSound, WebuiSound
<1> QED  BY <1>1, <1>2, <1>5, OthersStaySound

LEMMA KillStep == ASSUME IInv, NEW p \in Programs, Kill(p) PROVE IInv'
<1>1. TypeOK'
  BY SessionsAssumption DEF Kill, kernelVars, viewVars, IInv, TypeOK
<1>2. OnlyOf(p)
  BY DEF Kill, kernelVars, viewVars, IInv, TypeOK, OnlyOf
<1>3. pc'[p] = "killed" /\ UNCHANGED <<writer, config, recording, refused, shown>>
  BY DEF Kill, kernelVars, viewVars, IInv, TypeOK
<1>4. Sound(p)'
  BY <1>3 DEF IInv, Sound, AgentSound, TuiSound, CollectorSound, WebuiSound
<1> QED  BY <1>1, <1>2, <1>4, OthersStaySound
-----------------------------------------------------------------------------
(* The steps of a program by itself.                                       *)

LEMMA BacklogStaysBounded ==
  ASSUME IInv, NEW p \in Programs,
         \/ UNCHANGED backlog
         \/ backlog' = [backlog EXCEPT ![p] = 0]
         \/ backlog[p] > 0 /\ backlog' = [backlog EXCEPT ![p] = @ - 1]
  PROVE  backlog' \in [Programs -> 0 .. MaxBacklog]
<1>1. backlog \in [Programs -> 0 .. MaxBacklog] /\ 0 \in 0 .. MaxBacklog
  BY SessionsAssumption DEF IInv, TypeOK
<1>2. backlog[p] > 0 => backlog[p] - 1 \in 0 .. MaxBacklog
  <2>1. backlog[p] \in 0 .. MaxBacklog /\ MaxBacklog \in Nat
    BY <1>1, SessionsAssumption
  <2> QED  BY <2>1
<1>3. CASE backlog[p] > 0 /\ backlog' = [backlog EXCEPT ![p] = @ - 1]
  BY <1>1, <1>2, <1>3
<1>4. CASE backlog' = [backlog EXCEPT ![p] = 0]
  BY <1>1, <1>4
<1> QED  BY <1>1, <1>3, <1>4

LEMMA AgentSteps == ASSUME IInv, NEW a \in Agents, AgentStep(a) PROVE IInv'
<1>1. a \in Programs /\ a \notin Tuis /\ a \notin Collectors /\ a \notin Webuis /\ a # Off
  BY Kinds
<1>2. TypeOK'
  <2>1. \/ UNCHANGED backlog
        \/ backlog' = [backlog EXCEPT ![a] = 0]
        \/ backlog[a] > 0 /\ backlog' = [backlog EXCEPT ![a] = @ - 1]
    BY DEF AgentStep, AgentConnect, AgentSave, AgentEnable, AgentCollect, AgentFails, kernelVars
  <2>2. backlog' \in [Programs -> 0 .. MaxBacklog]
    BY <1>1, <2>1, BacklogStaysBounded
  <2>3. pc' \in [Programs -> Places]
    BY <1>1 DEF AgentStep, AgentConnect, AgentSave, AgentEnable, AgentCollect, AgentFails,
                Goto, kernelVars, IInv, TypeOK, Places
  <2>4. /\ UNCHANGED <<cast, inflight, recording, viewVars>>
        /\ config' \in Programs \cup {Off} /\ writer' \in Programs \cup {Off}
        /\ saved' \in [Agents -> Programs \cup {Off}]
    BY <1>1 DEF AgentStep, AgentConnect, AgentSave, AgentEnable, AgentCollect, AgentFails,
                SetConfig, kernelVars, IInv, TypeOK
  <2> QED  BY <2>2, <2>3, <2>4 DEF IInv, TypeOK, Places, viewVars
<1>3. OnlyOf(a)
  BY <1>1 DEF AgentStep, AgentConnect, AgentSave, AgentEnable, AgentCollect, AgentFails,
              Goto, SetConfig, kernelVars, viewVars, IInv, TypeOK, OnlyOf
<1>4. Sound(a)'
  <2>1. (pc'[a] \in {"start", "save", "configure"} => writer' # a) /\ AgentSound(a)'
    BY <1>1 DEF AgentStep, AgentConnect, AgentSave, AgentEnable, AgentCollect, AgentFails,
                Goto, SetConfig, kernelVars, IInv, TypeOK, Sound, AgentSound
  <2> QED  BY <1>1, <2>1 DEF Sound
<1> QED  BY <1>1, <1>2, <1>3, <1>4, OthersStaySound

LEMMA TuiSteps == ASSUME IInv, NEW t \in Tuis, TuiStep(t) PROVE IInv'
<1> USE DEF TuiStep, TuiConnect, TuiEnable, TuiOpen, TuiDrain, TuiToggle, TuiQuit
<1>1. t \in Programs /\ t \notin Agents /\ t \notin Collectors /\ t \notin Webuis /\ t # Off
  BY Kinds
<1>2. TypeOK'
  <2>1. \/ UNCHANGED backlog
        \/ backlog' = [backlog EXCEPT ![t] = 0]
        \/ backlog[t] > 0 /\ backlog' = [backlog EXCEPT ![t] = @ - 1]
    BY DEF kernelVars
  <2>2. backlog' \in [Programs -> 0 .. MaxBacklog]
    BY <1>1, <2>1, BacklogStaysBounded
  <2>3. pc' \in [Programs -> Places]
    BY <1>1 DEF Goto, kernelVars, IInv, TypeOK, Places
  <2>4. /\ UNCHANGED <<cast, inflight, saved, viewVars>>
        /\ config' \in Programs \cup {Off} /\ writer' \in Programs \cup {Off}
        /\ recording' \in [Tuis -> BOOLEAN]
    BY <1>1 DEF SetConfig, kernelVars, IInv, TypeOK
  <2> QED  BY <2>2, <2>3, <2>4 DEF IInv, TypeOK, Places, viewVars
<1>3. OnlyOf(t)
  BY <1>1 DEF Goto, SetConfig, kernelVars, viewVars, IInv, TypeOK, OnlyOf
<1>4. Sound(t)'
  <2>1. (pc'[t] \in {"start", "save", "configure"} => writer' # t) /\ TuiSound(t)'
    BY <1>1, ZenonT(60) DEF Goto, SetConfig, kernelVars, IInv, TypeOK, Sound, TuiSound
  <2> QED  BY <1>1, <2>1 DEF Sound
<1> QED  BY <1>1, <1>2, <1>3, <1>4, OthersStaySound

LEMMA CollectorSteps == ASSUME IInv, NEW c \in Collectors, CollectorStep(c) PROVE IInv'
<1> USE DEF CollectorStep, Connect, Enable, Open, Recv, RecvFails, CollectorFails, Handle, Push,
            WebuiRefuse, McpRefuse, McpReport, ClearHistory, McpTool
<1>1. c \in Programs /\ c \notin Agents /\ c \notin Tuis /\ c # Off /\ (c \in Webuis => c \notin Mcps)
  BY Kinds
<1>2. TypeOK'
  <2>1. \/ UNCHANGED backlog
        \/ backlog' = [backlog EXCEPT ![c] = 0]
        \/ backlog[c] > 0 /\ backlog' = [backlog EXCEPT ![c] = @ - 1]
    BY DEF kernelVars
  <2>2. backlog' \in [Programs -> 0 .. MaxBacklog]
    BY <1>1, <2>1, BacklogStaysBounded
  <2>3. pc' \in [Programs -> Places]
    BY <1>1 DEF Goto, kernelVars, IInv, TypeOK, Places
  <2>4. stored[c] < Limit => stored[c] + 1 \in 0 .. Limit
    BY SessionsAssumption DEF IInv, TypeOK
  <2>5. stored' \in [Collectors -> 0 .. Limit]
    BY <2>4, SessionsAssumption DEF viewVars, IInv, TypeOK
  <2>6. /\ UNCHANGED <<cast, inflight, saved, recording>>
        /\ config' \in Programs \cup {Off} /\ writer' \in Programs \cup {Off}
        /\ refused' \in [Collectors -> BOOLEAN]
    BY <1>1 DEF SetConfig, kernelVars, viewVars, IInv, TypeOK
  <2>7. shown' \in [Collectors -> {"disabled", "connecting", "connected", "error"}]
    BY DEF viewVars, IInv, TypeOK
  <2> QED  BY <2>2, <2>3, <2>5, <2>6, <2>7 DEF IInv, TypeOK, Places
<1>3. OnlyOf(c)
  BY <1>1 DEF Goto, SetConfig, kernelVars, viewVars, IInv, TypeOK, OnlyOf
<1>4. Sound(c)'
  <2>1. (pc'[c] \in {"start", "save", "configure"} => writer' # c) /\ CollectorSound(c)'
    BY <1>1 DEF Goto, SetConfig, Serving, kernelVars, viewVars, IInv, TypeOK, Sound, CollectorSound
  <2>2. c \in Webuis => WebuiSound(c)'
    BY <1>1 DEF Goto, SetConfig, Serving, kernelVars, viewVars, IInv, TypeOK, Sound,
                WebuiSound, CollectorSound
  <2> QED  BY <1>1, <2>1, <2>2 DEF Sound
<1> QED  BY <1>1, <1>2, <1>3, <1>4, OthersStaySound

LEMMA SessionsStep == IInv /\ [Next]_vars => IInv'
<1> SUFFICES ASSUME IInv, [Next]_vars PROVE IInv'
  OBVIOUS
<1>1. CASE Next
  BY <1>1, KernelStep, StartStep, KillStep, AgentSteps, TuiSteps, CollectorSteps DEF Next
<1>2. CASE UNCHANGED vars
  <2>1. UNCHANGED <<cast, config, writer, inflight, backlog, pc, saved, recording,
                    stored, refused, shown>>
    BY <1>2 DEF vars, kernelVars, viewVars
  <2>2. TypeOK'
    BY <2>1 DEF IInv, TypeOK
  <2>3. ASSUME NEW p \in Programs PROVE Sound(p)'
    BY <2>1 DEF IInv, Sound, AgentSound, TuiSound, CollectorSound, WebuiSound
  <2> QED  BY <2>2, <2>3 DEF IInv
<1> QED  BY <1>1, <1>2

(* The invariant holds of any number of programs of each kind.             *)
THEOREM SessionsInvariance == Spec => []IInv
  BY SessionsInit, SessionsStep, PTL DEF Spec

(* Backlogs and histories stay within their limits, and every program is   *)
(* at a place its code has.                                                *)
THEOREM SessionsTypeCorrect == Spec => []TypeOK
<1>1. IInv => TypeOK
  BY DEF IInv
<1> QED  BY SessionsInvariance, <1>1, PTL

(* Whatever the others do, a program that wrote the configuration last has *)
(* left it as its own state says (agent.rs:107-121, tui/mod.rs:747-806,    *)
(* events.rs:656-706).                                                     *)
THEOREM ConfigCorrect == Spec => []ConfigFollowsItsWriter
<1>1. IInv => ConfigFollowsItsWriter
  BY Kinds DEF IInv, Sound, AgentSound, TuiSound, WebuiSound, ConfigFollowsItsWriter
<1> QED  BY SessionsInvariance, <1>1, PTL

(* From the refusal on the error stays visible, over clearing and          *)
(* re-enabling too (server.rs:417-444, events.rs:697-706).                 *)
THEOREM RefusalCorrect == Spec => []RefusalStaysVisible
<1>1. IInv => RefusalStaysVisible
  BY Kinds DEF IInv, Sound, CollectorSound, RefusalStaysVisible
<1> QED  BY SessionsInvariance, <1>1, PTL

(* A TUI that was started with --no-enable never writes the configuration  *)
(* (main.rs:373-376, tui/mod.rs:747-806), as README.en.md says of the      *)
(* WebUI, where ReadOnlyKeepsConfig fails.                                 *)
THEOREM ReadOnlyTuisNeverWrite == Spec => [](writer \notin Tuis \cap ReadOnly)
<1>1. IInv => writer \notin Tuis \cap ReadOnly
  BY Kinds DEF IInv, Sound, TuiSound
<1> QED  BY SessionsInvariance, <1>1, PTL
=============================================================================
