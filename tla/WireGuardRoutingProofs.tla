----------------------- MODULE WireGuardRoutingProofs -----------------------
(***************************************************************************)
(* Theorems about WireGuardRouting for any clients, protected clients,     *)
(* saved profiles and bounds on the environment.                           *)
(***************************************************************************)
EXTENDS WireGuardRouting, TLAPS

-----------------------------------------------------------------------------
\* The inductive invariant.
\* Once the script is past the kill switch of the backup table, that table has a
\* default route, or one the kernel dropped; a rule that points to it came later.
BackupFilled ==
  /\ script.at = "flush" => script.table # "backup"
  /\ script.at \in {"drop", "add", "status"} => table["backup"] # "none"
  /\ script.at \in {"routes", "default"} /\ script.table = "backup"
       => table["backup"] # "none"
  /\ \A c \in Clients : rule[c] = "backup" => table["backup"] # "none"

\* A PATCH about to be saved has been verified, and only the kernel may have
\* dropped its route since.
SaveVerified ==
  job.pc = "save" =>
    /\ rule[job.client] = job.want
    /\ \/ Egress(job.client) = IF job.want = "auto" THEN "general" ELSE job.want
       \/ job.want \in Tables /\ table[job.want] = "lost"

RoutingInv == TypeOK /\ BackupFilled /\ SaveVerified

\* What RunScript does to a job, to the script and to the history.
LEMMA RunScriptEffect ==
  ASSUME NEW j \in Jobs, NEW m \in Modes, failed \subseteq Clients, RunScript(j, m)
  PROVE  /\ job' \in Jobs /\ script' \in Scripts /\ failed' \subseteq Clients
         /\ job'.pc = "script" <=> script'.at # "off"
         /\ job'.pc # "save"
         /\ script'.at \in {"off", "flush"} /\ script'.table = "openvpn"
<1>1. /\ NoScript \in Scripts /\ NoScript.at = "off" /\ NoScript.table = "openvpn"
      /\ j.client \in Clients
  BY DEF NoScript, Scripts, Modes, Tables, Jobs
<1>2. CASE j.client \in Protected /\ m # "auto"
  BY <1>1, <1>2 DEF RunScript, Jobs
<1>3. CASE ~ (j.client \in Protected /\ m # "auto")
  <2>1. /\ job' = [j EXCEPT !.pc = "script"]
        /\ script' = [NoScript EXCEPT !.at = "flush", !.mode = m]
        /\ failed' = failed
    BY <1>3 DEF RunScript
  <2> QED
    BY <1>1, <2>1 DEF Jobs, Scripts
<1> QED
  BY <1>2, <1>3

\* The absence of a job or a script is well typed.
LEMMA NoJobFacts ==
  NoJob \in Jobs /\ NoJob.pc = "idle" /\ NoScript \in Scripts /\ NoScript.at = "off"
<1>1. (CHOOSE c \in Clients : TRUE) \in Clients
  BY RoutingAssumption
<1> QED
  BY <1>1 DEF NoJob, Jobs, NoScript, Scripts, Modes, Tables

\* How a client whose rule looks up a dedicated table leaves the host.
LEMMA EgressFacts ==
  ASSUME NEW c \in Clients, rule[c] \in Tables
  PROVE  /\ Egress(c) = rule[c] <=> table[rule[c]] = "backend"
         /\ Egress(c) = "general" <=> table[rule[c]] \notin {"backend", "unreachable"}
<1>1. /\ rule[c] # "direct" /\ rule[c] # "blocked" /\ rule[c] # "general"
  BY DEF Tables
<1>2. CASE table[rule[c]] = "backend"
  BY <1>1, <1>2 DEF Egress
<1>3. CASE table[rule[c]] = "unreachable"
  BY <1>1, <1>3 DEF Egress
<1>4. CASE table[rule[c]] \notin {"backend", "unreachable"}
  BY <1>1, <1>4 DEF Egress
<1> QED
  BY <1>2, <1>3, <1>4

\* Spending from the budget leaves a budget.
LEMMA SpendFacts ==
  ASSUME left \in Bounds,
         NEW what \in {"patches", "changes", "drops", "unplugs", "crashes", "hangs", "faults"},
         Spend(what)
  PROVE  left' \in Bounds
<1>1. left[what] \in Nat /\ left[what] - 1 \in Nat
  BY DEF Spend, Bounds
<1> QED
  BY <1>1 DEF Spend, Bounds

\* What the kernel has at boot.
LEMMA BootFacts ==
  ASSUME NEW n \in BootNets
  PROVE  /\ n \in Nets /\ n.up \subseteq n.dev
         /\ BootTable(n) \in [Tables -> Routes]
         /\ \A t \in Tables : BootTable(n)[t] = "backend" => t \in n.dev
<1>1. PICK d \in BootDevices :
        n = [dev |-> d, up |-> d, internal |-> TRUE, general |-> TRUE]
  BY DEF BootNets
<1>2. d \in SUBSET Tables
  BY RoutingAssumption
<1> QED
  BY <1>1, <1>2 DEF Nets, BootTable, Routes

\* The invariant holds at first.
LEMMA RoutingInit == Init => RoutingInv
<1> SUFFICES ASSUME Init PROVE RoutingInv
  OBVIOUS
<1>1. TypeOK
  <2>1. saved \in [Clients -> Modes] /\ left \in Bounds
    BY RoutingAssumption DEF Init
  <2>2. rule \in [Clients -> Modes]
    BY DEF Init, Modes
  <2>3. /\ net \in Nets /\ net.up \subseteq net.dev /\ table \in [Tables -> Routes]
        /\ \A t \in Tables : table[t] = "backend" => t \in net.dev
    BY BootFacts DEF Init
  <2>4. /\ mode \in {"down", "starting", "serving"} /\ todo \subseteq Clients
        /\ job \in Jobs /\ script \in Scripts /\ failed \subseteq Clients
        /\ job.pc = "script" <=> script.at # "off"
    BY NoJobFacts DEF Init
  <2> QED
    BY <2>1, <2>2, <2>3, <2>4 DEF TypeOK
<1>2. BackupFilled /\ SaveVerified
  BY NoJobFacts DEF Init, BackupFilled, SaveVerified
<1> QED
  BY <1>1, <1>2 DEF RoutingInv

\* Preservation, one lemma per group of actions. The panel's own steps:
LEMMA PatchStep ==
  ASSUME RoutingInv, NEW c \in Clients, NEW m \in Modes, Patch(c, m)
  PROVE  RoutingInv'
<1> DEFINE j == [NoJob EXCEPT !.client = c, !.want = m, !.prev = saved[c]]
<1>1. j \in Jobs
  BY NoJobFacts DEF Jobs, RoutingInv, TypeOK
<1>2. RunScript(j, m) /\ Spend("patches")
  BY DEF Patch
<1>3. left' \in Bounds
  BY <1>2, SpendFacts DEF RoutingInv, TypeOK
<1> HIDE DEF j
<1>4. /\ job' \in Jobs /\ script' \in Scripts /\ failed' \subseteq Clients
      /\ job'.pc = "script" <=> script'.at # "off"
      /\ job'.pc # "save"
      /\ script'.at \in {"off", "flush"} /\ script'.table = "openvpn"
  BY <1>1, <1>2, RunScriptEffect DEF RoutingInv, TypeOK
<1>5. TypeOK'
  BY <1>3, <1>4 DEF RoutingInv, TypeOK, Patch
<1>6. BackupFilled' /\ SaveVerified'
  BY <1>4 DEF RoutingInv, BackupFilled, SaveVerified, Patch
<1> QED
  BY <1>5, <1>6 DEF RoutingInv

\* Starting the replay of a profile keeps the invariant.
LEMMA ReplayStep ==
  ASSUME RoutingInv, NEW c \in Clients, Replay(c)
  PROVE  RoutingInv'
<1> DEFINE j == [NoJob EXCEPT !.phase = "replay", !.client = c, !.want = saved[c]]
<1>1. j \in Jobs /\ saved[c] \in Modes
  BY NoJobFacts DEF Jobs, RoutingInv, TypeOK
<1>2. RunScript(j, saved[c])
  BY DEF Replay
<1> HIDE DEF j
<1>3. /\ job' \in Jobs /\ script' \in Scripts /\ failed' \subseteq Clients
      /\ job'.pc = "script" <=> script'.at # "off"
      /\ job'.pc # "save"
      /\ script'.at \in {"off", "flush"} /\ script'.table = "openvpn"
  BY <1>1, <1>2, RunScriptEffect DEF RoutingInv, TypeOK
<1>4. TypeOK'
  BY <1>3 DEF RoutingInv, TypeOK, Replay
<1>5. BackupFilled' /\ SaveVerified'
  BY <1>3 DEF RoutingInv, BackupFilled, SaveVerified, Replay
<1> QED
  BY <1>4, <1>5 DEF RoutingInv

\* A job goes on to its save only with the verified route.
LEMMA VerifyStep ==
  ASSUME RoutingInv, Verify
  PROVE  RoutingInv'
<1>1. left' \in Bounds
  BY SpendFacts DEF RoutingInv, TypeOK, Verify
<1>2. job' \in Jobs /\ job'.pc # "script" /\ script.at = "off"
  BY NoJobFacts DEF RoutingInv, TypeOK, Verify, Jobs
<1>3. TypeOK'
  BY <1>1, <1>2 DEF RoutingInv, TypeOK, Verify
<1>4. BackupFilled'
  BY DEF RoutingInv, BackupFilled, Verify
<1>5. ASSUME job'.pc = "save"
      PROVE  /\ IsApplied(job.client, job.want)
             /\ job'.client = job.client /\ job'.want = job.want
             /\ rule' = rule /\ table' = table
  <2>1. /\ IsApplied(job.client, Target) /\ job.phase = "patch"
        /\ job' = [job EXCEPT !.pc = "save"] /\ rule' = rule /\ table' = table
    BY <1>5, NoJobFacts DEF Verify, RoutingInv, TypeOK, Jobs
  <2>2. Target = job.want
    BY <2>1 DEF Target
  <2> QED
    BY <2>1, <2>2 DEF RoutingInv, TypeOK, Jobs
<1>6. SaveVerified'
  BY <1>5 DEF SaveVerified, IsApplied, Egress
<1> QED
  BY <1>3, <1>4, <1>6 DEF RoutingInv

\* Starting a roll back, or giving up, keeps the invariant.
LEMMA FailedStep ==
  ASSUME RoutingInv, Failed
  PROVE  RoutingInv'
<1> DEFINE j == [job EXCEPT !.phase = "rollback"]
<1>1. j \in Jobs /\ job.prev \in Modes /\ script \in Scripts /\ script.at = "off"
  BY DEF Jobs, RoutingInv, TypeOK, Failed
<1>2. CASE RunScript(j, job.prev)
  <2> HIDE DEF j
  <2>1. /\ job' \in Jobs /\ script' \in Scripts /\ failed' \subseteq Clients
        /\ job'.pc = "script" <=> script'.at # "off"
        /\ job'.pc # "save"
        /\ script'.at \in {"off", "flush"} /\ script'.table = "openvpn"
    BY <1>1, <1>2, RunScriptEffect DEF RoutingInv, TypeOK
  <2>2. TypeOK'
    BY <2>1 DEF RoutingInv, TypeOK, Failed
  <2>3. BackupFilled' /\ SaveVerified'
    BY <2>1 DEF RoutingInv, BackupFilled, SaveVerified, Failed
  <2> QED
    BY <2>2, <2>3 DEF RoutingInv
<1>3. CASE job' = NoJob /\ UNCHANGED <<script, failed>>
  <2>1. TypeOK'
    BY <1>1, <1>3, NoJobFacts DEF RoutingInv, TypeOK, Failed
  <2>2. BackupFilled' /\ SaveVerified'
    BY <1>3, NoJobFacts DEF RoutingInv, BackupFilled, SaveVerified, Failed
  <2> QED
    BY <2>1, <2>2 DEF RoutingInv
<1> QED
  BY <1>2, <1>3 DEF Failed

\* A save, or a save that fails, keeps the invariant.
LEMMA SaveStep ==
  ASSUME RoutingInv, Save
  PROVE  RoutingInv'
<1> DEFINE j == [job EXCEPT !.phase = "rollback"]
<1>1. j \in Jobs /\ job.prev \in Modes /\ script \in Scripts /\ script.at = "off"
  BY DEF Jobs, RoutingInv, TypeOK, Save
<1>2. CASE Spend("faults") /\ RunScript(j, job.prev) /\ UNCHANGED saved
  <2> HIDE DEF j
  <2>1. /\ job' \in Jobs /\ script' \in Scripts /\ failed' \subseteq Clients
        /\ job'.pc = "script" <=> script'.at # "off"
        /\ job'.pc # "save"
        /\ script'.at \in {"off", "flush"} /\ script'.table = "openvpn"
    BY <1>1, <1>2, RunScriptEffect DEF RoutingInv, TypeOK
  <2>2. left' \in Bounds
    BY <1>2, SpendFacts DEF RoutingInv, TypeOK
  <2>3. TypeOK'
    BY <1>2, <2>1, <2>2 DEF RoutingInv, TypeOK, Save
  <2>4. BackupFilled' /\ SaveVerified'
    BY <2>1 DEF RoutingInv, BackupFilled, SaveVerified, Save
  <2> QED
    BY <2>3, <2>4 DEF RoutingInv
<1>3. CASE /\ saved' = [saved EXCEPT ![job.client] = job.want]
           /\ job' = NoJob /\ UNCHANGED <<script, failed, left>>
  <2>1. saved' \in [Clients -> Modes]
    BY <1>3 DEF RoutingInv, TypeOK, Jobs
  <2>2. TypeOK'
    BY <1>1, <1>3, <2>1, NoJobFacts DEF RoutingInv, TypeOK, Save
  <2>3. BackupFilled' /\ SaveVerified'
    BY <1>3, NoJobFacts DEF RoutingInv, BackupFilled, SaveVerified, Save
  <2> QED
    BY <2>2, <2>3 DEF RoutingInv
<1> QED
  BY <1>2, <1>3 DEF Save

\* An aborted or killed script keeps the invariant, if it leaves the routes alone.
LEMMA AbortStep ==
  ASSUME RoutingInv, Abort, UNCHANGED <<saved, rule, table, net, mode, todo, left>>
  PROVE  RoutingInv'
<1>1. /\ job' \in Jobs /\ job'.pc = "failed" /\ script' \in Scripts /\ script'.at = "off"
      /\ failed' \subseteq Clients
  BY NoJobFacts DEF Abort, RoutingInv, TypeOK, Jobs
<1>2. TypeOK'
  BY <1>1 DEF RoutingInv, TypeOK
<1>3. BackupFilled' /\ SaveVerified'
  BY <1>1 DEF RoutingInv, BackupFilled, SaveVerified
<1> QED
  BY <1>2, <1>3 DEF RoutingInv

\* The steps of the script: it runs for a job that is not about to be saved.
LEMMA ScriptStep ==
  ASSUME RoutingInv, Script
  PROVE  RoutingInv'
<1> USE DEF Scripting
<1>1. /\ job.pc = "script" /\ script.at # "off" /\ job.client \in Clients
      /\ script \in Scripts /\ job \in Jobs
      /\ table \in [Tables -> Routes] /\ rule \in [Clients -> Modes]
  BY DEF RoutingInv, TypeOK, Script, Jobs, FlushTable, CommonRoutes, CheckBackend,
         KillSwitch, DefaultRoute, DropRule, AddRule, ShowStatus
<1>2. script.table \in Tables /\ script.mode \in Modes /\ "backup" \in Tables
  BY <1>1 DEF Scripts, Tables
<1>3. ASSUME FlushTable PROVE RoutingInv'
  <2>1. TypeOK'
    BY <1>1, <1>2, <1>3 DEF FlushTable, RoutingInv, TypeOK, Scripts, Routes
  <2>2. BackupFilled' /\ SaveVerified'
    BY <1>1, <1>2, <1>3 DEF FlushTable, RoutingInv, BackupFilled, SaveVerified, Scripts
  <2> QED
    BY <2>1, <2>2 DEF RoutingInv
<1>4. ASSUME CommonRoutes PROVE RoutingInv'
  <2>1. CASE net.internal
    <3>1. /\ script' \in Scripts /\ script'.at \in {"check", "default"}
          /\ script'.table = script.table
          /\ UNCHANGED <<saved, rule, table, net, mode, job, todo, failed, left>>
      BY <1>1, <1>4, <2>1 DEF CommonRoutes, Scripts
    <3>2. TypeOK'
      BY <1>1, <3>1 DEF RoutingInv, TypeOK
    <3>3. BackupFilled' /\ SaveVerified'
      BY <1>1, <1>4, <3>1 DEF CommonRoutes, RoutingInv, BackupFilled, SaveVerified
    <3> QED
      BY <3>2, <3>3 DEF RoutingInv
  <2>2. CASE ~ net.internal
    BY <1>4, <2>2, AbortStep DEF CommonRoutes
  <2> QED
    BY <2>1, <2>2
<1>5. ASSUME CheckBackend PROVE RoutingInv'
  <2>1. /\ script' \in Scripts /\ script'.table = script.table
        /\ \/ script'.at = "kill"
           \/ script'.at = "default" /\ script.table # "backup"
    <3>1. Healthy(script.table) \in BOOLEAN
      BY DEF Healthy
    <3> QED
      BY <1>1, <1>5, <3>1 DEF CheckBackend, Scripts
  <2>2. TypeOK'
    BY <1>1, <1>5, <2>1 DEF CheckBackend, RoutingInv, TypeOK
  <2>3. BackupFilled' /\ SaveVerified'
    BY <1>1, <1>5, <2>1 DEF CheckBackend, RoutingInv, BackupFilled, SaveVerified
  <2> QED
    BY <2>2, <2>3 DEF RoutingInv
<1>6. ASSUME KillSwitch PROVE RoutingInv'
  <2>1. TypeOK'
    BY <1>1, <1>2, <1>6 DEF KillSwitch, RoutingInv, TypeOK, Scripts, Routes
  <2>2. BackupFilled' /\ SaveVerified'
    BY <1>1, <1>2, <1>6 DEF KillSwitch, RoutingInv, BackupFilled, SaveVerified, Scripts
  <2> QED
    BY <2>1, <2>2 DEF RoutingInv
<1>7. ASSUME DefaultRoute PROVE RoutingInv'
  <2>1. CASE DeviceGone
    BY <1>7, <2>1, AbortStep DEF DefaultRoute
  <2>2. CASE ~ DeviceGone
    <3>1. PICK r \in Routes :
            /\ table' = [table EXCEPT ![script.table] = r]
            /\ r = "backend" => script.table \in net.dev
            /\ r = "none" => script.table = "backup" /\ table["backup"] = "none"
      <4>1. CASE script.ready
        BY <1>7, <2>2, <4>1 DEF DefaultRoute, DeviceGone, Routes
      <4>2. CASE ~ script.ready /\ script.table # "backup"
        BY <1>7, <2>2, <4>2 DEF DefaultRoute, Routes
      <4>3. CASE ~ script.ready /\ script.table = "backup"
        <5>1. table' = [table EXCEPT !["backup"] = table["backup"]]
          BY <1>7, <2>2, <4>3 DEF DefaultRoute
        <5> QED
          BY <1>1, <1>2, <4>3, <5>1 DEF RoutingInv, TypeOK
      <4> QED
        BY <4>1, <4>2, <4>3
    <3>2. /\ script' \in Scripts
          /\ \/ script.table = "openvpn" /\ script'.at = "flush" /\ script'.table = "vless"
             \/ script.table = "vless" /\ script'.at = "check" /\ script'.table = "backup"
             \/ script.table = "backup" /\ script'.at = "drop" /\ script'.table = "backup"
          /\ UNCHANGED <<saved, rule, net, mode, job, todo, failed, left>>
      <4>1. NextTable /\ UNCHANGED <<saved, rule, net, mode, job, todo, failed, left>>
        BY <1>7, <2>2 DEF DefaultRoute
      <4>2. CASE script.table = "openvpn"
        BY <1>1, <4>1, <4>2 DEF NextTable, Scripts, Tables
      <4>3. CASE script.table = "vless"
        BY <1>1, <4>1, <4>3 DEF NextTable, Scripts, Tables
      <4>4. CASE script.table = "backup"
        BY <1>1, <4>1, <4>4 DEF NextTable, Scripts, Tables
      <4> QED
        BY <1>2, <4>1, <4>2, <4>3, <4>4 DEF Tables
    <3>3. TypeOK'
      BY <1>1, <1>2, <3>1, <3>2 DEF RoutingInv, TypeOK
    <3>4. table'["backup"] = "none" => table["backup"] = "none"
      BY <1>1, <1>2, <3>1
    <3>5. BackupFilled' /\ SaveVerified'
      BY <1>1, <1>7, <3>2, <3>4 DEF DefaultRoute, RoutingInv, BackupFilled, SaveVerified
    <3> QED
      BY <3>3, <3>5 DEF RoutingInv
  <2> QED
    BY <2>1, <2>2
<1>9. ASSUME DropRule PROVE RoutingInv'
  <2>1. TypeOK'
    BY <1>1, <1>2, <1>9 DEF DropRule, RoutingInv, TypeOK, Scripts, Modes
  <2>2. BackupFilled' /\ SaveVerified'
    BY <1>1, <1>2, <1>9 DEF DropRule, RoutingInv, BackupFilled, SaveVerified, Scripts
  <2> QED
    BY <2>1, <2>2 DEF RoutingInv
<1>10. ASSUME AddRule PROVE RoutingInv'
  <2>1. TypeOK'
    BY <1>1, <1>2, <1>10 DEF AddRule, RoutingInv, TypeOK, Scripts
  <2>2. table["backup"] # "none"
    BY <1>10 DEF AddRule, RoutingInv, BackupFilled
  <2>3. script'.at = "status" /\ job'.pc # "save" /\ table' = table
    BY <1>1, <1>10 DEF AddRule, Scripts
  <2>4. BackupFilled' /\ SaveVerified'
    BY <2>2, <2>3 DEF BackupFilled, SaveVerified
  <2> QED
    BY <2>1, <2>4 DEF RoutingInv
<1>11. ASSUME ShowStatus PROVE RoutingInv'
  <2>1. TypeOK'
    BY <1>1, <1>11, NoJobFacts DEF ShowStatus, RoutingInv, TypeOK, Jobs
  <2>2. BackupFilled' /\ SaveVerified'
    BY <1>1, <1>11, NoJobFacts
    DEF ShowStatus, RoutingInv, BackupFilled, SaveVerified, Jobs
  <2> QED
    BY <2>1, <2>2 DEF RoutingInv
<1> QED
  BY <1>3, <1>4, <1>5, <1>6, <1>7, <1>9, <1>10, <1>11 DEF Script

\* A hanging script still belongs to its job.
LEMMA HangStep ==
  ASSUME RoutingInv, Hang \/ Timeout
  PROVE  RoutingInv'
<1>1. CASE Hang
  <2>1. left' \in Bounds
    BY <1>1, SpendFacts DEF Hang, RoutingInv, TypeOK
  <2>2. script' \in Scripts /\ script'.at = "hung"
    BY <1>1 DEF Hang, RoutingInv, TypeOK, Scripts
  <2>3. TypeOK'
    BY <1>1, <2>1, <2>2 DEF Hang, RoutingInv, TypeOK
  <2>4. BackupFilled' /\ SaveVerified'
    BY <1>1, <2>2 DEF Hang, RoutingInv, BackupFilled, SaveVerified
  <2> QED
    BY <2>3, <2>4 DEF RoutingInv
<1>2. CASE Timeout
  BY <1>2, AbortStep DEF Timeout
<1> QED
  BY <1>1, <1>2

\* The service and the host.
LEMMA ServiceStep ==
  ASSUME RoutingInv, Restart \/ Serve
  PROVE  RoutingInv'
<1>1. TypeOK'
  BY DEF Restart, Serve, RoutingInv, TypeOK
<1>2. BackupFilled'
  BY DEF Restart, Serve, RoutingInv, BackupFilled
<1>3. SaveVerified'
  BY DEF Restart, Serve, RoutingInv, SaveVerified, Egress
<1> QED
  BY <1>1, <1>2, <1>3 DEF RoutingInv

\* A crash ends job and script; a reboot removes every rule.
LEMMA CrashStep ==
  ASSUME RoutingInv, Crash
  PROVE  RoutingInv'
<1>1. left' \in Bounds
  BY SpendFacts DEF Crash, RoutingInv, TypeOK
<1>2. /\ rule' \in [Clients -> Modes] /\ table' \in [Tables -> Routes]
      /\ net' \in Nets /\ net'.up \subseteq net'.dev
      /\ \A t \in Tables : table'[t] = "backend" => t \in net'.dev
  <2>1. CASE UNCHANGED <<rule, table, net>>
    BY <2>1 DEF RoutingInv, TypeOK
  <2>2. CASE /\ rule' = [c \in Clients |-> "auto"]
             /\ net' \in BootNets /\ table' = BootTable(net')
    BY <2>2, BootFacts DEF Modes
  <2> QED
    BY <2>1, <2>2 DEF Crash
<1>3. TypeOK'
  BY <1>1, <1>2, NoJobFacts DEF Crash, RoutingInv, TypeOK
<1>4. BackupFilled' /\ SaveVerified'
  <2>1. \A c \in Clients : rule'[c] = "backup" => rule' = rule /\ table' = table
    BY DEF Crash
  <2> QED
    BY <2>1, NoJobFacts DEF Crash, RoutingInv, BackupFilled, SaveVerified
<1> QED
  BY <1>3, <1>4 DEF RoutingInv

\* What the host does leaves no table empty that was not: a change of the backends
\* keeps the routes, a device that goes down turns one into a lost one, and a device
\* that comes up may bring one.
LEMMA HostFacts ==
  ASSUME RoutingInv, Host
  PROVE  /\ UNCHANGED <<saved, rule, mode, job, script, todo, failed>>
         /\ left' \in Bounds /\ net' \in Nets /\ net'.up \subseteq net'.dev
         /\ table' \in [Tables -> Routes]
         /\ \A t \in Tables : /\ table'[t] = "backend" => t \in net'.dev
                              /\ table'[t] = "none" => table[t] = "none"
                              /\ table[t] = "backend" => table'[t] \in {"backend", "lost"}
                              /\ table[t] = "lost" => table'[t] \in {"backend", "lost"}
<1>1. /\ net \in Nets /\ net.up \subseteq net.dev /\ table \in [Tables -> Routes]
      /\ left \in Bounds /\ \A t \in Tables : table[t] = "backend" => t \in net.dev
  BY DEF RoutingInv, TypeOK
<1>2. CASE NetChange
  <2>1. /\ UNCHANGED <<saved, rule, table, mode, job, script, todo, failed>>
        /\ left' \in Bounds
    BY <1>1, <1>2, SpendFacts DEF NetChange
  <2>2. net' \in Nets /\ net'.dev = net.dev /\ net'.up \subseteq net'.dev
    <3>1. CASE \E t \in net.dev :
                 net' = [net EXCEPT !.up = IF t \in @ THEN @ \ {t} ELSE @ \cup {t}]
      BY <1>1, <3>1 DEF Nets
    <3>2. CASE net' = [net EXCEPT !.general = ~ @] \/ net' = [net EXCEPT !.internal = ~ @]
      <4>1. (~ net.general) \in BOOLEAN /\ (~ net.internal) \in BOOLEAN
        OBVIOUS
      <4> QED
        BY <1>1, <3>2, <4>1 DEF Nets
    <3> QED
      BY <1>2, <3>1, <3>2 DEF NetChange
  <2> QED
    BY <1>1, <2>1, <2>2
<1>3. ASSUME NEW t \in Tables, DeviceDown(t) \/ DeviceUp(t)
      PROVE  /\ UNCHANGED <<saved, rule, mode, job, script, todo, failed>>
             /\ left' \in Bounds /\ net' \in Nets /\ net'.up \subseteq net'.dev
             /\ table' \in [Tables -> Routes]
             /\ \A u \in Tables : /\ table'[u] = "backend" => u \in net'.dev
                                  /\ table'[u] = "none" => table[u] = "none"
                                  /\ table[u] = "backend" => table'[u] \in {"backend", "lost"}
                                  /\ table[u] = "lost" => table'[u] \in {"backend", "lost"}
  <2>1. left' \in Bounds
    BY <1>1, <1>3, SpendFacts DEF DeviceDown, DeviceUp
  <2>2. CASE DeviceDown(t)
    BY <1>1, <2>1, <2>2 DEF DeviceDown, Nets, Routes
  <2>3. CASE DeviceUp(t)
    BY <1>1, <2>1, <2>3 DEF DeviceUp, Nets, Routes
  <2> QED
    BY <1>3, <2>2, <2>3
<1> QED
  BY <1>2, <1>3 DEF Host

LEMMA HostStep ==
  ASSUME RoutingInv, Host
  PROVE  RoutingInv'
<1>1. TypeOK'
  BY HostFacts DEF RoutingInv, TypeOK
<1>2. BackupFilled'
  <2>1. "backup" \in Tables
    BY DEF Tables
  <2> QED
    BY <2>1, HostFacts DEF RoutingInv, BackupFilled
<1>3. SaveVerified'
  <2> SUFFICES ASSUME job.pc = "save"
               PROVE  /\ rule'[job.client] = job.want
                      /\ \/ Egress(job.client)' = IF job.want = "auto" THEN "general"
                                                                     ELSE job.want
                         \/ job.want \in Tables /\ table'[job.want] = "lost"
    BY HostFacts DEF SaveVerified, Egress
  <2>1. rule' = rule /\ job' = job /\ rule[job.client] = job.want
    BY HostFacts DEF RoutingInv, SaveVerified
  <2>2. CASE job.want \in Tables
    <3>1. table[job.want] \in {"backend", "lost"}
      <4>1. job.want # "auto" /\ job.client \in Clients
        BY <2>2 DEF Tables, RoutingInv, TypeOK, Jobs
      <4> QED
        BY <2>1, <2>2, <4>1, EgressFacts DEF RoutingInv, SaveVerified
    <3>2. table'[job.want] \in {"backend", "lost"}
      BY <2>2, <3>1, HostFacts
    <3>3. CASE table'[job.want] = "backend"
      <4>1. Egress(job.client)' = job.want
        BY <2>1, <2>2, <3>3 DEF Egress, Tables
      <4>2. job.want # "auto"
        BY <2>2 DEF Tables
      <4> QED
        BY <2>1, <4>1, <4>2
    <3>4. CASE table'[job.want] = "lost"
      BY <2>1, <2>2, <3>4
    <3> QED
      BY <3>2, <3>3, <3>4
  <2>3. CASE job.want \notin Tables
    BY <2>1, <2>3 DEF RoutingInv, SaveVerified, Egress
  <2> QED
    BY <2>2, <2>3
<1> QED
  BY <1>1, <1>2, <1>3 DEF RoutingInv

\* Every step keeps the invariant.
LEMMA RoutingNext == RoutingInv /\ [Next]_vars => RoutingInv'
<1> SUFFICES ASSUME RoutingInv, [Next]_vars PROVE RoutingInv'
  OBVIOUS
<1>1. CASE \E c \in Clients, m \in Modes : Patch(c, m)
  BY <1>1, PatchStep
<1>2. CASE Script
  BY <1>2, ScriptStep
<1>3. CASE Hang \/ Timeout
  BY <1>3, HangStep
<1>4. CASE Job
  BY <1>4, VerifyStep, FailedStep, SaveStep DEF Job
<1>5. CASE Startup
  BY <1>5, ServiceStep, ReplayStep DEF Startup
<1>6. CASE Crash
  BY <1>6, CrashStep
<1>7. CASE Host
  BY <1>7, HostStep
<1>8. CASE UNCHANGED vars
  BY <1>8 DEF vars, RoutingInv, TypeOK, BackupFilled, SaveVerified, Egress
<1> QED
  BY <1>1, <1>2, <1>3, <1>4, <1>5, <1>6, <1>7, <1>8 DEF Next

\* The inductive invariant holds in every reachable state.
THEOREM RoutingInvariant == Spec => []RoutingInv
  BY RoutingInit, RoutingNext, PTL DEF Spec

\* Type correctness: a script runs exactly while its job waits for it.
THEOREM RoutingTypeCorrect == Spec => []TypeOK
<1>1. RoutingInv => TypeOK
  BY DEF RoutingInv
<1> QED
  BY <1>1, RoutingInvariant, PTL

\* prepare_backup_table: at any instant of any script run, whatever aborts or kills
\* it, and through every crash and replay, a client pinned to the backup tunnel is
\* routed through the general table of the clients only if the kernel dropped the
\* default of table 203 with the tunnel's device.
THEOREM BackupStaysClosed == Spec => []BackupNeverFallsThrough
<1>1. RoutingInv => BackupNeverFallsThrough
  <2> SUFFICES ASSUME RoutingInv, NEW c \in Clients, rule[c] = "backup",
                      Egress(c) = "general"
               PROVE  table["backup"] = "lost"
    BY DEF BackupNeverFallsThrough
  <2>1. "backup" \in Tables
    BY DEF Tables
  <2>2. table["backup"] \notin {"backend", "unreachable"}
    BY <2>1, EgressFacts
  <2>3. table["backup"] # "none"
    BY DEF RoutingInv, BackupFilled
  <2> QED
    BY <2>1, <2>2, <2>3 DEF RoutingInv, TypeOK, Routes
<1> QED
  BY <1>1, RoutingInvariant, PTL

\* The PATCH endpoint: the profile of a client changes only while its rule is that
\* of the mode that is saved, and its route too, if its device did not go down since
\* the verification.
THEOREM SavesWhatIsRouted == Spec => SavedOnlyWhenRouted
<1> DEFINE Routed == \A c \in Clients : saved'[c] # saved[c] =>
             /\ rule[c] = saved'[c]
             /\ \/ Egress(c) = IF saved'[c] = "auto" THEN "general" ELSE saved'[c]
                \/ saved'[c] \in Tables /\ table[saved'[c]] = "lost"
<1>1. RoutingInv /\ [Next]_vars => [Routed]_vars
  <2> SUFFICES ASSUME RoutingInv, Next PROVE Routed
    OBVIOUS
  <2>1. CASE Save /\ saved' = [saved EXCEPT ![job.client] = job.want]
    BY <2>1 DEF Save, RoutingInv, TypeOK, SaveVerified
  <2>2. CASE UNCHANGED saved
    BY <2>2
  <2> QED
    BY <2>1, <2>2, HostFacts DEF Next, Patch, Script, FlushTable, CommonRoutes,
      CheckBackend, KillSwitch, DefaultRoute, DropRule, AddRule, ShowStatus, Hang,
      Timeout, Job, Verify, Failed, Save, Startup, Restart, Serve, Replay, Crash
<1>2. (Spec => []RoutingInv) /\ (Spec => [][Next]_vars)
  BY RoutingInvariant, PTL DEF Spec
<1> QED
  BY <1>1, <1>2, PTL DEF SavedOnlyWhenRouted

-----------------------------------------------------------------------------
\* Routes at rest. A script that is not refused, aborted or killed ends in
\* "verify": all three tables are filled and the client's rule is the one of the
\* mode being applied. Probes and saves may fail, backends come and go, devices go
\* down, and the service and the host crash, any number of times.
Filled == \A t \in Tables : table[t] # "none"

\* What a job remembers of the profile of its client is what the file has.
JobsKnow ==
  /\ mode = "down" => job.pc = "idle"
  /\ mode = "starting" /\ job.pc # "idle" =>
       job.phase = "replay" /\ job.want = saved[job.client]
  /\ mode = "serving" => todo = {}
  /\ mode = "serving" /\ job.pc # "idle" =>
       job.phase # "replay" /\ job.prev = saved[job.client]
  /\ job.pc = "save" => job.phase = "patch"

\* The script applies what its job wants, and leaves the client's rule there.
RuleApplied ==
  /\ script.at # "off" => script.mode = Target
  /\ script.at = "status" \/ job.pc \in {"verify", "save"} => rule[job.client] = Target
  /\ job.pc = "failed" => rule[job.client] = Target \/ job.client \in failed

\* Only the client of the job in progress, and those whose last run failed, may
\* have another rule than their profile.
RulesFollow ==
  mode # "down" => \A c \in Clients \ todo :
    saved[c] # "auto" => \/ rule[c] = saved[c] \/ c \in failed
                         \/ job.pc # "idle" /\ c = job.client

\* The script has filled the tables it is past; once a pinned client has been
\* routed, all three are filled whenever no script runs, if none failed.
TablesFilled ==
  /\ script.at \in {"kill", "drop", "add", "status"} => script.table = "backup"
  /\ script.at # "off" /\ script.table # "openvpn" => table["openvpn"] # "none"
  /\ script.at # "off" /\ script.table = "backup" => table["vless"] # "none"
  /\ job.pc \in {"verify", "save"} => Filled
  /\ job.pc = "failed" => Filled \/ failed # {}
  /\ mode # "down" /\ job.pc = "idle" /\ (\E c \in Clients \ todo : saved[c] # "auto")
       => Filled \/ failed # {}

RestParts == JobsKnow /\ RuleApplied /\ RulesFollow /\ TablesFilled
RestInv == RoutingInv /\ RestParts

\* What starting the script does for a job j with mode m.
LEMMA RunScriptStarts ==
  ASSUME NEW j \in Jobs, NEW m \in Modes, RunScript(j, m)
  PROVE  /\ job'.phase = j.phase /\ job'.client = j.client
         /\ job'.want = j.want /\ job'.prev = j.prev
         /\ \/ /\ job'.pc = "failed" /\ script'.at = "off"
               /\ failed' = failed \cup {j.client}
            \/ /\ job'.pc = "script" /\ script'.at = "flush"
               /\ script'.table = "openvpn" /\ script'.mode = m
               /\ failed' = failed
<1>1. CASE j.client \in Protected /\ m # "auto"
  BY <1>1 DEF RunScript, Jobs, NoScript
<1>2. CASE ~ (j.client \in Protected /\ m # "auto")
  BY <1>2 DEF RunScript, Jobs, NoScript
<1> QED
  BY <1>1, <1>2

\* A job that starts to apply a mode, or is refused.
LEMMA JobStarts ==
  ASSUME RestInv, NEW j \in Jobs, NEW m \in Modes, RunScript(j, m),
         mode \in {"starting", "serving"},
         UNCHANGED <<saved, rule, table, net, mode>>,
         todo' \subseteq todo, todo \subseteq todo' \cup {j.client},
         job.pc = "idle" \/ job.client = j.client,
         m = IF j.phase = "rollback" THEN j.prev ELSE j.want,
         mode = "starting" => j.phase = "replay" /\ j.want = saved[j.client],
         mode = "serving" => j.phase # "replay" /\ j.prev = saved[j.client]
  PROVE  RestParts'
<1> USE DEF RestInv, RestParts
<1>1. /\ job'.phase = j.phase /\ job'.client = j.client
      /\ job'.want = j.want /\ job'.prev = j.prev
      /\ \/ /\ job'.pc = "failed" /\ script'.at = "off"
            /\ failed' = failed \cup {j.client}
         \/ /\ job'.pc = "script" /\ script'.at = "flush"
            /\ script'.table = "openvpn" /\ script'.mode = m
            /\ failed' = failed
  BY RunScriptStarts
<1>2. Target' = m
  BY <1>1 DEF Target
<1>3. JobsKnow'
  BY <1>1 DEF JobsKnow
<1>4. RuleApplied'
  BY <1>1, <1>2 DEF RuleApplied
<1>5. RulesFollow'
  BY <1>1 DEF RulesFollow
<1>6. TablesFilled'
  BY <1>1 DEF TablesFilled
<1> QED
  BY <1>3, <1>4, <1>5, <1>6

\* A job that ends leaves its client's rule where the file wants it, unless its
\* script failed.
LEMMA JobEnds ==
  ASSUME RestInv, job.pc \in {"verify", "failed", "save"}, job' = NoJob,
         UNCHANGED <<script, rule, table, mode, todo, failed>>,
         \A c \in Clients \ {job.client} : saved'[c] = saved[c],
         rule[job.client] = saved'[job.client] \/ job.client \in failed,
         Filled \/ failed # {}
  PROVE  RestParts'
<1> USE DEF RestInv, RestParts
<1>1. script.at = "off" /\ job'.pc = "idle"
  BY NoJobFacts DEF RoutingInv, TypeOK
<1>2. JobsKnow'
  BY <1>1 DEF JobsKnow
<1>3. RuleApplied'
  BY <1>1 DEF RuleApplied
<1>4. RulesFollow'
  BY <1>1 DEF RulesFollow
<1>5. TablesFilled'
  BY <1>1 DEF TablesFilled, Filled
<1> QED
  BY <1>2, <1>3, <1>4, <1>5

\* A script that is aborted or killed puts its client among the failed ones.
LEMMA AbortRests ==
  ASSUME RestInv, Abort, job.pc = "script",
         UNCHANGED <<saved, rule, table, net, mode, todo, left>>
  PROVE  RestParts'
<1> USE DEF RestInv, RestParts
<1>1. /\ job'.pc = "failed" /\ script'.at = "off" /\ job.client \in failed'
      /\ failed' = failed \cup {job.client}
      /\ job'.client = job.client /\ job'.phase = job.phase
      /\ job'.want = job.want /\ job'.prev = job.prev
  BY NoJobFacts DEF Abort, RoutingInv, TypeOK, Jobs
<1>2. JobsKnow'
  BY <1>1 DEF JobsKnow
<1>3. RuleApplied'
  BY <1>1 DEF RuleApplied
<1>4. RulesFollow'
  BY <1>1 DEF RulesFollow
<1>5. TablesFilled'
  BY <1>1 DEF TablesFilled
<1> QED
  BY <1>2, <1>3, <1>4, <1>5

\* A PATCH that starts.
LEMMA PatchRests ==
  ASSUME RestInv, NEW c \in Clients, NEW m \in Modes, Patch(c, m)
  PROVE  RestParts'
<1> DEFINE j == [NoJob EXCEPT !.client = c, !.want = m, !.prev = saved[c]]
<1>1. /\ j \in Jobs /\ j.client = c /\ j.want = m /\ j.prev = saved[c]
      /\ j.phase = "patch"
  BY NoJobFacts DEF NoJob, Jobs, RestInv, RoutingInv, TypeOK
<1>2. /\ RunScript(j, m) /\ mode = "serving" /\ job.pc = "idle"
      /\ UNCHANGED <<saved, rule, table, net, mode, todo>>
  BY DEF Patch
<1> HIDE DEF j
<1> QED
  BY <1>1, <1>2, JobStarts

\* A profile that is replayed.
LEMMA ReplayRests ==
  ASSUME RestInv, NEW c \in Clients, Replay(c)
  PROVE  RestParts'
<1> DEFINE j == [NoJob EXCEPT !.phase = "replay", !.client = c, !.want = saved[c]]
<1>1. /\ j \in Jobs /\ saved[c] \in Modes /\ j.client = c /\ j.want = saved[c]
      /\ j.phase = "replay"
  BY NoJobFacts DEF NoJob, Jobs, RestInv, RoutingInv, TypeOK
<1>2. /\ RunScript(j, saved[c]) /\ mode = "starting" /\ job.pc = "idle"
      /\ UNCHANGED <<saved, rule, table, net, mode, left>>
      /\ todo' = todo \ {c}
  BY DEF Replay
<1> HIDE DEF j
<1> QED
  BY <1>1, <1>2, JobStarts

\* A verification that succeeds, does not, or cannot run.
LEMMA VerifyRests ==
  ASSUME RestInv, Verify
  PROVE  RestParts'
<1> USE DEF RestInv, RestParts
<1>1. /\ job.pc = "verify" /\ job \in Jobs /\ script.at = "off"
      /\ UNCHANGED <<saved, rule, table, net, mode, script, todo, failed>>
  BY DEF Verify, RoutingInv, TypeOK
<1>2. rule[job.client] = Target /\ Filled /\ mode # "down"
  BY <1>1 DEF RuleApplied, TablesFilled, JobsKnow
<1>3. CASE \/ job' = [job EXCEPT !.pc = "failed"]
           \/ job.phase = "patch" /\ job' = [job EXCEPT !.pc = "save"]
  <2>1. /\ job'.pc = "failed" \/ (job'.pc = "save" /\ job.phase = "patch")
        /\ job'.phase = job.phase /\ job'.client = job.client
        /\ job'.want = job.want /\ job'.prev = job.prev
    BY <1>1, <1>3 DEF Jobs
  <2>2. Target' = Target
    BY <2>1 DEF Target
  <2>3. JobsKnow'
    BY <1>1, <2>1 DEF JobsKnow
  <2>4. RuleApplied'
    BY <1>1, <1>2, <2>1, <2>2 DEF RuleApplied
  <2>5. RulesFollow'
    BY <1>1, <2>1 DEF RulesFollow
  <2>6. TablesFilled'
    BY <1>1, <1>2, <2>1 DEF TablesFilled, Filled
  <2> QED
    BY <2>3, <2>4, <2>5, <2>6
<1>4. CASE job.phase # "patch" /\ job' = NoJob
  <2>1. Target = saved[job.client]
    BY <1>1, <1>2, <1>4 DEF Target, JobsKnow, Jobs, RoutingInv, TypeOK
  <2> QED
    BY <1>1, <1>2, <1>4, <2>1, JobEnds
<1> QED
  BY <1>3, <1>4 DEF Verify

\* A failed PATCH that goes back, and a failed job that is given up.
LEMMA FailedRests ==
  ASSUME RestInv, Failed
  PROVE  RestParts'
<1> USE DEF RestInv
<1>1. /\ job.pc = "failed" /\ job \in Jobs /\ script.at = "off"
      /\ UNCHANGED <<saved, rule, table, net, mode, todo, left>>
      /\ mode \in {"starting", "serving"}
  BY DEF Failed, RoutingInv, TypeOK, RestParts, JobsKnow
<1>2. CASE job.phase = "patch" /\ job.want # job.prev
  <2> DEFINE j == [job EXCEPT !.phase = "rollback"]
  <2>1. /\ j \in Jobs /\ j.phase = "rollback" /\ j.prev = job.prev
        /\ j.client = job.client /\ job.prev \in Modes
    BY <1>1 DEF Jobs
  <2>2. RunScript(j, job.prev)
    BY <1>2 DEF Failed
  <2>3. mode = "serving" /\ job.prev = saved[job.client]
    BY <1>1, <1>2 DEF RestParts, JobsKnow
  <2> HIDE DEF j
  <2> QED
    BY <1>1, <2>1, <2>2, <2>3, JobStarts
<1>3. CASE ~ (job.phase = "patch" /\ job.want # job.prev)
  <2>1. job' = NoJob /\ UNCHANGED <<script, failed>>
    BY <1>3 DEF Failed
  <2>2. Target = saved[job.client]
    BY <1>1, <1>3 DEF Target, Jobs, RestParts, JobsKnow
  <2>3. /\ rule[job.client] = saved[job.client] \/ job.client \in failed
        /\ Filled \/ failed # {}
    BY <1>1, <2>2 DEF RestParts, RuleApplied, TablesFilled
  <2> QED
    BY <1>1, <2>1, <2>3, JobEnds
<1> QED
  BY <1>2, <1>3

\* A profile that is saved, or whose save fails.
LEMMA SaveRests ==
  ASSUME RestInv, Save
  PROVE  RestParts'
<1> USE DEF RestInv
<1>1. /\ job.pc = "save" /\ job \in Jobs /\ script.at = "off"
      /\ UNCHANGED <<rule, table, net, mode, todo>>
      /\ job.phase = "patch" /\ mode = "serving" /\ todo = {}
      /\ job.prev = saved[job.client]
      /\ saved \in [Clients -> Modes]
  BY DEF Save, RoutingInv, TypeOK, RestParts, JobsKnow
<1>2. CASE RunScript([job EXCEPT !.phase = "rollback"], job.prev) /\ UNCHANGED saved
  <2> DEFINE j == [job EXCEPT !.phase = "rollback"]
  <2>1. /\ j \in Jobs /\ j.phase = "rollback" /\ j.prev = job.prev
        /\ j.client = job.client /\ job.prev \in Modes
    BY <1>1 DEF Jobs
  <2>2. RunScript(j, job.prev)
    BY <1>2
  <2> HIDE DEF j
  <2> QED
    BY <1>1, <1>2, <2>1, <2>2, JobStarts
<1>3. CASE /\ saved' = [saved EXCEPT ![job.client] = job.want]
           /\ job' = NoJob /\ UNCHANGED <<script, failed, left>>
  <2>1. job.client \in Clients /\ job.want \in Modes
    BY <1>1 DEF Jobs
  <2>2. Target = job.want
    BY <1>1 DEF Target
  <2>3. rule[job.client] = job.want /\ Filled
    BY <1>1, <2>2 DEF RestParts, RuleApplied, TablesFilled
  <2>4. /\ saved'[job.client] = job.want
        /\ \A c \in Clients \ {job.client} : saved'[c] = saved[c]
    BY <1>1, <1>3, <2>1
  <2> QED
    BY <1>1, <1>3, <2>3, <2>4, JobEnds
<1> QED
  BY <1>2, <1>3 DEF Save

\* The script up to the client's rule: it fills each table before it goes on to the
\* next, or is aborted.
LEMMA TablesStep ==
  ASSUME RestInv, \/ FlushTable \/ CommonRoutes \/ CheckBackend \/ KillSwitch
                  \/ DefaultRoute
  PROVE  RestParts'
<1> USE DEF Scripting
<1>1. /\ UNCHANGED <<saved, rule, net, mode, todo, left>>
      /\ job.pc = "script" /\ script.at # "off"
      /\ script \in Scripts /\ table \in [Tables -> Routes]
  BY DEF RestInv, RoutingInv, TypeOK, FlushTable, CommonRoutes, CheckBackend,
         KillSwitch, DefaultRoute
<1>2. CASE Abort /\ UNCHANGED table
  BY <1>1, <1>2, AbortRests
<1>3. CASE ~ (Abort /\ UNCHANGED table)
  <2>1. job' = job /\ failed' = failed
    BY <1>3 DEF FlushTable, CommonRoutes, CheckBackend, KillSwitch, DefaultRoute
  <2>2. /\ script'.at \notin {"off", "hung", "status"} /\ script'.mode = script.mode
        /\ script'.at \in {"kill", "drop", "add"} => script'.table = "backup"
        /\ script'.table # "openvpn" => table'["openvpn"] # "none"
        /\ script'.table = "backup" => table'["vless"] # "none"
    <3> USE <1>1, <1>3 DEF RestInv, RestParts, RoutingInv, TablesFilled, BackupFilled,
                           Scripts, Tables
    <3>1. CASE FlushTable
      BY <3>1 DEF FlushTable
    <3>2. CASE CommonRoutes
      BY <3>2 DEF CommonRoutes
    <3>3. CASE CheckBackend
      BY <3>3 DEF CheckBackend
    <3>4. CASE KillSwitch
      BY <3>4 DEF KillSwitch
    <3>5. CASE DefaultRoute
      <4>1. NextTable /\ script.at = "default"
        BY <3>5 DEF DefaultRoute
      <4>2. CASE script.table = "openvpn"
        BY <3>5, <4>1, <4>2 DEF DefaultRoute, NextTable
      <4>3. CASE script.table = "vless"
        BY <3>5, <4>1, <4>3 DEF DefaultRoute, NextTable
      <4>4. CASE script.table = "backup"
        BY <3>5, <4>1, <4>4 DEF DefaultRoute, NextTable
      <4> QED
        BY <4>2, <4>3, <4>4
    <3> QED
      BY <3>1, <3>2, <3>3, <3>4, <3>5
  <2>3. JobsKnow' /\ RulesFollow'
    BY <1>1, <2>1 DEF RestInv, RestParts, JobsKnow, RulesFollow
  <2>4. RuleApplied'
    BY <1>1, <2>1, <2>2 DEF RestInv, RestParts, RuleApplied, Target
  <2>5. TablesFilled'
    BY <1>1, <2>1, <2>2 DEF TablesFilled
  <2> QED
    BY <2>3, <2>4, <2>5 DEF RestParts
<1> QED
  BY <1>2, <1>3

\* The rule of the client, last: the three tables are filled by then.
LEMMA RuleStep ==
  ASSUME RestInv, DropRule \/ AddRule \/ ShowStatus
  PROVE  RestParts'
<1> USE DEF Scripting
<1>1. /\ UNCHANGED <<saved, table, net, mode, todo, left>>
      /\ job.pc = "script" /\ script.at \in {"drop", "add", "status"}
      /\ job \in Jobs /\ job.client \in Clients /\ script \in Scripts
      /\ rule \in [Clients -> Modes]
  BY DEF RestInv, RoutingInv, TypeOK, DropRule, AddRule, ShowStatus, Jobs
<1>2. Filled /\ script.table = "backup" /\ script.mode = Target
  BY <1>1 DEF RestInv, RestParts, RoutingInv, TablesFilled, BackupFilled, RuleApplied,
              Filled, Tables
<1>3. Filled' /\ failed' \in {failed, failed \ {job.client}}
  BY <1>1, <1>2 DEF Filled, DropRule, AddRule, ShowStatus
<1>4. /\ job'.client = job.client /\ job'.phase = job.phase
      /\ job'.want = job.want /\ job'.prev = job.prev
      /\ job'.pc \in {"script", "verify"}
  BY <1>1 DEF DropRule, AddRule, ShowStatus, Jobs
<1>5. JobsKnow'
  BY <1>1, <1>4 DEF RestInv, RestParts, JobsKnow
<1>6. Target' = Target
  BY <1>4 DEF Target
<1>7. \A c \in Clients \ {job.client} : rule'[c] = rule[c]
  BY <1>1 DEF DropRule, AddRule, ShowStatus
<1>8. RulesFollow'
  BY <1>1, <1>3, <1>4, <1>7 DEF RestInv, RestParts, RulesFollow
<1>9. RuleApplied' /\ TablesFilled'
  <2> USE <1>1, <1>2, <1>3, <1>4, <1>6
  <2>1. CASE DropRule
    <3>1. script'.at = "add" /\ script'.mode = script.mode /\ script'.table = script.table
      BY <2>1 DEF DropRule, Scripts
    <3> QED
      BY <2>1, <3>1 DEF DropRule, RestInv, RestParts, RuleApplied, TablesFilled, Filled
  <2>2. CASE AddRule
    <3>1. /\ script'.at = "status" /\ script'.mode = script.mode
          /\ script'.table = script.table /\ rule'[job.client] = Target
      BY <2>2 DEF AddRule, Scripts
    <3> QED
      BY <2>2, <3>1 DEF AddRule, RestInv, RestParts, RuleApplied, TablesFilled, Filled
  <2>3. CASE ShowStatus
    <3>1. script'.at = "off" /\ job'.pc = "verify" /\ rule'[job.client] = Target
      BY <2>3, NoJobFacts DEF ShowStatus, Jobs, RestInv, RestParts, RuleApplied
    <3> QED
      BY <3>1 DEF RestInv, RestParts, RuleApplied, TablesFilled
  <2> QED
    BY <2>1, <2>2, <2>3
<1> QED
  BY <1>5, <1>8, <1>9 DEF RestParts

\* The service and the host.
LEMMA ServiceRests ==
  ASSUME RestInv, \/ Restart \/ Serve \/ Crash \/ Host \/ Hang \/ Timeout
                  \/ UNCHANGED vars
  PROVE  RestParts'
<1> USE DEF RestInv, RestParts
<1>1. TypeOK
  BY DEF RoutingInv
<1>2. CASE Restart
  <2>1. job' = job /\ job.pc = "idle" /\ script.at = "off"
    BY <1>1, <1>2 DEF Restart, JobsKnow, TypeOK
  <2> QED
    BY <1>1, <1>2, <2>1 DEF Restart, JobsKnow, RuleApplied, RulesFollow, TablesFilled
<1>3. CASE Serve
  BY <1>1, <1>3
  DEF Serve, JobsKnow, RuleApplied, RulesFollow, TablesFilled, Target, Filled
<1>4. CASE Crash
  <2>1. /\ job'.pc = "idle" /\ script'.at = "off" /\ mode' = "down" /\ todo' = {}
        /\ saved' = saved
    BY <1>4, NoJobFacts DEF Crash
  <2> QED
    BY <2>1 DEF JobsKnow, RuleApplied, RulesFollow, TablesFilled
<1>5. CASE Host
  <2>1. /\ UNCHANGED <<saved, rule, mode, job, script, todo, failed>>
        /\ \A t \in Tables : table[t] # "none" => table'[t] # "none"
    BY <1>5, HostFacts
  <2>2. "openvpn" \in Tables /\ "vless" \in Tables
    BY DEF Tables
  <2> QED
    BY <2>1, <2>2 DEF JobsKnow, RuleApplied, RulesFollow, TablesFilled, Target, Filled
<1>6. CASE Hang
  <2>1. /\ UNCHANGED <<saved, rule, table, net, mode, job, todo, failed>>
        /\ script'.at = "hung" /\ script'.mode = script.mode /\ script'.table = script.table
        /\ script.at # "off" /\ job.pc = "script"
    BY <1>1, <1>6 DEF Hang, TypeOK, Scripts
  <2> QED
    BY <2>1 DEF JobsKnow, RuleApplied, RulesFollow, TablesFilled, Target, Filled
<1>7. CASE Timeout
  BY <1>7, AbortRests DEF Timeout, Scripting
<1>8. CASE UNCHANGED vars
  BY <1>8
  DEF vars, JobsKnow, RuleApplied, RulesFollow, TablesFilled, Target, Filled
<1> QED
  BY <1>2, <1>3, <1>4, <1>5, <1>6, <1>7, <1>8

\* It holds at first, and every step keeps it.
LEMMA RestInit == Init => RestInv
<1> SUFFICES ASSUME Init PROVE RestInv
  OBVIOUS
<1>1. RoutingInv
  BY RoutingInit
<1>2. job.pc = "idle" /\ script.at = "off" /\ mode = "down"
  BY NoJobFacts DEF Init
<1> QED
  BY <1>1, <1>2 DEF RestInv, RestParts, JobsKnow, RuleApplied, RulesFollow, TablesFilled

LEMMA RestNext == RestInv /\ [Next]_vars => RestInv'
<1> SUFFICES ASSUME RestInv, [Next]_vars PROVE RestParts'
  BY RoutingNext DEF RestInv
<1>1. CASE \E c \in Clients, m \in Modes : Patch(c, m)
  BY <1>1, PatchRests
<1>2. CASE Script
  BY <1>2, TablesStep, RuleStep DEF Script
<1>3. CASE Job
  BY <1>3, VerifyRests, FailedRests, SaveRests DEF Job
<1>4. CASE \E c \in Clients : Replay(c)
  BY <1>4, ReplayRests
<1>5. CASE \/ Restart \/ Serve \/ Crash \/ Host
           \/ Hang \/ Timeout \/ UNCHANGED vars
  BY <1>5, ServiceRests
<1> QED
  BY <1>1, <1>2, <1>3, <1>4, <1>5 DEF Next, Startup

\* The PATCH endpoint and the startup hook: whenever the panel serves and no job
\* runs, the kernel has the rule of every client the file pins whose own last script
\* run was not refused or cut short, whatever probes and saves failed and however
\* often devices went down and the service and the host crashed.
THEOREM ProfilesRuleTheRoutes == Spec => []PinnedFollowProfiles
<1>1. RestInv => PinnedFollowProfiles
  BY DEF RestInv, RestParts, JobsKnow, RulesFollow, PinnedFollowProfiles, AtRest
<1> QED
  BY <1>1, RestInit, RestNext, PTL DEF Spec

\* And while no client's last run was refused or cut short, a client with one of the
\* three modes takes the general route only when the kernel dropped the default of
\* its table with the device: its table was left with its backend, or the kill switch.
THEOREM TablesFilledAtRest == Spec => []OpenOnlyAfterFailure
<1>1. RestInv => OpenOnlyAfterFailure
  <2> SUFFICES ASSUME RestInv, AtRest, NEW c \in Clients, saved[c] \in Tables,
                      Egress(c) = "general", failed = {}
               PROVE  table[saved[c]] = "lost"
    BY DEF OpenOnlyAfterFailure
  <2>1. todo = {} /\ saved[c] # "auto"
    BY DEF RestInv, RestParts, JobsKnow, AtRest, Tables
  <2>2. rule[c] = saved[c] /\ Filled
    BY <2>1 DEF RestInv, RestParts, RulesFollow, TablesFilled, AtRest
  <2>3. table[saved[c]] \notin {"none", "backend", "unreachable"}
    BY <2>2, EgressFacts DEF Filled
  <2> QED
    BY <2>3 DEF RestInv, RoutingInv, TypeOK, Routes
<1> QED
  BY <1>1, RestInit, RestNext, PTL DEF Spec

=============================================================================
