-------------------------- MODULE WireGuardRouting --------------------------
(***************************************************************************)
(* The routing modes of WireGuard clients: the profiles the panel saves,   *)
(* the policy rule of every client, and the default routes of the three    *)
(* dedicated tables that wireguard-client-routing.sh rebuilds whenever any *)
(* client is set. A PATCH runs the script, verifies the route, saves the   *)
(* profile, and runs the script again to go back when a step failed; the   *)
(* startup hook replays the saved modes. state_lock admits one job at a    *)
(* time. The script advances one command at a time, and may be aborted by  *)
(* a failing command, killed by the 20 s timeout, or by a crash. The       *)
(* devices of the backends go down and come up on their own; the kernel    *)
(* then drops the routes through them.                                     *)
(***************************************************************************)
EXTENDS Naturals

CONSTANTS Clients,    \* WireGuard peers, by their IP
          Protected,  \* clients the script keeps in auto mode
          InitialProfiles,  \* modes earlier sessions may have saved
          BootDevices,      \* the sets of backends that may be up after a boot
          Budget      \* bounds on the environment: see Bounds

VARIABLES saved,   \* wireguard-clients.json: the routing_mode of every client
          rule,    \* the mode whose rule a client has ("auto": it has none)
          table,   \* the default route of each dedicated table
          net,     \* what the host's interfaces and backends are like
          mode,    \* the service: "down", "starting" or "serving"
          job,     \* the PATCH, or the replay of one profile, in progress
          script,  \* the running script
          todo,    \* clients the startup hook has still to replay
          failed,  \* history: clients whose last script run was refused or cut short
          left     \* what is left of Budget

vars == <<saved, rule, table, net, mode, job, script, todo, failed, left>>

Tables == {"openvpn", "vless", "backup"}   \* tables 201, 202 and 203
Modes  == Tables \cup {"auto", "direct"}

\* PATCH requests, changes of the backends, devices that go down, internal
\* interfaces unplugged or plugged in, crashes, script runs that hang, and probes
\* or saves that fail.
Bounds == [patches : Nat, changes : Nat, drops : Nat, unplugs : Nat,
           crashes : Nat, hangs : Nat, faults : Nat]

\* The default route of a table: none since a flush or the boot, the one through
\* the backend's device, the kill switch, or one the kernel dropped with its device.
Routes == {"none", "backend", "unreachable", "lost"}

ASSUME RoutingAssumption == 
  /\ Clients # {} /\ Protected \subseteq Clients /\ Budget \in Bounds
  /\ InitialProfiles \subseteq [Clients -> Modes]
  /\ BootDevices \subseteq SUBSET Tables

\* The backends whose device is up, those that answer a ping, whether every
\* internal interface is there, and whether table 200, the general table of the
\* clients, has a default.
Nets == [dev : SUBSET Tables, up : SUBSET Tables, internal : BOOLEAN,
         general : BOOLEAN]

Jobs == [pc : {"idle", "script", "verify", "failed", "save"},
         phase : {"patch", "rollback", "replay"},
         client : Clients, want : Modes, prev : Modes]

Scripts == [at : {"off", "flush", "routes", "default", "check", "kill", "drop",
                  "add", "status", "hung"},
            table : Tables, mode : Modes, ready : BOOLEAN]

NoJob == [pc |-> "idle", phase |-> "patch", client |-> CHOOSE c \in Clients : TRUE,
          want |-> "auto", prev |-> "auto"]
NoScript == [at |-> "off", table |-> "openvpn", mode |-> "auto", ready |-> FALSE]

\* At boot some of the backends are up, and answer.
BootNets == {[dev |-> d, up |-> d, internal |-> TRUE, general |-> TRUE] : d \in BootDevices}

\* The dedicated tables are empty then, but for the one the service of the backup
\* tunnel fills when it comes up.
BootTable(n) ==
  [t \in Tables |-> IF t = "backup" /\ t \in n.dev THEN "backend" ELSE "none"]

Spend(what) == left[what] > 0 /\ left' = [left EXCEPT ![what] = @ - 1]

-----------------------------------------------------------------------------
\* apply_wireguard_routing_mode.

\* A mutant: the job waits for a script that was never started.
RunScriptNever(j, m) ==
  job' = [j EXCEPT !.pc = "script"] /\ script' = NoScript /\ UNCHANGED failed

\* Run "set client m" for a job; a protected client is refused before any change.
RunScript(j, m) ==
  IF j.client \in Protected /\ m # "auto"
  THEN /\ job' = [j EXCEPT !.pc = "failed"]
       /\ script' = NoScript
       /\ failed' = failed \cup {j.client}
  ELSE /\ job' = [j EXCEPT !.pc = "script"]
       /\ script' = [NoScript EXCEPT !.at = "flush", !.mode = m]
       /\ UNCHANGED failed

\* How a packet of a client leaves the host: a table without a default route,
\* flushed or dropped, lets it fall through to the general rule of the clients.
Egress(c) ==
  CASE rule[c] = "direct" -> "direct"
    [] rule[c] \in Tables /\ table[rule[c]] = "backend" -> rule[c]
    [] rule[c] \in Tables /\ table[rule[c]] = "unreachable" -> "blocked"
    [] OTHER -> "general"

\* A mutant: the mode is taken for applied when its rule is there.
IsAppliedByRule(c, m) == rule[c] = m

\* routing_mode_is_applied, on the rules and the probed route of the host.
IsApplied(c, m) ==
  /\ rule[c] = m
  /\ Egress(c) = IF m = "auto" THEN "general" ELSE m
  /\ m = "auto" => net.general

\* What a job is applying.
Target == IF job.phase = "rollback" THEN job.prev ELSE job.want

\* Verified, or not: the mode is not there, or a probe command failed.
Verify ==
  /\ job.pc = "verify"
  /\ \/ /\ IsApplied(job.client, Target)
        /\ job' = IF job.phase = "patch" THEN [job EXCEPT !.pc = "save"] ELSE NoJob
        /\ UNCHANGED left
     \/ /\ ~ IsApplied(job.client, Target)
        /\ job' = [job EXCEPT !.pc = "failed"]
        /\ UNCHANGED left
     \/ /\ Spend("faults")
        /\ job' = [job EXCEPT !.pc = "failed"]
  /\ UNCHANGED <<saved, rule, table, net, mode, script, todo, failed>>

-----------------------------------------------------------------------------
\* wireguard-client-routing.sh set: prepare_tables, then the client's rule.

Scripting(at) == job.pc = "script" /\ script.at = at

\* set -e: a command that fails ends the script, and safe_run reports it.
Abort ==
  /\ script' = NoScript
  /\ job' = [job EXCEPT !.pc = "failed"]
  /\ failed' = failed \cup {job.client}

\* A mutant: the backup table is flushed before it is rebuilt, like the others.
FlushAllTables ==
  /\ Scripting("flush")
  /\ table' = [table EXCEPT ![script.table] = "none", !["backup"] = "none"]
  /\ script' = [script EXCEPT !.at = "routes"]
  /\ UNCHANGED <<saved, rule, net, mode, job, todo, failed, left>>

\* prepare_openvpn_table and prepare_vless_table empty their table first.
FlushTable ==
  /\ Scripting("flush")
  /\ table' = [table EXCEPT ![script.table] = "none"]
  /\ script' = [script EXCEPT !.at = "routes"]
  /\ UNCHANGED <<saved, rule, net, mode, job, todo, failed, left>>

\* add_common_routes: a missing interface aborts the script.
CommonRoutes ==
  /\ Scripting("routes")
  /\ IF net.internal
     THEN /\ script' = [script EXCEPT
                          !.at = IF script.table = "backup" THEN "default" ELSE "check"]
          /\ UNCHANGED <<job, failed>>
     ELSE Abort
  /\ UNCHANGED <<saved, rule, table, net, mode, todo, left>>

\* openvpn_is_healthy, vless_is_healthy and backup_is_healthy; the last one also
\* wants the default route of table 203 to be there.
Healthy(t) == t \in net.up /\ (t = "backup" => table[t] = "backend")

\* The health check, before the routes through the device; that of the backup
\* comes first of all.
CheckBackend ==
  /\ Scripting("check")
  /\ script' = [script EXCEPT !.ready = Healthy(script.table),
                  !.at = IF script.table = "backup" THEN "kill" ELSE "default"]
  /\ UNCHANGED <<saved, rule, table, net, mode, job, todo, failed, left>>

\* prepare_backup_table puts its kill switch in place of the default route.
KillSwitch ==
  /\ Scripting("kill")
  /\ table' = [table EXCEPT !["backup"] = "unreachable"]
  /\ script' = [script EXCEPT !.at = "routes"]
  /\ UNCHANGED <<saved, rule, net, mode, job, todo, failed, left>>

\* From one table to the next, and after the last one to the client's rule.
NextTable ==
  script' = CASE script.table = "openvpn" -> [script EXCEPT !.at = "flush", !.table = "vless"]
              [] script.table = "vless"   -> [script EXCEPT !.at = "check", !.table = "backup"]
              [] script.table = "backup"  -> [script EXCEPT !.at = "drop"]

\* The device of a backend that was healthy has gone: its route command fails.
DeviceGone == script.ready /\ script.table \notin net.dev

\* A mutant: no kill switch for a backend that is down.
DefaultWithoutKillSwitch ==
  /\ Scripting("default")
  /\ IF DeviceGone
     THEN Abort /\ UNCHANGED table
     ELSE /\ table' = [table EXCEPT ![script.table] = IF script.ready THEN "backend" ELSE @]
          /\ NextTable /\ UNCHANGED <<job, failed>>
  /\ UNCHANGED <<saved, rule, net, mode, todo, left>>

\* The default route of a backend that was healthy, or the kill switch, which the
\* backup table has since KillSwitch.
DefaultRoute ==
  /\ Scripting("default")
  /\ IF DeviceGone
     THEN Abort /\ UNCHANGED table
     ELSE /\ table' = [table EXCEPT ![script.table] =
                         CASE script.ready                               -> "backend"
                           [] ~ script.ready /\ script.table # "backup" -> "unreachable"
                           [] ~ script.ready /\ script.table = "backup" -> @]
          /\ NextTable /\ UNCHANGED <<job, failed>>
  /\ UNCHANGED <<saved, rule, net, mode, todo, left>>

\* remove_managed_rule.
DropRule ==
  /\ Scripting("drop")
  /\ rule' = [rule EXCEPT ![job.client] = "auto"]
  /\ script' = [script EXCEPT !.at = "add"]
  /\ UNCHANGED <<saved, table, net, mode, job, todo, failed, left>>

\* The client's rule, none in auto mode.
AddRule ==
  /\ Scripting("add")
  /\ rule' = [rule EXCEPT ![job.client] = script.mode]
  /\ script' = [script EXCEPT !.at = "status"]
  /\ UNCHANGED <<saved, table, net, mode, job, todo, failed, left>>

\* The route cache is flushed, the status shown, and the script returns 0.
ShowStatus ==
  /\ Scripting("status")
  /\ script' = NoScript
  /\ job' = [job EXCEPT !.pc = "verify"]
  /\ failed' = failed \ {job.client}
  /\ UNCHANGED <<saved, rule, table, net, mode, todo, left>>

\* A command of the script hangs; safe_run kills it when 20 s have passed.
Hang ==
  /\ job.pc = "script" /\ script.at # "hung"
  /\ Spend("hangs")
  /\ script' = [script EXCEPT !.at = "hung"]
  /\ UNCHANGED <<saved, rule, table, net, mode, job, todo, failed>>

\* A mutant: a script that hangs is waited for.
TimeoutNever == FALSE /\ UNCHANGED vars

Timeout ==
  /\ Scripting("hung")
  /\ Abort
  /\ UNCHANGED <<saved, rule, table, net, mode, todo, left>>

-----------------------------------------------------------------------------
\* PATCH /api/wireguard/clients/{client_ip} with a routing_mode.

Patch(c, m) ==
  /\ mode = "serving" /\ job.pc = "idle"
  /\ Spend("patches")
  /\ RunScript([NoJob EXCEPT !.client = c, !.want = m, !.prev = saved[c]], m)
  /\ UNCHANGED <<saved, rule, table, net, mode, todo>>

\* A mutant: a mode that could not be applied is left as it is.
FailedNoRollback ==
  /\ job.pc = "failed"
  /\ job' = NoJob
  /\ UNCHANGED <<saved, rule, table, net, mode, script, todo, failed, left>>

\* The script or the verification failed: a PATCH goes back to the previous
\* mode if it is another one; a failed rollback or replay is only reported.
Failed ==
  /\ job.pc = "failed"
  /\ IF job.phase = "patch" /\ job.want # job.prev
     THEN RunScript([job EXCEPT !.phase = "rollback"], job.prev)
     ELSE job' = NoJob /\ UNCHANGED <<script, failed>>
  /\ UNCHANGED <<saved, rule, table, net, mode, todo, left>>

\* upsert_wireguard_profile replaces the file, or raises: the route goes back.
Save ==
  /\ job.pc = "save"
  /\ \/ /\ saved' = [saved EXCEPT ![job.client] = job.want]
        /\ job' = NoJob
        /\ UNCHANGED <<script, failed, left>>
     \/ /\ Spend("faults")
        /\ RunScript([job EXCEPT !.phase = "rollback"], job.prev)
        /\ UNCHANGED saved
  /\ UNCHANGED <<rule, table, net, mode, todo>>

-----------------------------------------------------------------------------
\* The service and the host.

\* The startup hook replays every profile whose mode is not auto.
Restart ==
  /\ mode = "down"
  /\ mode' = "starting"
  /\ todo' = {c \in Clients : saved[c] # "auto"}
  /\ UNCHANGED <<saved, rule, table, net, job, script, failed, left>>

\* A mutant: a profile is replayed until its backend is there.
ReplayForever(c) ==
  /\ mode = "starting" /\ job.pc = "idle" /\ c \in todo
  /\ todo' = {d \in todo : d # c \/ saved[c] \notin net.up}
  /\ RunScript([NoJob EXCEPT !.phase = "replay", !.client = c, !.want = saved[c]],
               saved[c])
  /\ UNCHANGED <<saved, rule, table, net, mode, left>>

Replay(c) ==
  /\ mode = "starting" /\ job.pc = "idle" /\ c \in todo
  /\ todo' = todo \ {c}
  /\ RunScript([NoJob EXCEPT !.phase = "replay", !.client = c, !.want = saved[c]],
               saved[c])
  /\ UNCHANGED <<saved, rule, table, net, mode, left>>

Serve ==
  /\ mode = "starting" /\ job.pc = "idle" /\ todo = {}
  /\ mode' = "serving"
  /\ UNCHANGED <<saved, rule, table, net, job, script, todo, failed, left>>

\* The service dies, the script with it; a reboot also clears the kernel.
Crash ==
  /\ mode # "down"
  /\ Spend("crashes")
  /\ mode' = "down" /\ job' = NoJob /\ script' = NoScript
  /\ todo' = {} /\ failed' = {}
  /\ \/ UNCHANGED <<rule, table, net>>
     \/ /\ rule' = [c \in Clients |-> "auto"]
        /\ net' \in BootNets
        /\ table' = BootTable(net')
  /\ UNCHANGED saved

\* A backend stops or starts answering, table 200 loses or gets its default, an
\* internal interface is unplugged or plugged in; no dedicated route changes.
NetChange ==
  /\ \/ /\ Spend("changes")
        /\ \/ \E t \in net.dev :
               net' = [net EXCEPT !.up = IF t \in @ THEN @ \ {t} ELSE @ \cup {t}]
           \/ net' = [net EXCEPT !.general = ~ @]
     \/ /\ Spend("unplugs")
        /\ net' = [net EXCEPT !.internal = ~ @]
  /\ UNCHANGED <<saved, rule, table, mode, job, script, todo, failed>>

\* tun0, sbtun0 or tun203 goes down or is removed: the kernel drops the routes
\* through it, the default of its dedicated table too. A kill switch has no device.
DeviceDown(t) ==
  /\ t \in net.dev
  /\ Spend("drops")
  /\ net' = [net EXCEPT !.dev = @ \ {t}, !.up = @ \ {t}]
  /\ table' = [table EXCEPT ![t] = IF @ = "backend" THEN "lost" ELSE @]
  /\ UNCHANGED <<saved, rule, mode, job, script, todo, failed>>

\* It comes up again. Only the service of the backup tunnel brings a default
\* route along: nothing but the script fills tables 201 and 202.
DeviceUp(t) ==
  /\ t \notin net.dev
  /\ Spend("changes")
  /\ net' = [net EXCEPT !.dev = @ \cup {t}, !.up = @ \cup {t}]
  /\ table' = [table EXCEPT ![t] = IF t = "backup" THEN "backend" ELSE @]
  /\ UNCHANGED <<saved, rule, mode, job, script, todo, failed>>

Host == NetChange \/ \E t \in Tables : DeviceDown(t) \/ DeviceUp(t)

-----------------------------------------------------------------------------
Init ==
  /\ saved \in InitialProfiles
  /\ rule = [c \in Clients |-> "auto"]
  /\ net \in BootNets /\ table = BootTable(net)
  /\ mode = "down"
  /\ job = NoJob /\ script = NoScript /\ todo = {} /\ failed = {}
  /\ left = Budget

Script == FlushTable \/ CommonRoutes \/ CheckBackend \/ KillSwitch \/ DefaultRoute
            \/ DropRule \/ AddRule \/ ShowStatus
Job     == Verify \/ Failed \/ Save
Startup == Restart \/ Serve \/ \E c \in Clients : Replay(c)

Next ==
  \/ \E c \in Clients, m \in Modes : Patch(c, m)
  \/ Script \/ Hang \/ Timeout \/ Job \/ Startup
  \/ Crash \/ Host

Spec == Init /\ [][Next]_vars

\* The script runs or is killed, the panel goes on with its result, and
\* systemd restarts the service.
Fairness == WF_vars(Script) /\ WF_vars(Timeout) /\ WF_vars(Job) /\ WF_vars(Startup)

FairSpec == Spec /\ Fairness

-----------------------------------------------------------------------------
\* Properties.

\* Every variable has the shape the code and the kernel give it: a script runs for
\* a job only, and a default route through a device is there with its device only.
TypeOK ==
  /\ saved \in [Clients -> Modes] /\ rule \in [Clients -> Modes]
  /\ table \in [Tables -> Routes]
  /\ net \in Nets /\ net.up \subseteq net.dev
  /\ mode \in {"down", "starting", "serving"}
  /\ job \in Jobs /\ script \in Scripts /\ left \in Bounds
  /\ todo \subseteq Clients /\ failed \subseteq Clients
  /\ job.pc = "script" <=> script.at # "off"
  /\ \A t \in Tables : table[t] = "backend" => t \in net.dev

\* prepare_backup_table never opens table 203, at no instant of a run that is
\* aborted, killed or rolled back, nor over crashes: a client whose rule looks it
\* up falls through to the general route only when the kernel dropped the default
\* with the tunnel's device.
BackupNeverFallsThrough ==
  \A c \in Clients :
    rule[c] = "backup" /\ Egress(c) = "general" => table["backup"] = "lost"

AtRest == mode = "serving" /\ job.pc = "idle"

\* What the documentation says of the three modes: while a backend is not there,
\* the kill switch is (the code does not keep this: a script may be aborted after
\* it flushed a table, and there is no kill switch beside a live default route).
NoFallThroughAtRest ==
  AtRest => \A c \in Clients : saved[c] \in Tables => Egress(c) # "general"

\* What the code keeps of it. The other two tables are emptied before they are
\* filled: between jobs, a client with one of the three modes takes the general
\* route only when the kernel dropped the default of its table since, or when
\* there is a client whose last script run was refused or cut short.
OpenOnlyAfterFailure ==
  AtRest => \A c \in Clients :
    saved[c] \in Tables /\ Egress(c) = "general" =>
      table[saved[c]] = "lost" \/ failed # {}

\* Between jobs the rule of a client that is not in auto mode is the one of its
\* saved mode, unless its own last script run was refused or cut short: a PATCH
\* that cannot be applied, verified or saved is taken back, and the replay undoes
\* what a crash left between the route and the profile.
PinnedFollowProfiles ==
  AtRest => \A c \in Clients :
    saved[c] # "auto" => rule[c] = saved[c] \/ c \in failed

\* A mode is saved only after the client's packets really took it: the API applies,
\* verifies, and saves last, and nothing but the kernel takes the verified route
\* away in between.
SavedOnlyWhenRouted ==
  [][\A c \in Clients : saved'[c] # saved[c] =>
       /\ rule[c] = saved'[c]
       /\ \/ Egress(c) = IF saved'[c] = "auto" THEN "general" ELSE saved'[c]
          \/ saved'[c] \in Tables /\ table[saved'[c]] = "lost"]_vars

\* A job ends, whatever hangs or fails.
JobsEnd == job.pc # "idle" ~> job.pc = "idle"

\* After a crash the replay ends and the panel serves.
RoutingRecovers == mode = "down" ~> mode = "serving"

=============================================================================
