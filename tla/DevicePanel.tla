---------------------------- MODULE DevicePanel ----------------------------
(***************************************************************************)
(* The device half of the panel: devices.json, the ip rules that route a   *)
(* device through table 200, the DHCP lease file the panel follows and the *)
(* registry of ESP32 remotes whose MACs are excluded from the devices.     *)
(*                                                                         *)
(* Every operation is a chain of steps of a process: a request handled on  *)
(* a worker thread (asyncio.to_thread) or the event loop itself, Main,     *)
(* which runs the startup hook and the sync of sync_and_broadcast_all.     *)
(* Device requests hold state_lock, remote requests and Main do not.       *)
(* One step reads or writes one file, or runs one ip rule command.         *)
(***************************************************************************)
EXTENDS Integers, SequencesExt

CONSTANTS Procs,         \* requests that can be in flight at once
          Main,          \* the event loop thread
          Macs, Ips,     \* addresses of devices and remotes
          Unnumbered,    \* the Ips whose last part is no number
          RemoteIds,     \* remote_id values
          NoMac,         \* a remote without remote_mac
          LeaseFiles,    \* contents dnsmasq.leases can have
          InitialFiles,  \* contents devices.json can have when the host boots
          Requests,      \* what clients and timers may ask for
          Budget         \* bounds on the environment: see Bounds

VARIABLES file,     \* devices.json: a sequence of Device
          leases,   \* dnsmasq.leases: a sequence of Lease
          remotes,  \* remotes.json: the remote_mac of every remote
          rules,    \* IPs with an ip rule that looks up table 200
          mode,     \* "down", "starting" (the startup hook runs) or "serving"
          lockQ,    \* state_lock: its holder, then the waiters in FIFO order
          proc,     \* the local state of every process
          unsaved,  \* history: IPs given a rule by a set whose save failed
          left      \* what is left of Budget

vars  == <<file, leases, remotes, rules, mode, lockQ, proc, unsaved, left>>
store == <<file, leases, remotes>>
panel == <<mode, lockQ, unsaved>>

Everyone == Procs \cup {Main}

Device   == [mac : Macs, ip : Ips, vpn : BOOLEAN]
Lease    == [mac : Macs, ip : Ips]
Registry == [RemoteIds -> Macs \cup {NoMac}]

\* The bounds on the environment: requests accepted, changes of the lease
\* file, crashes of the service, ip rule commands that fail or time out, and
\* writes of a file that raise.
Bounds == [requests : Nat, dhcp : Nat, crashes : Nat, faults : Nat, saves : Nat]

SyncKinds   == {"list", "sync", "apply", "set", "toggle", "update"}
DeviceKinds == SyncKinds \cup {"add", "delete"}
PurgeKinds  == {"addRemote", "hello", "ping"}
RemoteKinds == PurgeKinds \cup {"editRemote", "deleteRemote"}
Kinds       == DeviceKinds \cup RemoteKinds \cup {"refresh"}

\* Requests after which the handler calls sync_and_broadcast_all.
Broadcasting == {"sync", "apply", "add", "delete", "addRemote", "editRemote",
                 "deleteRemote", "refresh"}

Request == [kind : Kinds, mac : Macs, ip : Ips, vpn : BOOLEAN, rid : RemoteIds]

Labels == {"idle", "wait", "load", "read", "filter", "lease", "find",
           "unrule", "rule", "purge", "add", "save", "readRemotes",
           "writeRemotes", "done", "failed"}

ASSUME ConstantsAssumption ==
  /\ Main \notin Procs /\ NoMac \notin Macs
  /\ Macs # {} /\ Ips # {} /\ RemoteIds # {} /\ Unnumbered \subseteq Ips
  /\ LeaseFiles \subseteq Seq(Lease) /\ InitialFiles \subseteq Seq(Device)
  /\ \A ds \in InitialFiles : \A i, j \in DOMAIN ds :
       ds[i].mac = ds[j].mac => i = j
  /\ Requests \subseteq Request /\ Budget \in Bounds

-----------------------------------------------------------------------------
\* What a process keeps: where it is, what it was asked, the device list it
\* loaded, the two indexes sync builds over that list (0: absent), the leases
\* still to merge, its copy of remotes.json, and a position in devs.
Local == [pc : Labels, req : Request, devs : Seq(Device),
          byMac : [Macs -> Nat], byIp : [Ips -> Nat],
          todo : Seq(Lease), seen : Registry, at : Nat]

\* A request of the panel itself: only its kind matters.
Own(kind) == [kind |-> kind, mac |-> CHOOSE m \in Macs : TRUE,
              ip |-> CHOOSE i \in Ips : TRUE, vpn |-> FALSE,
              rid |-> CHOOSE r \in RemoteIds : TRUE]

NoMacs == [m \in Macs |-> 0]
NoIps  == [i \in Ips |-> 0]
Empty  == [r \in RemoteIds |-> NoMac]

Idle == [pc |-> "idle", req |-> Own("list"), devs |-> <<>>, byMac |-> NoMacs,
         byIp |-> NoIps, todo |-> <<>>, seen |-> Empty, at |-> 0]

Started(kind) == [Idle EXCEPT !.pc = "load", !.req = Own(kind)]

RemoteMacs(registry) == {registry[r] : r \in RemoteIds} \ {NoMac}

\* A mutant: an absent MAC is indexed as -1.
MacIndexMinusOne(ds) ==
  [m \in Macs |-> IF \E i \in DOMAIN ds : ds[i].mac = m THEN 1 ELSE -1]

MacIndex(ds) == [m \in Macs |-> SelectLastInSeq(ds, LAMBDA d : d.mac = m)]
IpIndex(ds)  == [i \in Ips  |-> SelectLastInSeq(ds, LAMBDA d : d.ip = i)]

\* A mutant: any lookup in a list that is not empty finds its first record.
FindAny(ds, m) == IF ds = <<>> THEN 0 ELSE 1

FindDevice(ds, m) == SelectInSeq(ds, LAMBDA d : d.mac = m)

IsLocked(p) == proc[p].req.kind \in DeviceKinds

\* An ip rule command leaves the rules in the given state, or fails: safe_run
\* swallows the error and the caller never looks at the return code.
RuleCommand(result) ==
  \/ rules' = result /\ UNCHANGED left
  \/ /\ left.faults > 0
     /\ rules' = rules
     /\ left' = [left EXCEPT !.faults = @ - 1]

At(p, label) == proc[p].pc = label

\* A step changes the local state of one process.
Becomes(p, l) == proc' = [proc EXCEPT ![p] = l]

-----------------------------------------------------------------------------
\* Requests on the event loop.

\* A handler starts: it queues for state_lock, or goes straight to a worker.
Accept(p, r) ==
  /\ mode = "serving" /\ At(p, "idle") /\ At(Main, "idle")
  /\ left.requests > 0
  /\ left' = [left EXCEPT !.requests = @ - 1]
  /\ lockQ' = IF r.kind \in DeviceKinds THEN Append(lockQ, p) ELSE lockQ
  /\ Becomes(p, [Idle EXCEPT !.req = r,
                !.pc = CASE r.kind \in DeviceKinds -> "wait"
                         [] r.kind \in RemoteKinds -> "readRemotes"
                         [] OTHER -> "done"])
  /\ UNCHANGED <<store, rules, mode, unsaved>>

\* A mutant: the loop goes on serving while sync_and_broadcast_all syncs, as it
\* would if that sync were moved to a thread without state_lock.
DispatchAnyTime(p) ==
  /\ At(p, "wait") /\ Head(lockQ) = p
  /\ Becomes(p, [proc[p] EXCEPT !.pc = "load"])
  /\ UNCHANGED <<store, rules, panel, left>>

\* The first waiter gets the lock and its work is dispatched to a thread.
Dispatch(p) ==
  /\ At(p, "wait") /\ At(Main, "idle") /\ Head(lockQ) = p
  /\ Becomes(p, [proc[p] EXCEPT !.pc = "load"])
  /\ UNCHANGED <<store, rules, panel, left>>

\* A mutant: an operation that raised never releases the lock.
FinishLeaking(p) ==
  /\ proc[p].pc \in {"done", "failed"} /\ At(Main, "idle")
  /\ lockQ' = IF IsLocked(p) /\ At(p, "done") THEN Tail(lockQ) ELSE lockQ
  /\ Becomes(p, Idle)
  /\ UNCHANGED <<store, rules, mode, unsaved, left>>

\* The coroutine resumes, leaves "async with state_lock", and runs the sync of
\* sync_and_broadcast_all before it yields to the loop again.
Finish(p) ==
  /\ proc[p].pc \in {"done", "failed"} /\ At(Main, "idle")
  /\ lockQ' = IF IsLocked(p) THEN Tail(lockQ) ELSE lockQ
  /\ proc' = [proc EXCEPT ![p] = Idle,
                ![Main] = IF /\ At(p, "done")
                             /\ proc[p].req.kind \in Broadcasting
                          THEN Started("sync") ELSE @]
  /\ UNCHANGED <<store, rules, mode, unsaved, left>>

\* A mutant: the end of the startup hook does not open the panel.
FinishMainClosed ==
  /\ proc[Main].pc \in {"done", "failed"}
  /\ Becomes(Main, Idle)
  /\ UNCHANGED <<store, rules, panel, left>>

\* Startup is over, or the sync on the loop is: the loop serves again. A startup
\* hook that raises ends the service; a sync that raises ends its handler only.
FinishMain ==
  /\ proc[Main].pc \in {"done", "failed"}
  /\ Becomes(Main, Idle)
  /\ mode' = IF mode = "starting" /\ At(Main, "failed") THEN "down" ELSE "serving"
  /\ UNCHANGED <<store, rules, lockQ, unsaved, left>>

-----------------------------------------------------------------------------
\* sync_devices_from_leases.

\* load_devices: a process reads its own copy of the file.
Load(p) ==
  /\ At(p, "load")
  /\ Becomes(p, [proc[p] EXCEPT !.devs = file,
                                !.pc = CASE proc[p].req.kind \in SyncKinds -> "read"
                                            [] proc[p].req.kind = "add" -> "add"
                                            [] OTHER -> "purge"])
  /\ UNCHANGED <<store, rules, panel, left>>

ReadInputs(p) ==
  /\ At(p, "read")
  /\ Becomes(p, [proc[p] EXCEPT !.todo = leases, !.seen = remotes,
                                !.pc = "filter"])
  /\ UNCHANGED <<store, rules, panel, left>>

\* A device whose MAC is now a remote's loses its rule and its record.
DropRemote(p) ==
  /\ At(p, "filter")
  /\ \E i \in DOMAIN proc[p].devs :
       /\ proc[p].devs[i].mac \in RemoteMacs(proc[p].seen)
       /\ \A j \in 1 .. i - 1 :
            proc[p].devs[j].mac \notin RemoteMacs(proc[p].seen)
       /\ RuleCommand(rules \ {proc[p].devs[i].ip})
       /\ Becomes(p, [proc[p] EXCEPT !.devs = RemoveAt(@, i)])
  /\ UNCHANGED <<store, panel>>

BuildIndexes(p) ==
  /\ At(p, "filter")
  /\ \A i \in DOMAIN proc[p].devs :
       proc[p].devs[i].mac \notin RemoteMacs(proc[p].seen)
  /\ Becomes(p, [proc[p] EXCEPT !.byMac = MacIndex(proc[p].devs),
                                !.byIp = IpIndex(proc[p].devs),
                                !.pc = "lease"])
  /\ UNCHANGED <<store, rules, panel, left>>

\* The next lease of a merge, and the record its MAC or its IP is indexed to.
NextLease(p, l) == At(p, "lease") /\ proc[p].todo # <<>> /\ l = Head(proc[p].todo)

SkipRemoteLease(p, l) ==
  /\ l.mac \in RemoteMacs(proc[p].seen)
  /\ Becomes(p, [proc[p] EXCEPT !.todo = Tail(@)])
  /\ UNCHANGED <<rules, left>>

\* A mutant: the rule of the old address is forgotten.
UpdateKnownKeepRule(p, l) ==
  LET i == proc[p].byMac[l.mac] IN
  /\ l.mac \notin RemoteMacs(proc[p].seen) /\ i # 0
  /\ Becomes(p, [proc[p] EXCEPT !.devs = [@ EXCEPT ![i].ip = l.ip], !.todo = Tail(@)])
  /\ UNCHANGED <<rules, left>>

\* Known MAC: the record follows its lease. byIp keeps the old address.
UpdateKnown(p, l) ==
  LET i == proc[p].byMac[l.mac] IN
  /\ l.mac \notin RemoteMacs(proc[p].seen) /\ i # 0
  /\ IF proc[p].devs[i].ip # l.ip
     THEN RuleCommand(rules \ {proc[p].devs[i].ip})
     ELSE UNCHANGED <<rules, left>>
  /\ Becomes(p, [proc[p] EXCEPT !.devs = [@ EXCEPT ![i].ip = l.ip, ![i].mac = l.mac],
                                !.todo = Tail(@)])

\* A mutant: the IP is looked up even for a MAC that has a record.
AdoptAnyMac(p, l) ==
  LET i == proc[p].byIp[l.ip] IN
  /\ l.mac \notin RemoteMacs(proc[p].seen) /\ i # 0
  /\ Becomes(p, [proc[p] EXCEPT !.devs = [@ EXCEPT ![i].mac = l.mac],
                                !.byMac = [@ EXCEPT ![l.mac] = i],
                                !.todo = Tail(@)])
  /\ UNCHANGED <<rules, left>>

\* Unknown MAC at an indexed IP: the record changes hands, vpn flag included.
AdoptByIp(p, l) ==
  LET i == proc[p].byIp[l.ip] IN
  /\ l.mac \notin RemoteMacs(proc[p].seen)
  /\ proc[p].byMac[l.mac] = 0 /\ i # 0
  /\ Becomes(p, [proc[p] EXCEPT !.devs = [@ EXCEPT ![i].mac = l.mac],
                                !.byMac = [@ EXCEPT ![l.mac] = i],
                                !.todo = Tail(@)])
  /\ UNCHANGED <<rules, left>>

\* A mutant: a device found in a lease starts with its VPN on.
AppendNewOn(p, l) ==
  LET n == Len(proc[p].devs) + 1 IN
  /\ l.mac \notin RemoteMacs(proc[p].seen)
  /\ proc[p].byMac[l.mac] = 0 /\ proc[p].byIp[l.ip] = 0
  /\ Becomes(p, [proc[p] EXCEPT
       !.devs = Append(@, [mac |-> l.mac, ip |-> l.ip, vpn |-> TRUE]),
       !.byMac = [@ EXCEPT ![l.mac] = n], !.byIp = [@ EXCEPT ![l.ip] = n],
       !.todo = Tail(@)])
  /\ UNCHANGED <<rules, left>>

AppendNew(p, l) ==
  LET n == Len(proc[p].devs) + 1 IN
  /\ l.mac \notin RemoteMacs(proc[p].seen)
  /\ proc[p].byMac[l.mac] = 0 /\ proc[p].byIp[l.ip] = 0
  /\ Becomes(p, [proc[p] EXCEPT
       !.devs = Append(@, [mac |-> l.mac, ip |-> l.ip, vpn |-> FALSE]),
       !.byMac = [@ EXCEPT ![l.mac] = n], !.byIp = [@ EXCEPT ![l.ip] = n],
       !.todo = Tail(@)])
  /\ UNCHANGED <<rules, left>>

MergeLease(p) ==
  \E l \in Lease :
    /\ NextLease(p, l)
    /\ \/ SkipRemoteLease(p, l)
       \/ UpdateKnown(p, l)
       \/ AdoptByIp(p, l)
       \/ AppendNew(p, l)
    /\ UNCHANGED <<store, panel>>

\* The merged list is saved and sync returns it to the operation that called.
SaveSync(p) ==
  /\ At(p, "lease") /\ proc[p].todo = <<>>
  /\ file' = proc[p].devs
  /\ Becomes(p, [proc[p] EXCEPT
       !.byMac = NoMacs, !.byIp = NoIps, !.seen = Empty,
       !.at = IF proc[p].req.kind = "apply" THEN 1 ELSE 0,
       !.pc = CASE proc[p].req.kind \in {"set", "toggle", "update"} -> "find"
                   [] proc[p].req.kind = "apply" /\ proc[p].devs # <<>> -> "unrule"
                   [] OTHER -> "done"])
  /\ UNCHANGED <<leases, remotes, rules, panel, left>>

-----------------------------------------------------------------------------
\* What the operations do with the synced list.

\* set_device_vpn changes the record, toggle_device_vpn calls set_device_vpn
\* with the negated flag (a second sync), update_device goes on to save or
\* rejects an empty name. An unknown MAC is a KeyError.
Find(p) ==
  LET i == FindDevice(proc[p].devs, proc[p].req.mac) IN
  /\ At(p, "find")
  /\ \/ i = 0 /\ Becomes(p, [proc[p] EXCEPT !.pc = "failed"])
     \/ /\ i # 0 /\ proc[p].req.kind = "set"
        /\ Becomes(p, [proc[p] EXCEPT !.devs = [@ EXCEPT ![i].vpn = proc[p].req.vpn],
                                      !.at = i, !.pc = "unrule"])
     \/ /\ i # 0 /\ proc[p].req.kind = "toggle"
        /\ Becomes(p, [proc[p] EXCEPT !.pc = "load",
                                      !.req = [@ EXCEPT !.kind = "set",
                                                        !.vpn = ~proc[p].devs[i].vpn]])
     \/ /\ i # 0 /\ proc[p].req.kind = "update"
        /\ \E outcome \in {"save", "failed"} :
             Becomes(p, [proc[p] EXCEPT !.pc = outcome])
  /\ UNCHANGED <<store, rules, panel, left>>

\* After the rule of record i: set saves the list, apply goes to the next one.
AfterRule(p, i) ==
  IF proc[p].req.kind = "set"
  THEN [proc[p] EXCEPT !.pc = "save", !.at = 0]
  ELSE IF i < Len(proc[p].devs)
       THEN [proc[p] EXCEPT !.pc = "unrule", !.at = i + 1]
       ELSE [proc[p] EXCEPT !.pc = "done", !.at = 0]

\* A mutant: the rule of a device with the VPN on is not added again.
DisableRuleOnly(p) ==
  /\ At(p, "unrule")
  /\ RuleCommand(rules \ {proc[p].devs[proc[p].at].ip})
  /\ Becomes(p, AfterRule(p, proc[p].at))
  /\ UNCHANGED <<store, panel>>

\* disable_vpn_rule, which enable_vpn_rule also calls before it adds the rule.
DisableRule(p) ==
  LET i == proc[p].at IN
  /\ At(p, "unrule")
  /\ RuleCommand(rules \ {proc[p].devs[i].ip})
  /\ Becomes(p, IF proc[p].devs[i].vpn
                THEN [proc[p] EXCEPT !.pc = "rule"]
                ELSE AfterRule(p, i))
  /\ UNCHANGED <<store, panel>>

AddRule(p) ==
  LET i == proc[p].at IN
  /\ At(p, "rule") /\ proc[p].devs[i].ip \notin Unnumbered
  /\ RuleCommand(rules \cup {proc[p].devs[i].ip})
  /\ Becomes(p, AfterRule(p, i))
  /\ UNCHANGED <<store, panel>>

\* rule_priority raises a ValueError, which ends the set or the whole pass.
NoPriority(p) ==
  /\ At(p, "rule") /\ proc[p].devs[proc[p].at].ip \in Unnumbered
  /\ Becomes(p, [proc[p] EXCEPT !.pc = "failed"])
  /\ UNCHANGED <<store, rules, panel, left>>

\* add_device: the MAC of a remote is refused, a known MAC gets the new IP
\* (its rule is left alone), an unknown one a record with the VPN off.
AddDevice(p) ==
  LET r == proc[p].req
      i == FindDevice(proc[p].devs, r.mac) IN
  /\ At(p, "add")
  /\ \/ /\ r.mac \in RemoteMacs(remotes)
        /\ Becomes(p, [proc[p] EXCEPT !.pc = "failed"])
     \/ /\ r.mac \notin RemoteMacs(remotes) /\ i # 0
        /\ Becomes(p, [proc[p] EXCEPT !.pc = "save",
                                      !.devs = [@ EXCEPT ![i].ip = r.ip]])
     \/ /\ r.mac \notin RemoteMacs(remotes) /\ i = 0
        /\ Becomes(p, [proc[p] EXCEPT !.pc = "save",
                                      !.devs = Append(@, [mac |-> r.mac, ip |-> r.ip,
                                                          vpn |-> FALSE])])
  /\ UNCHANGED <<store, rules, panel, left>>

\* delete_device and remove_devices_by_remote_macs drop the records of one MAC
\* and save the rest if there was one.
Purged(p) == IF proc[p].req.kind = "delete" THEN proc[p].req.mac
             ELSE proc[p].seen[proc[p].req.rid]

\* A mutant: the record goes, its rule stays.
PurgeOneKeepRule(p) ==
  LET i == FindDevice(proc[p].devs, Purged(p)) IN
  /\ At(p, "purge") /\ i # 0
  /\ Becomes(p, [proc[p] EXCEPT !.devs = RemoveAt(@, i), !.at = 1])
  /\ UNCHANGED <<store, rules, panel, left>>

PurgeOne(p) ==
  LET i == FindDevice(proc[p].devs, Purged(p)) IN
  /\ At(p, "purge") /\ i # 0
  /\ RuleCommand(rules \ {proc[p].devs[i].ip})
  /\ Becomes(p, [proc[p] EXCEPT !.devs = RemoveAt(@, i), !.at = 1])
  /\ UNCHANGED <<store, panel>>

PurgeEnd(p) ==
  /\ At(p, "purge") /\ FindDevice(proc[p].devs, Purged(p)) = 0
  /\ Becomes(p, [proc[p] EXCEPT !.at = 0,
                                !.pc = IF proc[p].at = 1 THEN "save" ELSE "done"])
  /\ UNCHANGED <<store, rules, panel, left>>

\* save_devices replaces the whole file by the list the process holds.
Save(p) ==
  /\ At(p, "save")
  /\ file' = proc[p].devs
  /\ Becomes(p, [proc[p] EXCEPT !.pc = "done"])
  /\ UNCHANGED <<leases, remotes, rules, panel, left>>

\* The addresses of the records of ds that have their VPN on.
Routed(ds) == {ds[i].ip : i \in {k \in DOMAIN ds : ds[k].vpn}}

\* _atomic_write_json raises before its os.replace: the operation fails, the file
\* stays as it was, and what was done to the rules is not undone.
SaveFails(p) ==
  /\ left.saves > 0
  /\ \/ proc[p].pc \in {"save", "writeRemotes"}
     \/ At(p, "lease") /\ proc[p].todo = <<>>
  /\ left' = [left EXCEPT !.saves = @ - 1]
  /\ unsaved' = IF At(p, "save") /\ proc[p].req.kind = "set"
                THEN unsaved \cup (Routed(proc[p].devs) \ Routed(file))
                ELSE unsaved
  /\ Becomes(p, [proc[p] EXCEPT !.pc = "failed"])
  /\ UNCHANGED <<store, rules, mode, lockQ>>

-----------------------------------------------------------------------------
\* The registry of remotes: load_remotes, change one entry, save_remotes, and
\* for add_or_update_remote and register_remote_seen a purge of its MAC.

ReadRemotes(p) ==
  /\ At(p, "readRemotes")
  /\ Becomes(p, [proc[p] EXCEPT !.seen = remotes, !.pc = "writeRemotes"])
  /\ UNCHANGED <<store, rules, panel, left>>

WriteRemotes(p) ==
  LET r    == proc[p].req
      copy == CASE r.kind \in {"addRemote", "hello"} ->
                     [proc[p].seen EXCEPT ![r.rid] = r.mac]
                [] r.kind = "deleteRemote" ->
                     [proc[p].seen EXCEPT ![r.rid] = NoMac]
                [] OTHER -> proc[p].seen
  IN
  /\ At(p, "writeRemotes")
  /\ remotes' = copy
  /\ Becomes(p, [proc[p] EXCEPT !.seen = copy,
                                !.pc = IF r.kind \in PurgeKinds /\ copy[r.rid] # NoMac
                                          THEN "load" ELSE "done"])
  /\ UNCHANGED <<file, leases, rules, panel, left>>

\* delete_remote, update_remote and unbind_remote write nothing when the
\* remote_id is unknown; delete_remote broadcasts even so.
UnknownRemote(p) ==
  /\ At(p, "writeRemotes")
  /\ proc[p].req.kind \in {"deleteRemote", "editRemote"}
  /\ proc[p].seen[proc[p].req.rid] = NoMac
  /\ Becomes(p, [proc[p] EXCEPT !.pc =
                IF proc[p].req.kind = "deleteRemote" THEN "done" ELSE "failed"])
  /\ UNCHANGED <<store, rules, panel, left>>

-----------------------------------------------------------------------------
\* The environment.

\* dnsmasq renews, expires or hands out leases.
DhcpChange ==
  /\ left.dhcp > 0
  /\ left' = [left EXCEPT !.dhcp = @ - 1]
  /\ leases' \in LeaseFiles \ {leases}
  /\ UNCHANGED <<file, remotes, rules, panel, proc>>

\* The service dies between any two steps. Files survive; the kernel's rules
\* survive too unless the whole host went down.
Crash ==
  /\ mode # "down" /\ left.crashes > 0
  /\ left' = [left EXCEPT !.crashes = @ - 1]
  /\ mode' = "down"
  /\ lockQ' = <<>>
  /\ proc' = [p \in Everyone |-> Idle]
  /\ rules' \in {rules, {}}
  /\ UNCHANGED <<store, unsaved>>

\* A mutant: the startup hook syncs the leases but applies no rules.
RestartWithoutRules ==
  /\ mode = "down"
  /\ mode' = "starting"
  /\ Becomes(Main, Started("list"))
  /\ unsaved' = {}
  /\ UNCHANGED <<store, rules, lockQ, left>>

\* systemd restarts the service; the startup hook applies all rules before
\* the first request is accepted.
Restart ==
  /\ mode = "down"
  /\ mode' = "starting"
  /\ Becomes(Main, Started("apply"))
  /\ unsaved' = {}
  /\ UNCHANGED <<store, rules, lockQ, left>>

-----------------------------------------------------------------------------
Init ==
  /\ file \in InitialFiles
  /\ leases \in LeaseFiles
  /\ remotes = Empty
  /\ rules = {}
  /\ mode = "down"
  /\ lockQ = <<>>
  /\ proc = [p \in Everyone |-> Idle]
  /\ unsaved = {}
  /\ left = Budget

\* One step of the work a process does on the files and the rules.
Work(p) ==
  \/ Load(p) \/ ReadInputs(p) \/ DropRemote(p) \/ BuildIndexes(p)
  \/ MergeLease(p) \/ SaveSync(p) \/ Find(p) \/ DisableRule(p) \/ AddRule(p)
  \/ NoPriority(p) \/ AddDevice(p) \/ PurgeOne(p) \/ PurgeEnd(p) \/ Save(p)
  \/ SaveFails(p)
  \/ ReadRemotes(p) \/ WriteRemotes(p) \/ UnknownRemote(p)

Next ==
  \/ \E p \in Procs : \E r \in Requests : Accept(p, r)
  \/ \E p \in Procs : Dispatch(p) \/ Finish(p)
  \/ \E p \in Everyone : Work(p)
  \/ FinishMain
  \/ DhcpChange
  \/ Crash
  \/ Restart

Spec == Init /\ [][Next]_vars

\* Threads run, the loop resumes what is ready, systemd restarts the service.
Fairness ==
  /\ \A p \in Procs : WF_vars(Dispatch(p)) /\ WF_vars(Finish(p))
  /\ \A p \in Everyone : WF_vars(Work(p))
  /\ WF_vars(FinishMain)
  /\ WF_vars(Restart)

FairSpec == Spec /\ Fairness

-----------------------------------------------------------------------------
\* Properties.

\* Every variable and every process has the shape the code gives it.
TypeOK ==
  /\ file \in Seq(Device)
  /\ leases \in LeaseFiles
  /\ remotes \in Registry
  /\ rules \subseteq Ips
  /\ mode \in {"down", "starting", "serving"}
  /\ lockQ \in Seq(Procs)
  /\ proc \in [Everyone -> Local]
  /\ unsaved \subseteq Ips
  /\ left \in Bounds

DistinctMacs(ds) == \A i, j \in DOMAIN ds : ds[i].mac = ds[j].mac => i = j

\* What a merge and a rule pass rely on: the indexes name positions that exist,
\* byMac names the record of every MAC in the list, and the position whose rule
\* is being changed exists.
IndexOK(ds, byMac, byIp) ==
  /\ \A m \in Macs : byMac[m] \in 0 .. Len(ds)
  /\ \A i \in Ips : byIp[i] \in 0 .. Len(ds)
  /\ \A n \in DOMAIN ds : byMac[ds[n].mac] = n

LocalInv(l) ==
  /\ DistinctMacs(l.devs)
  /\ l.pc = "lease" => IndexOK(l.devs, l.byMac, l.byIp)
  /\ l.pc \in {"unrule", "rule"} => l.at \in DOMAIN l.devs

ListsConsistent == DistinctMacs(file) /\ \A p \in Everyone : LocalInv(proc[p])

\* state_lock: it queues every device request in flight once, and only its
\* holder has got past the wait.
LockInv ==
  /\ IsInjective(lockQ)
  /\ \A p \in Procs : At(p, "wait") => IsLocked(p)
  /\ \A p \in Procs : (\E i \in DOMAIN lockQ : lockQ[i] = p)
                          <=> (~ At(p, "idle") /\ IsLocked(p))
  /\ \A p \in Procs : IsLocked(p) /\ proc[p].pc \notin {"idle", "wait"}
                          => lockQ[1] = p

Working(p) == proc[p].pc \notin {"idle", "wait", "done", "failed"}

\* The lock and the loop's run-to-completion keep the device operations, the
\* unlocked sync of sync_and_broadcast_all included, one at a time.
OneAtATime == \A p, q \in Everyone : Working(p) /\ Working(q) => p = q

\* An ip rule always belongs to an address some saved record has, so that
\* turning that record's VPN off can remove it (delete_device, sync and
\* set_device_vpn order the rule and the save to keep this across a crash).
RulesOwned == rules \subseteq {file[i].ip : i \in DOMAIN file}

AtRest == mode = "serving" /\ \A p \in Everyone : At(p, "idle")

\* When nothing is in flight, an address routed through the VPN is that of a
\* record whose VPN is on, whatever crashed or failed half-way before. Only a set
\* whose save failed leaves its rule to a record whose VPN is off, as it adds the
\* rule first: until the service starts again.
NoStrayRule == AtRest => rules \subseteq Routed(file) \cup unsaved

\* Where apply_all_rules ends (at startup, POST sync, WS sync) the last record
\* of an address decides whether it has a rule; a new start repairs whatever
\* races and crashes left behind for the addresses devices.json knows.
RulesMatch ==
  \A n \in DOMAIN file :
    (\A k \in n + 1 .. Len(file) : file[k].ip # file[n].ip)
      => (file[n].ip \in rules <=> file[n].vpn)
ApplyAllMatches ==
  \A p \in Procs : At(p, "done") /\ proc[p].req.kind = "apply" => RulesMatch
StartupMatches == mode = "starting" /\ At(Main, "done") => RulesMatch

\* The MACs whose VPN a list of records has on.
VpnOn(ds) == {ds[i].mac : i \in {k \in DOMAIN ds : ds[k].vpn}}

\* A step of an operation that was asked to change, or remove, a record.
Asked(kinds, m) == \E p \in Procs : /\ At(p, "save") /\ proc[p].req.kind \in kinds
                                    /\ proc[p].req.mac = m

\* The VPN of a MAC is turned on by a set or toggle of that MAC only, and lost to
\* a set, a toggle or a delete of it only ("Existing VPN state is preserved"; a
\* device found in a lease starts with it off).
VpnOnlyOnRequest ==
  [][/\ \A m \in VpnOn(file') \ VpnOn(file) : Asked({"set"}, m)
     /\ \A m \in VpnOn(file) \ VpnOn(file') : Asked({"set", "delete"}, m)]_vars

\* Device operations are atomic: each save of devices.json is one action of the
\* register on the file as it is at that moment, so no update is lost.
Records == [m \in {file[i].mac : i \in DOMAIN file} |->
             LET i == FindDevice(file, m)
             IN  [ip |-> file[i].ip, vpn |-> file[i].vpn]]
Register == INSTANCE DeviceRegister WITH records <- Records
AtomicOperations == Register!Spec

\* Every request that waits for state_lock is answered, or dies in a crash.
RequestsServed == \A p \in Procs : At(p, "wait") ~> At(p, "idle")

\* After a crash the panel serves again, with its rules reapplied, also when a
\* write fails in the startup hook: systemd starts the service once more. It takes
\* that no device with its VPN on is saved with an address whose last part is no
\* number, on which every startup hook raises (see the run bad_address).
PanelRecovers == mode = "down" ~> mode = "serving"

=============================================================================
