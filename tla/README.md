# TV VPN Panel in TLA+

TLA+ models of the TV VPN Panel, a FastAPI service on a Raspberry Pi that decides which
devices of the TV network, and which WireGuard clients, leave through a VPN. It keeps its
desired state in JSON files, changes the `ip rule`s and routing tables of the host with
external commands, follows the DHCP leases of dnsmasq, and talks to ESP32 remotes over
WebSocket. `src/` below is the repository.

## 1. Inventory

| Component | Source | State | Operations |
|---|---|---|---|
| Device store, DHCP sync | `tv_vpn_panel/store.py` | `devices.json` | sync, add, update, delete, set, toggle, apply all rules |
| Device rules | `tv_vpn_panel/system_ops.py` | the kernel's rules for table 200 | enable, disable, apply |
| Lock, loop, threads | `tv_vpn_panel/main.py` | `state_lock`, requests in flight, periodic task | HTTP handlers, startup, shutdown |
| Remote registry | `tv_vpn_panel/store.py` | `remotes.json` | register, add, bind, unbind, update, delete, purge |
| WebSocket | `main.py`, `ws.py` | connected clients and their targets | hello, ping, sync, get, set, toggle, broadcast |
| WireGuard routing | `wireguard_routing.py` | policy rules of clients | apply and verify, replay |
| Routing script | `scripts/wireguard-client-routing.sh` | tables 201, 202, 203 | set, clear, prepare, status |
| WireGuard PATCH | `main.py` | the job in progress | apply, verify, save, roll back |
| Profile registry | `wireguard_registry.py` | `wireguard-clients.json` | load, save, upsert |
| Client names | `wireguard_names.py`, `scripts/sync-wireguard-client-names.py` | the same file | sync from `wg0.conf` |
| Status and probes | `wireguard_status.py`, `system_ops.py` | none | parse `wg`, `ip`, `ping` |
| Safe updater | `scripts/update-safe.sh` | release link, backups, service | prepare, switch, verify, roll back |
| Installers, unit | `scripts/*.sh`, `deploy/` | none | straight-line |
| Auth, config, models, pages | `auth.py`, `config.py`, `models.py`, `templates/` | none | stateless |

How they interact: a handler awaits `state_lock`, runs a store or routing operation on a
worker thread (`asyncio.to_thread`) and broadcasts the outcome on the loop. Three things
escape the lock: `sync_and_broadcast_all` calls `sync_devices_from_leases` on the loop
itself, the operations on remotes (which may delete devices) never take the lock, and the
command line name sync is another process. The kernel's rules and tables are shared
state that survives a crash of the service and not one of the host, while the JSON files
survive both.

What is hard, and where: lost updates between the loop and a worker (`main.py:135`); stale
indexes in a merge (`store.py:459`); the order of a rule and a save, and a crash between
them, or a save that fails (`store.py:596`, `main.py:398`); commands whose failure is
swallowed (`system_ops.py:32`) and an address that has no priority (`system_ops.py:37`); tables that are emptied while clients use them
(`wireguard-client-routing.sh:293`) and routes that the kernel drops with their device; a
script aborted or killed half-way; a health check that reads what its own script writes; remotes rewritten by two workers at once
(`store.py:294`); broadcasts that overtake each other (`main.py:129`) and clients left
behind by an endpoint that died (`main.py:721`); names that a parser gives to the wrong
peer (`wireguard_names.py:130`) and profiles found by key or by address
(`wireguard_names.py:221`). `PROJECT.json` lists these hazards with the
properties that watch over each.

What makes each part correct:

- devices: one record per MAC; the VPN flag changes only on request; no rule without an
  owner and none for a device that is off; operations atomic; the lock always released;
  rules and file agree after a start, and the panel comes back after a crash;
- routing modes: between jobs the rule of a client is that of its profile; a profile is
  saved only for a verified route; the script opens no table to the general route; jobs
  end; a restart brings the pinned clients back;
- remotes: a binding changes only on request; a client is shown its own device; the
  manager lists every client that is there; every client comes to show what
  `devices.json` says;
- profiles: one profile per key and per address; a name sync changes no mode and no name
  that was edited, and a PATCH no profile but its own;
- updater: after any failure or signal the service runs one complete release.

## 2. Modules

| Module | What it is |
|---|---|
| `DevicePanel` | `devices.json`, the rules, the leases, the MACs of remotes, the lock, the loop and the worker threads |
| `DeviceRegister` | abstract: a register of records by MAC with atomic operations |
| `MCDevicePanel` | its instances |
| `DevicePanelProofs` | theorems about `DevicePanel`: types, lists, lock, one operation at a time |
| `DeviceAtomicityProofs` | theorems: `DevicePanel` implements `DeviceRegister`, flags change on request |
| `DeviceRulesProofs` | theorems: where the rules and the file agree |
| `WireGuardRouting` | PATCH and replay jobs, the script step by step, rules, tables, backends, crashes |
| `MCWireGuardRouting` | its instances |
| `WireGuardRoutingProofs` | theorems about `WireGuardRouting` |
| `RemoteSessions` | `remotes.json`, the WebSocket sessions, the connection manager, the broadcasts, the periodic task |
| `MCRemoteSessions` | its instances |
| `RemoteSessionsProofs` | theorems about `RemoteSessions` |
| `ConfigNames` | the parser of `wg0.conf`, and a reference reading of the same file |
| `ConfigNamesProofs` | theorems about `ConfigNames`: the parser reads every text right |
| `ProfileRegistry` | extends `ConfigNames`: `wireguard-clients.json`, the PATCH, the import of names, the command line tool |
| `MCProfileRegistry` | their instances |
| `ProfileRegistryProofs` | theorems about `ProfileRegistry` |
| `SafeUpdate` | concurrent runs of `update-safe.sh`: lock, build, switch of the application path, roll back, signals |
| `MCSafeUpdate` | its instances |
| `SafeUpdateProofs` | theorems about `SafeUpdate` |

`DevicePanel` implements `DeviceRegister`. The other parts are not composed: where two of
them touch the same thing, each keeps what its own properties need and makes one step of
the rest. `RemoteSessions` changes a VPN flag in one step under the lock, which is what
`AtomicOperations` of `DevicePanel` justifies for device requests; `ProfileRegistry` applies a
mode in one step that works or is refused, which is `ApplyMode` for the PATCH that
`WireGuardRouting` takes apart; the updater sees of the service only whether it runs.

### DevicePanel

`file` is `devices.json`, a sequence of `[mac, ip, vpn]`; `leases` the lease file;
`remotes` the `remote_mac` of each remote; `rules` the addresses with a rule for table 200;
`lockQ` the holder and the FIFO waiters of `state_lock`; `proc` what each request in
flight, and the event loop `Main`, has loaded and where it is.

A request is accepted on the loop (`Accept`), waits for the lock (`Dispatch`), works on a
thread one file access or rule command at a time (`Work`), and resumes on the loop
(`Finish`), which may then run the unlocked sync of `sync_and_broadcast_all` as `Main`.
While `Main` works nothing else happens on the loop: `Accept`, `Dispatch` and `Finish` wait
for it, threads do not. `sync_devices_from_leases` is `Load`, `ReadInputs`, `DropRemote`,
`BuildIndexes`, one `MergeLease` per lease (`SkipRemoteLease`, `UpdateKnown`, `AdoptByIp`,
`AppendNew`, the branches of the code) and `SaveSync`; what an operation does with the
list follows: `Find`, `DisableRule`, `AddRule`, `AddDevice`, `PurgeOne`, `PurgeEnd`, `Save`.
Remote operations are `ReadRemotes`, `WriteRemotes`, `UnknownRemote` and a purge.

Two things raise on the way. `NoPriority` is `rule_priority` on an address whose last part is
no number (`Unnumbered`: `POST /api/devices` does not look at what it saves); `SaveFails` is
`_atomic_write_json` before its `os.replace`, in a sync, an operation or a remote's. Neither
takes back what was done to the rules. The request fails and frees the lock; the startup
hook ends the service (`FinishMain`), which systemd starts again. `unsaved` is a history
variable: the addresses that got a rule from a set whose save failed, since the last start.

Abstractions: a MAC and an IP are model values, and the names, types, pins and lease times
of a device are left out; the rule of an address is there or not (`disable_vpn_rule`
deletes up to five duplicates); the five delete commands are one step; a failed command
(`RuleCommand`) leaves the rules as they were; leases and remotes are read in one
step; a request of the periodic task is a `list` request (a locked sync) and its broadcast a
`refresh`. The `sync` message of WebSocket is an `apply` request.

### WireGuardRouting

`saved` is the mode of every client in `wireguard-clients.json`; `rule` the mode whose
policy rule a client has (`"auto"`: none); `table` the default route of tables 201, 202
and 203: none since a flush or the boot, the backend's, the unreachable kill switch, or one
the kernel has dropped (`"lost"`); `net` which backends have their device and which answer,
whether the internal interfaces are there and whether table 200 has a default route;
`job` the PATCH or replay in progress; `script` the step the script has reached. `failed` is
a history variable: the clients whose last script run was refused, aborted or killed.

A job runs the script (`RunScript`), verifies the route (`Verify`) and saves (`Save`);
`Failed` rolls back. The script empties and refills tables 201 and 202 (`FlushTable`,
`CommonRoutes`, `CheckBackend`, `DefaultRoute`), rebuilds 203 behind its kill switch
(`CheckBackend`, `KillSwitch`, `CommonRoutes`, `DefaultRoute`), then replaces the client's
rule (`DropRule`, `AddRule`). A missing interface, or the device of a backend that was
healthy a moment ago, aborts it (`set -e`, `Abort`); a hanging command is killed after 20 s
(`Hang`, `Timeout`), `Crash` may kill both at any step, and on a reboot clear the kernel.
`Egress` is where the host sends a packet of a client.

A backend may stop answering and keep its routes (`NetChange`), or lose its device
(`DeviceDown`): then the kernel drops the routes through it, and as the script installs no
kill switch beside a live default route (303-307, 330-333, 373-377), the table has no default
left. When the device comes up again (`DeviceUp`) the service of the backup tunnel brings
the default of table 203 along; tables 201 and 202 wait for the next run of the script.

Abstractions: a command that hangs has no effect; the routes of one backend through its
device are one step; `iptables` and dry runs are left out. That `DeviceUp` fills table 203,
and that at boot (`BootTable`) the other tables are empty, is external: it is what
`backup_is_healthy` expects of the tunnel's service, as it wants the route that no run of
the script has installed yet.

### RemoteSessions

`registry` is `remotes.json`: of every remote, whether it has a record, its `target_mac` and
`enabled`; `vpn` the flags of `devices.json`; `online` and `info` are `_clients` and the
`ClientInfo`s of the manager; `shown` the last flags each client was sent; `gone` the peers
that have left; `lockQ` is `state_lock`; `task` holds the locals of every coroutine: the
endpoints (`Sockets`), the HTTP handlers (`Callers`) and the periodic task (`Poll`).

A coroutine moves from one `await` to the next. `Connect`, `Authenticate`, `Reject` and `Setup`
are the endpoint before its loop, `Settle` its `register` and first message; `Hello`, `Ping`,
`Sync` and `Command` are the branches of the loop. What runs on a worker is `Load` and `Save`
(`SaveFails`, `Fail`), after which `Resume` goes on with the record that was saved or
`Answer` with the HTTP request. Commands, syncs and `Wake` queue for the lock, `Change` is the
operation, `Release` and `Raised` the way out. A broadcast reads the flags, copies the
clients, and sends to one of them per step (`Send`, `Continue`), so leaving, registering and
other broadcasts come in between; the list of devices is followed by one round per device. A
send to a peer that left, or to an endpoint that returned, raises, and drops the client. An
exception before the `try` of the endpoint ends it without a `disconnect`. A `remote_id` of
blanks (`Blank`) is refused by the store: `Refuse` answers the hello with the error and goes
on, with the remote and the target that came with it and the manager's entry from before.

Abstractions: names, firmware, MACs and addresses of remotes (and the purge of their
devices, which `DevicePanel` has); the lock of the manager, which nothing awaits under; an
empty `target_mac` is the same as `unbind`; changing a flag is one step, so that the
refresh race stays in `DevicePanel`; the `known` of a record stands for its presence in the
list. `stale` is a history variable: another worker has saved since this one loaded.

### ConfigNames and ProfileRegistry

`Parsed` takes a file line by line, as `parse_wireguard_config` does; a line is a header, a
comment with the name `_clean_comment_name` leaves (or none), a key, addresses with the
first IPv4 among them (or none), or another field. `ReadRight` compares it with a reading
by sections: the peers are those with a key and an IPv4 address, each named by the last
comment that waits above its header, or else by the first one below it. What waits is part
of the reference as it is of the code: a comment below the fields of a peer names the
next one. Blank lines, fields without a value and the cleaning itself are left out.

`file` is the set of profiles, `readable` whether it can be read, `text` is `wg0.conf`, `live`
the peers `wg show` lists, `jobs` what every process has in hand. `Callers` are requests under
`state_lock`: a PATCH is `FindPeer` (the status), `ApplyMode`, `Load`, `Save`, `Refresh`; an import
is `ReadConfig`, `Load`, one `Import` per peer, and `Save` if anything changed. `Tools` are
runs of the command line tool: `RunTool`, `List` (its own first reading of `wg0.conf`), then the
same import, without the lock. Files are sorted by address when they are loaded, and
appended profiles come last: `Entry` keeps what that order decides, which profile
`sync_wireguard_client_names` takes for that of a peer.

Abstractions: addresses are numbers, names and keys model values; items that do not validate
are not in `file`; the file is replaced in one step (`os.replace`), so a crash of the service
loses a job and nothing else and is not an action; a failing step ends its job (`Raise`)
and what it does to routes is in `WireGuardRouting`. `stale` and `disturbed` are history
variables: what a job has read is no longer what is there.

### SafeUpdate

`app` is what `/opt/tv-vpn-panel-fastapi` is: a link or a directory and the release it leads
to, or nothing; `running` the release the service runs; `disk` how far the release of every
updater is built; `lock` the holder of the lock file; `smoke` the owner of the smoke-test
server; `up` where each updater is, with `SWITCH_COMPLETED`, `OLD_PATH_WAS_SYMLINK`, the
old target and whether `BUILD_DIR` is set.

The labels follow `main`, `prepare_release`, `activate_release` and `switch_release`. Bash runs
a trap after the command in progress, so `Fail` (a failing command, INT or TERM) may come
between any two steps, the rename and the assignment after it included: these are two
actions (`Relink`, `MarkLinked` and `MoveAside`, `MarkMoved`). `Restore`, `MoveBack`,
`RestartAgain`, `Clean` are `on_error`; it resets the traps, so a second signal is a `Kill`, as
are HUP and KILL at any time. A smoke-test server inherits descriptor 9, so it keeps the lock
when its updater is killed (`Released`); after that every update is refused until somebody
stops the server.

Abstractions: `git`, `pip` and `pytest` are one step each that works or fails; the backup of the
state, and the verification of routes, tables and sets, pass or fail as a whole; other
children of a killed updater end with it; the commands of the roll back do not fail; the host
does not reboot during an update.

## 3. Runs

Every run is a small instance; the constants that bound it are the sets of processes,
clients, keys and addresses, and `Budget` (`Budgets`, or `left` of a `Start`), which counts
requests, messages, changes of the environment, crashes, signals and faults. No run of
`DevicePanel` spends a fault (a rule command that fails): the properties about rules take it
that commands work, and the proofs of the others do not (section 4).

| Run | Asks | Bounds |
|---|---|---|
| `devices` | operations one at a time, atomic, the VPN flag only changed on request; every waiter served; the panel recovers | two requests (toggle, delete, set, update) on two devices, one lease change, one crash, one failed write; addresses of their own |
| `shared` | every rule has an owner, and one whose VPN is on; a full pass leaves what the file asks for | two requests, two lease changes that hand addresses over, one crash, one failed write |
| `races` | consistency under unlocked remote operations and refreshes, rules match after a start | three requests, one of them may move a device to an address that is no number, one crash |
| `wg_modes` | rules follow profiles, a table at rest is open only if its route was dropped or a script run cut short | two PATCHes, any saved mode of one client, all backends up at boot or none; one change of a backend, one device that goes down, one failed probe or save, one crash or reboot |
| `wg_faults` | the script never opens the backup table, saves are verified, jobs end, the panel recovers | one PATCH and every fault once, a protected client, a client saved on the backup |
| `remotes` | bindings change on request, clients see their own device, the manager lists who is there | two sockets and an HTTP caller on one remote and two MACs; one or two messages, up to one request, up to one peer that leaves, operation that raises or crash |
| `sessions` | every task is served, dead clients are forgotten, screens catch up | one socket that must authenticate, an HTTP caller and the periodic task; two messages of six kinds, one request, one failure |
| `profiles` | unique profiles, names as written, others' profiles, names and modes kept, answers right, jobs end | two requests; one request, one run of the tool and one failure; a run, a change of `wg0.conf` or of the peers and a failure; two requests and a run. Every text of up to four lines, of eight kinds, before the fields of a peer |
| `update` | only the lock holder switches, production is complete, a marked switch is undone or completed | two updaters, one each of a failing command, a signal, a killed updater, a crash of the service |

Two requests in flight are enough for every pairwise race, because the processes share only
files, rules and the lock, and each step touches one of them; a third request makes the
state the first two leave behind observable. Two MACs and three addresses allow a swap and a
move at once. Two sockets on one remote are the least for a broadcast of one to meet the
registration of the other, and a binding is lost to two workers as to more; the session
in `sessions` competes with an HTTP request and the periodic task, the three kinds of
waiter the lock has. Two keys and two addresses give the profiles of two peers that
exchange their addresses or take one over; four lines before the fields of a peer
hold a section, another peer and comments on either side of both. Two clients let one PATCH disturb the tables of the other. Two updaters cover
an update beside an update, and one after another that was killed.

Runs that find a disagreement between the code and its documentation:

| Run | What TLC finds |
|---|---|
| `refresh_race` | a refresh on the loop turns a VPN on again that a worker has just turned off |
| `bad_address` | a known device with its VPN on is moved to an address whose last part is no number; after a crash every startup hook raises on its rule, and the panel never serves again |
| `device_down` | the phone has openvpn; tun0 goes down, the kernel drops the default of table 201, and no kill switch is beside it |

Without their trigger the properties hold in passing runs: `VpnOnlyOnRequest` and
`PanelRecovers` in `devices`; `OpenOnlyAfterFailure`, in `wg_modes`, is `NoFallThroughAtRest`
with its two triggers named: a route that the kernel dropped, which `device_down` shows, and
a script run that was refused or cut short (below).

More weaknesses are visible in the models and are not the subject of a run. The
properties are stated so that they name the case instead of hiding it:

- devices: swapped leases hand the VPN flag of one device to another
  (`VpnOnlyOnRequest` is checked where every MAC keeps its own addresses);
  `POST /api/devices` with a new address leaves the rule of the old one (`NoStrayRule` is
  checked without it); a device whose VPN is on and that gets another lease has no rule
  until the next full apply (`UpdateKnown` removes the old rule and adds none); a set that
  cannot be saved leaves the rule it added, for a device whose flag is off, until the
  service starts again (`NoStrayRule` excepts `unsaved`);
- routing: clients of tables 201 and 202 take the general route between `FlushTable` and
  `DefaultRoute` (`OpenOnlyAfterFailure` is about the moments between jobs); clients of all
  three take it when the kernel has dropped the default route of their table, at rest or
  between the verification of a mode and its save (`BackupNeverFallsThrough`,
  `OpenOnlyAfterFailure` and `SavedOnlyWhenRouted` name the case); a script that is aborted
  after it flushed a table, by a missing internal interface (270-289), leaves the table empty
  for all its clients, also when the PATCH changes no mode and nothing is rolled back; once a
  check has failed, the kill switch is in the place of the route that `backup_is_healthy`
  wants (178-180), so that a backup tunnel that answers again is refused until its own service
  brings the route back; a rule applied just
  before a crash survives it for a profile in auto mode, which the replay skips
  (`PinnedFollowProfiles` is about the other profiles);
- remotes: a ping that loaded `remotes.json` before a bind was saved and saves after it
  takes the binding back, against `store.py:288` ("If target_mac is omitted, an existing
  binding is preserved": `BindingLostOnlyToOverlap` excepts saves that overlap); a
  client whose endpoint died before its loop stays listed until the next broadcast; a
  session whose hello was refused for its `remote_id` has another target than its entry, and
  is shown the device it had before (`ShownOwnDevice` excepts it); a command goes to the
  device its remote was bound to when the message came, also if it is bound elsewhere while
  the command waits for the lock;
- profiles: a comment below the fields of a peer names the next, whatever it is about;
  an ordinary import drops a profile named by hand when a peer of `wg0.conf` has its key and
  the address of an unnamed profile that comes first, against `src/README.md:862` ("Ручное
  имя не перезаписывается обычной синхронизацией.": the exception of `NamesKept`); a PATCH of
  the name, or an import, saves a mode under a new address without applying it; a profile
  saved by the panel while the tool runs, and every profile of an unreadable file, is
  lost to the next save (`OthersLostOnlyToTool` excepts both);
- updater: a signal between the rename and `SWITCH_COMPLETED=1` leaves the failed release
  linked, or no path at all (`SwitchUndone` starts at the mark).

All runs turn deadlock checking off: when its budget is used up and nothing is in flight
the system is at rest. Symmetry is used over `Procs` and
`Sockets` only, and never with liveness.

### Fairness

`DevicePanel`: worker threads run, the loop resumes what is ready, the lock wakes its first
waiter (`asyncio.Lock` is FIFO), and systemd restarts the service (`Restart=always`;
the 3 s of `RestartSec` keep it under the default start limit).
`WireGuardRouting`: the script proceeds or `safe_run` kills it, the coroutine goes on with
the result, and systemd restarts. `RemoteSessions`: threads, the loop and the lock as in
`DevicePanel`; a receive notices that its peer left, or that no hello came within 5 s; the
periodic task wakes up again (`enable_periodic_sync` is on by default, every 10 s), without
which `ScreensCatchUp` does not hold. `ProfileRegistry`: threads, the loop, the lock, and a
started run of the tool goes on. `SafeUpdate`: every updater that was started goes on, and
systemd starts the service when the path leads somewhere. Nothing is assumed of requests,
leases, backends, crashes, signals, or of anybody starting an update.

## 4. Theorems

`DevicePanelProofs` proves, for all constants that satisfy `ConstantsAssumption`, rule
commands that fail, addresses without a priority and writes that raise included:

- `TypeCorrect`, `ListsStayConsistent` and `LockHolds` (proved for every run, so no run
  checks it), from the inductive
  invariant `Inv` (theorem `Invariant`). Unique MACs are not inductive: that `AdoptByIp` may
  write a MAC into a record needs that no other record has it, which is what `byMac` says;
  so the invariant carries the exactness of both indexes through every step of a merge
  (`IndexOK`), for the list of each process, locked or not;
- `DeviceOperationsExclusive`: if only device requests come in, at most one operation is at
  work, the unlocked sync included. Its invariant says that whoever works holds the lock
  and that `Main` works only while no lock holder has been dispatched.

`DeviceAtomicityProofs` proves, when only device requests come in (`DevicesOnly`) and every
address in a lease, in the first file or in an added device belongs to one MAC
(`AddressesOwned`), for any number of requests, lease changes, crashes and failed commands:

- `DevicesAreAtomic` (the refinement `AtomicOperations`) and `FlagsOnRequest`
  (`VpnOnlyOnRequest`), from `AtomInv`: one operation is at work, and the list it holds is the
  file of this moment with what the operation has done so far (`InHand`): nothing yet, a merge
  that only moved and added records (`Grown`), one flag changed (`Switched`), or the records
  of one MAC gone. A save is then one action of the register. Both conditions are needed:
  `refresh_race` is what happens without the first, swapped leases without the second.

`DeviceRulesProofs` proves, when every rule command works (`NoFaults`), addresses that are
shared and handed over and any number of crashes included:

- `RulesAreOwned`, if only device requests come in and none adds a device (an added device
  that moves leaves its rule). `OwnInv` says that the list in hand has the addresses of all
  rules before it becomes the file, and while rules are added none that the file lacks;
- `NoRuleStrays`, under the same conditions. A set that dies between its rule and its save
  leaves a rule no saved flag asks for (`Flipping`), so what holds at rest is not kept by a
  crash; it is back when the startup hook ends, because its pass decides on every address the
  file has (`StartInv`) and `RulesAreOwned` leaves no other (`StrayInv`). A set whose save
  raises leaves such a rule too, with nothing in flight: the invariant is about the other
  rules (`Settled`), and `RaiseOn` is the step that hands one over to `unsaved`;
- `StartsMatch`, for any requests, those without the lock included, since none is accepted
  until the hook ends; and `PassesMatch`, for device requests. After the first `n` records
  of a pass the last one of each address has decided on its rule (`Passed`).

`WireGuardRoutingProofs` proves, under `RoutingAssumption`:

- `RoutingTypeCorrect`, `BackupStaysClosed` and `SavesWhatIsRouted`, from `RoutingInv`.
  `BackupFilled` is the strengthening for the kill switch: past `KillSwitch` the table has a
  default route or one the kernel dropped, so whenever a rule comes to point to it, it does.
  `SaveVerified` is the one for the save: between `Verify` and `Save` only the kernel takes the
  verified route away, and it leaves `"lost"` in its place;
- `ProfilesRuleTheRoutes` and `TablesFilledAtRest`, through probes and saves that fail,
  scripts that hang or are aborted, devices that go down, crashes and reboots. `RestInv`
  follows every client through the job: a client without a job has the rule of its profile
  unless its own last run failed (`RulesFollow`), the one with a job knows the mode to go back
  to (`JobsKnow`), the replay has done the clients it is past, and a run that was not cut
  short leaves all three tables filled (`TablesFilled`): with their backend or their kill
  switch, until a device goes down.

`RemoteSessionsProofs` proves, under `SessionsAssumption`, for any number of sockets, callers
and remotes:

- `SessionTypeCorrect`, `OpenSessionsStayListed`, `BindingsSurvive` and `OwnDeviceShown`,
  from `SessionInv`. `LockOK` says that whoever
  waits is in the queue once; `LocalsOK` what each label implies of the locals, above all
  that a worker that is not stale holds a copy of the registry as it is, which is why its save
  changes only its own remote; `EntriesOK` that while a session waits for messages its entry
  in the manager has its target, unless its `remote_id` was refused (`Refuse`), which is why a
  broadcast about another device skips it.

`ConfigNamesProofs` proves, for every text, however long, and any keys, names and addresses
(`NamesAssumption`):

- `ParsedPeers`: what the parser returns is a sequence of peers with a key and an address;
- `ParsedRight`: it is the one the sections of the text describe (`ReadRight`, which the
  `profiles` run checks on short texts). `After` is a recursive function of the line, so its
  values are characterised first (`AfterSteps`): a function that follows the lines exists
  (`RecursionExists`), hence the one that is chosen does. The induction over the lines is
  over a set of numbers (`AllUpTo`, from the least element of a set of naturals), which needs
  no theorem with an operator for a parameter. Its invariant is `RightAt`: the
  state after line `n` of section `h` is whether the section is a peer, whether it has had a
  field, its last key and address so far, its own name so far, the comment that waits, and
  the peers of the sections before `h`. A header makes of that the peer `h` describes
  (`FlushRight`, `HeaderRight`); any other line adds to it what the reading by sections gets from
  one place more (`ReadRest`, `RestRight`).

`ProfileRegistryProofs` proves, under `RegistryAssumption` and `NamesAssumption`:

- `ProfilesStayUnique`, `OthersAreKept` and `PatchesAnswerRight`, from `RegistryInv` and `AnswerInv`: the file
  and every list in hand are unique; under the lock one caller works; a list that is not
  stale differs from the file only in what its job is about; and a PATCH that was not
  disturbed carries, from its first look to its answer, the peer and profile it saw. These
  hold whatever the parser makes of a text;
- `RegistryTypes`, from `TypeInv`, which adds to the types what the label of a job says of its
  request and its next peer: that `Import` never asks for a peer beyond the last, and that a
  PATCH that saves has found a peer, are not visible in the types alone;
- `ImportKeepsNames` and `ImportKeepsModes`, from `KeptInv`: after each peer of an import that
  nothing overlapped, an entry of the list is from the file or one of the peers done; a profile
  of the file that is not in the list any more is alike one of them, and, if it had a name
  and names are kept, was outdone by a profile without one that comes first (`Outdone`); and
  where a key has its address in both, it has its mode in both, if the named peers are apart;
- `NamesReadRight`: every text `wg0.conf` can hold is read as written (`TypeInv` and
  `ParsedRight`).

`SafeUpdateProofs` proves, under `UpdateAssumption`, for any number of updaters and faults:

- `UpdateTypeCorrect`, `LockAlwaysProtects`, `ProductionComplete`, `HolderSwitches` and
  `MarkedSwitchUndone`, from `UpdateInv`. What an updater remembers (what it built, what the
  path was, what it switched) is only true of the shared path because whoever has something
  to undo holds the lock (`Held`); with it, `Built` says that an unfinished build is one
  nothing leads to, `Known` that the release to go back to is complete, and `Undoing` where
  the path is at each step of the roll back.

Every invariant and every action property that the passing runs check is proved. Only
model-checked is liveness, for which fairness and ENABLED are out of the prover's reach:
`RequestsServed` and `PanelRecovers`, the two `JobsEnd`, `RoutingRecovers`, `SwitchSettles`,
`EveryTaskServed`, `ClosedForgotten` and `ScreensCatchUp`; and the three disagreements above,
which are counterexamples.

## 5. Not modelled, and the plan

Written in this order: the device store with its lock and threads, since every other
part waits for it or races with it; the routing modes; the updater; the remotes and their
sessions; the profiles. What would come next: the profiles composed with the routing modes, to
state which rule a peer has after it moved to another address.

Left out for good: the display of the status, the probes and the pages, which parse and
format the output of commands; the comparison of tokens; the settings, read once; the
installers, straight-line scripts run by hand; and the migration of old files, which runs once
before anything else does.
