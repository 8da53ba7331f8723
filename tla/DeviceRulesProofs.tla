------------------------- MODULE DeviceRulesProofs -------------------------
(***************************************************************************)
(* Where the ip rules and devices.json agree when every rule command       *)
(* succeeds: an address with a rule is that of a saved record at every     *)
(* instant, and of one whose VPN is on when nothing is in flight, unless   *)
(* the save after the rule failed, the crashes between a rule and its save *)
(* included; a pass of apply_all_rules and the startup hook leave the      *)
(* rules the file asks for.                                                *)
(* add_device moves a record and leaves its rule, and a command that fails *)
(* is never looked at: hence the assumptions of each theorem.              *)
(***************************************************************************)
EXTENDS DevicePanelProofs

QuietRequests == \A r \in Requests : r.kind \in DeviceKinds \ {"add"}
NoFaults      == Budget.faults = 0

\* The same with add_device.
DeviceKindsOnly == \A r \in Requests : r.kind \in DeviceKinds

Addresses(ds) == {ds[i].ip : i \in DOMAIN ds}

\* A list in hand, compared with the rules rs and the file f: it has an address
\* for every rule, and while rules may be added it has none the file lacks.
HandOwns(rs, f, l) ==
  /\ l.req.kind \in DeviceKinds \ {"add"}
  /\ l.pc \notin {"add", "readRemotes", "writeRemotes"}
  /\ l.pc \notin {"idle", "wait", "load", "done", "failed"} => rs \subseteq Addresses(l.devs)
  /\ l.pc \in {"find", "unrule", "rule"} => Addresses(l.devs) \subseteq Addresses(f)

\* The strengthening: one at work, no command left to fail, and the list in hand
\* has the addresses of the rules before it becomes the file.
OwnInv ==
  /\ OneInv
  /\ left.faults = 0
  /\ rules \subseteq Addresses(file)
  /\ \A p \in Everyone : HandOwns(rules, file, proc[p])

-----------------------------------------------------------------------------
\* Lists of records.

\* A record that is dropped takes no address but its own.
LEMMA DropKeepsAddresses ==
  ASSUME NEW ds \in Seq(Device), DistinctMacs(ds), NEW k \in DOMAIN ds
  PROVE  Addresses(ds) \ {ds[k].ip} \subseteq Addresses(RemoveAt(ds, k))
<1> DEFINE d == RemoveAt(ds, k)
<1>1. /\ d \in Seq(Device) /\ Len(d) = Len(ds) - 1
      /\ \A i \in 1 .. Len(ds) - 1 : d[i] = ds[IF i < k THEN i ELSE i + 1]
  BY RemoveDistinct
<1>2. Len(ds) \in Nat /\ DOMAIN ds = 1 .. Len(ds) /\ k \in 1 .. Len(ds)
  OBVIOUS
<1> HIDE DEF d
<1>3. DOMAIN d = 1 .. Len(ds) - 1
  BY <1>1
<1>4. ASSUME NEW j \in DOMAIN ds, j # k
      PROVE  ds[j].ip \in Addresses(d)
  <2> DEFINE i == IF j < k THEN j ELSE j - 1
  <2>1. i \in 1 .. Len(ds) - 1 /\ (IF i < k THEN i ELSE i + 1) = j
    BY <1>2, <1>4
  <2> HIDE DEF i
  <2>2. i \in DOMAIN d /\ d[i] = ds[j]
    BY <1>1, <1>3, <2>1
  <2> QED
    BY <2>2 DEF Addresses
<1>5. ASSUME NEW a \in Addresses(ds) \ {ds[k].ip}
      PROVE  a \in Addresses(d)
  <2>1. PICK j \in DOMAIN ds : a = ds[j].ip
    BY DEF Addresses
  <2>2. j # k
    BY <1>5, <2>1
  <2> QED
    BY <1>4, <2>1, <2>2
<1> QED
  BY <1>5 DEF d

\* A record that is replaced takes no address but its own.
LEMMA ReplaceKeepsAddresses ==
  ASSUME NEW ds \in Seq(Device), NEW k \in DOMAIN ds, NEW d \in Device
  PROVE  /\ Addresses(ds) \ {ds[k].ip} \subseteq Addresses([ds EXCEPT ![k] = d])
         /\ d.ip = ds[k].ip => Addresses([ds EXCEPT ![k] = d]) = Addresses(ds)
<1> DEFINE es == [ds EXCEPT ![k] = d]
<1>1. /\ DOMAIN es = DOMAIN ds /\ es[k] = d
      /\ \A j \in DOMAIN ds \ {k} : es[j] = ds[j]
  BY ReplaceRecord
<1> HIDE DEF es
<1>2. ASSUME NEW a \in Addresses(ds), a # ds[k].ip
      PROVE  a \in Addresses(es)
  <2>1. PICK j \in DOMAIN ds : a = ds[j].ip
    BY DEF Addresses
  <2>2. j \in DOMAIN es /\ es[j].ip = a
    BY <1>1, <1>2, <2>1
  <2> QED
    BY <2>2 DEF Addresses
<1>3. ASSUME d.ip = ds[k].ip
      PROVE  Addresses(es) = Addresses(ds)
  <2>1. \A j \in DOMAIN ds : es[j].ip = ds[j].ip
    BY <1>1, <1>3
  <2> QED
    BY <1>1, <2>1 DEF Addresses
<1> QED
  BY <1>2, <1>3 DEF es

\* A record at the end takes no address away.
LEMMA AppendKeepsAddresses ==
  ASSUME NEW ds \in Seq(Device), NEW d \in Device
  PROVE  Addresses(ds) \subseteq Addresses(Append(ds, d))
<1>1. /\ DOMAIN ds = 1 .. Len(ds) /\ Len(ds) \in Nat
      /\ DOMAIN Append(ds, d) = 1 .. Len(ds) + 1
      /\ \A j \in 1 .. Len(ds) : Append(ds, d)[j] = ds[j]
  BY AppendProperties
<1>2. ASSUME NEW a \in Addresses(ds)
      PROVE  a \in Addresses(Append(ds, d))
  <2>1. PICK j \in DOMAIN ds : a = ds[j].ip
    BY DEF Addresses
  <2>2. j \in DOMAIN Append(ds, d) /\ Append(ds, d)[j].ip = a
    BY <1>1, <2>1
  <2> QED
    BY <2>2 DEF Addresses
<1> QED
  BY <1>2

-----------------------------------------------------------------------------
\* The steps of the work of a process.

\* What the proofs of the steps start from.
LEMMA OwnFacts ==
  ASSUME OwnInv, NEW p \in Everyone
  PROVE  /\ Inv /\ file \in Seq(Device) /\ left \in Bounds /\ left.faults = 0
         /\ rules \subseteq Addresses(file) /\ HandOwns(rules, file, proc[p])
         /\ proc \in [Everyone -> Local] /\ proc[p] \in Local
         /\ DistinctMacs(proc[p].devs) /\ proc[p].devs \in Seq(Device)
  BY LocalFacts DEF OwnInv, OneInv, Inv, TypeOK, LocalInv

\* With no fault left, an ip rule command does what it is told.
LEMMA CommandWorks ==
  ASSUME OwnInv, NEW R, RuleCommand(R)
  PROVE  rules' = R /\ left' = left
  BY DEF OwnInv, RuleCommand

\* What a step of p must keep.
Kept(p) ==
  /\ rules' \subseteq Addresses(file') /\ left'.faults = 0
  /\ HandOwns(rules', file', proc'[p])

\* A step that gives p a list l.
LEMMA KeptBy ==
  ASSUME OwnInv, NEW p \in Everyone, NEW l, Becomes(p, l), left'.faults = 0,
         rules' \subseteq Addresses(file'), HandOwns(rules', file', l)
  PROVE  Kept(p)
  BY OwnFacts DEF Becomes, Kept

\* The steps that change no address, no rule and no file.
LEMMA PlainKept ==
  ASSUME OwnInv, NEW p \in Everyone,
         Load(p) \/ ReadInputs(p) \/ BuildIndexes(p) \/ PurgeEnd(p)
  PROVE  Kept(p)
<1>0. UNCHANGED <<file, rules, left>>
  BY DEF Load, ReadInputs, BuildIndexes, PurgeEnd, store
<1>1. CASE Load(p)
  <2> DEFINE n == CASE proc[p].req.kind \in SyncKinds -> "read"
                    [] proc[p].req.kind = "add" -> "add"
                    [] OTHER -> "purge"
             l == [proc[p] EXCEPT !.devs = file, !.pc = n]
  <2>1. n \in {"read", "purge"}
    BY OwnFacts DEF HandOwns
  <2>2. Becomes(p, l)
    BY <1>1 DEF Load
  <2> HIDE DEF n
  <2>3. l.req = proc[p].req /\ l.pc = n /\ l.devs = file
    BY OwnFacts DEF Local
  <2> HIDE DEF l
  <2>4. HandOwns(rules, file, l)
    BY <2>1, <2>3, OwnFacts DEF HandOwns
  <2> QED
    BY <1>0, <2>2, <2>4, OwnFacts, KeptBy
<1>2. ASSUME NEW l, Becomes(p, l), l.req = proc[p].req, l.devs = proc[p].devs,
             l.pc \in {"filter", "lease", "save", "done"}, 
             l.pc # "done" => proc[p].pc \in {"read", "filter", "purge"}
      PROVE  Kept(p)
  <2>1. HandOwns(rules, file, l)
    BY <1>2, OwnFacts DEF HandOwns
  <2> QED
    BY <1>0, <1>2, <2>1, OwnFacts, KeptBy
<1>3. CASE ReadInputs(p)
  <2> DEFINE l == [proc[p] EXCEPT !.todo = leases, !.seen = remotes, !.pc = "filter"]
  <2>1. Becomes(p, l) /\ proc[p].pc = "read"
    BY <1>3 DEF ReadInputs, At
  <2>2. l.req = proc[p].req /\ l.devs = proc[p].devs /\ l.pc = "filter"
    BY OwnFacts DEF Local
  <2> HIDE DEF l
  <2> QED
    BY <1>2, <2>1, <2>2
<1>4. CASE BuildIndexes(p)
  <2> DEFINE l == [proc[p] EXCEPT !.byMac = MacIndex(proc[p].devs),
                                  !.byIp = IpIndex(proc[p].devs), !.pc = "lease"]
  <2>1. Becomes(p, l) /\ proc[p].pc = "filter"
    BY <1>4 DEF BuildIndexes, At
  <2>2. l.req = proc[p].req /\ l.devs = proc[p].devs /\ l.pc = "lease"
    BY OwnFacts DEF Local
  <2> HIDE DEF l
  <2> QED
    BY <1>2, <2>1, <2>2
<1>5. CASE PurgeEnd(p)
  <2> DEFINE n == IF proc[p].at = 1 THEN "save" ELSE "done"
             l == [proc[p] EXCEPT !.at = 0, !.pc = n]
  <2>1. Becomes(p, l) /\ proc[p].pc = "purge" /\ n \in {"save", "done"}
    BY <1>5 DEF PurgeEnd, At
  <2> HIDE DEF n
  <2>2. l.req = proc[p].req /\ l.devs = proc[p].devs /\ l.pc = n
    BY OwnFacts DEF Local
  <2> HIDE DEF l
  <2> QED
    BY <1>2, <2>1, <2>2
<1> QED
  BY <1>1, <1>3, <1>4, <1>5

\* A record goes after its rule.
LEMMA DropKept ==
  ASSUME OwnInv, NEW p \in Everyone, DropRemote(p) \/ PurgeOne(p)
  PROVE  Kept(p)
<1> DEFINE ds == proc[p].devs
<1>1. PICK i \in DOMAIN ds : 
        /\ RuleCommand(rules \ {ds[i].ip})
        /\ \/ At(p, "filter") /\ Becomes(p, [proc[p] EXCEPT !.devs = RemoveAt(@, i)])
           \/ At(p, "purge") /\ Becomes(p, [proc[p] EXCEPT !.devs = RemoveAt(@, i), !.at = 1])
  <2>1. CASE DropRemote(p)
    BY <2>1 DEF DropRemote
  <2>2. CASE PurgeOne(p)
    <3> DEFINE i == FindDevice(ds, Purged(p))
    <3>1. ds \in Seq(Device) /\ i \in 0 .. Len(ds) /\ i # 0
      BY <2>2, OwnFacts, FindDeviceFinds DEF PurgeOne
    <3>2. i \in DOMAIN ds
      <4> HIDE DEF i, ds
      <4> QED
        BY <3>1
    <3> QED
      BY <2>2, <3>2 DEF PurgeOne
  <2> QED
    BY <2>1, <2>2
<1> DEFINE es == RemoveAt(ds, i)
<1>2. file' = file
  BY DEF DropRemote, PurgeOne, store
<1>3. rules' = rules \ {ds[i].ip} /\ left' = left
  BY <1>1, CommandWorks
<1>4. Addresses(ds) \ {ds[i].ip} \subseteq Addresses(es)
  BY OwnFacts, DropKeepsAddresses
<1>5. ASSUME NEW l, Becomes(p, l), l.req = proc[p].req, l.devs = es,
             l.pc = proc[p].pc, l.pc \in {"filter", "purge"}
      PROVE  Kept(p)
  <2> HIDE DEF es, ds
  <2>1. rules \subseteq Addresses(ds)
    BY <1>5, OwnFacts DEF HandOwns, ds
  <2>2. HandOwns(rules', file', l)
    BY <1>2, <1>3, <1>4, <1>5, <2>1, OwnFacts DEF HandOwns
  <2> QED
    BY <1>2, <1>3, <1>5, <2>2, OwnFacts, KeptBy
<1>6. CASE At(p, "filter") /\ Becomes(p, [proc[p] EXCEPT !.devs = RemoveAt(@, i)])
  <2> DEFINE l == [proc[p] EXCEPT !.devs = es]
  <2>1. l.req = proc[p].req /\ l.devs = es /\ l.pc = proc[p].pc /\ Becomes(p, l)
    BY <1>6, OwnFacts DEF Local
  <2> HIDE DEF l
  <2> QED
    BY <1>5, <1>6, <2>1 DEF At
<1>7. CASE At(p, "purge") /\ Becomes(p, [proc[p] EXCEPT !.devs = RemoveAt(@, i), !.at = 1])
  <2> DEFINE l == [proc[p] EXCEPT !.devs = es, !.at = 1]
  <2>1. l.req = proc[p].req /\ l.devs = es /\ l.pc = proc[p].pc /\ Becomes(p, l)
    BY <1>7, OwnFacts DEF Local
  <2> HIDE DEF l
  <2> QED
    BY <1>5, <1>7, <2>1 DEF At
<1> QED
  BY <1>1, <1>6, <1>7

\* A merged lease moves a record after its old rule, hands it over with its
\* address, or adds one.
LEMMA MergeKept ==
  ASSUME OwnInv, NEW p \in Everyone, MergeLease(p)
  PROVE  Kept(p)
<1> DEFINE ds == proc[p].devs
<1>1. PICK r \in Lease : /\ NextLease(p, r) /\ UNCHANGED file
                         /\ SkipRemoteLease(p, r) \/ UpdateKnown(p, r)
                              \/ AdoptByIp(p, r) \/ AppendNew(p, r)
  BY DEF MergeLease, store
<1>2. /\ proc[p].pc = "lease" /\ rules \subseteq Addresses(ds) /\ ds \in Seq(Device)
      /\ IndexOK(ds, proc[p].byMac, proc[p].byIp) /\ r.mac \in Macs /\ r.ip \in Ips
      /\ Len(ds) \in Nat /\ DOMAIN ds = 1 .. Len(ds)
  BY <1>1, OwnFacts, LocalFacts DEF NextLease, At, HandOwns, LocalInv, Lease
<1>3. ASSUME NEW l, Becomes(p, l), l.req = proc[p].req, l.pc = proc[p].pc,
             rules' \subseteq rules, rules' \subseteq Addresses(l.devs), left' = left
      PROVE  Kept(p)
  <2>1. HandOwns(rules', file', l)
    BY <1>2, <1>3, OwnFacts DEF HandOwns
  <2> QED
    BY <1>1, <1>3, <2>1, OwnFacts, KeptBy
<1>4. CASE SkipRemoteLease(p, r)
  <2> DEFINE l == [proc[p] EXCEPT !.todo = Tail(@)]
  <2>1. Becomes(p, l) /\ UNCHANGED <<rules, left>>
    BY <1>4 DEF SkipRemoteLease
  <2>2. l.req = proc[p].req /\ l.pc = proc[p].pc /\ l.devs = ds
    BY OwnFacts DEF Local
  <2> HIDE DEF l
  <2> QED
    BY <1>2, <1>3, <2>1, <2>2
<1>5. CASE UpdateKnown(p, r)
  <2> DEFINE i == proc[p].byMac[r.mac]
             d == [mac |-> r.mac, ip |-> r.ip, vpn |-> ds[i].vpn]
             es == [ds EXCEPT ![i] = d]
             l == [proc[p] EXCEPT !.devs = es, !.todo = Tail(@)]
  <2>1. i \in DOMAIN ds
    <3>1. i # 0
      BY <1>5 DEF UpdateKnown
    <3>2. i \in 0 .. Len(ds)
      BY <1>2 DEF IndexOK
    <3> HIDE DEF i, ds
    <3> QED
      BY <1>2, <3>1, <3>2
  <2>2. ds[i] \in Device
    <3> HIDE DEF i, ds
    <3> QED
      BY <1>2, <2>1, RecordAt
  <2>3. d \in Device
    <3> HIDE DEF i, ds
    <3> QED
      BY <1>2, <2>2 DEF Device
  <2>4. es = [ds EXCEPT ![i].ip = r.ip, ![i].mac = r.mac]
    BY <1>2, <2>1, <2>2 DEF Device
  <2>5. Becomes(p, l)
    BY <1>5, <2>4 DEF UpdateKnown
  <2>6. l.req = proc[p].req /\ l.pc = proc[p].pc /\ l.devs = es
    BY OwnFacts DEF Local
  <2>7. /\ IF ds[i].ip # r.ip THEN rules' = rules \ {ds[i].ip} ELSE rules' = rules
        /\ left' = left
    <3>1. IF ds[i].ip # r.ip THEN RuleCommand(rules \ {ds[i].ip})
                             ELSE UNCHANGED <<rules, left>>
      BY <1>5 DEF UpdateKnown
    <3> HIDE DEF i, ds
    <3>2. CASE ds[i].ip # r.ip
      BY <3>1, <3>2, CommandWorks
    <3>3. CASE ds[i].ip = r.ip
      BY <3>1, <3>3
    <3> QED
      BY <3>2, <3>3
  <2>8. /\ Addresses(ds) \ {ds[i].ip} \subseteq Addresses(es)
        /\ r.ip = ds[i].ip => Addresses(es) = Addresses(ds)
    <3>1. d.ip = r.ip
      OBVIOUS
    <3> HIDE DEF i, ds, d
    <3> QED
      BY <1>2, <2>1, <2>3, <3>1, ReplaceKeepsAddresses
  <2> HIDE DEF l, es, ds, i, d
  <2> QED
    BY <1>2, <1>3, <2>5, <2>6, <2>7, <2>8
<1>6. CASE AdoptByIp(p, r)
  <2> DEFINE i == proc[p].byIp[r.ip]
             d == [mac |-> r.mac, ip |-> ds[i].ip, vpn |-> ds[i].vpn]
             es == [ds EXCEPT ![i] = d]
             l == [proc[p] EXCEPT !.devs = es, !.byMac = [@ EXCEPT ![r.mac] = i],
                                  !.todo = Tail(@)]
  <2>1. i \in DOMAIN ds
    BY <1>2, <1>6 DEF AdoptByIp, IndexOK
  <2>2. ds[i] \in Device
    <3> HIDE DEF i, ds
    <3> QED
      BY <1>2, <2>1, RecordAt
  <2>3. d \in Device /\ d.ip = ds[i].ip
    <3> HIDE DEF i, ds
    <3> QED
      BY <1>2, <2>2 DEF Device
  <2>4. es = [ds EXCEPT ![i].mac = r.mac]
    BY <1>2, <2>1, <2>2 DEF Device
  <2>5. Becomes(p, l) /\ UNCHANGED <<rules, left>>
    BY <1>6, <2>4 DEF AdoptByIp
  <2>6. l.req = proc[p].req /\ l.pc = proc[p].pc /\ l.devs = es
    BY OwnFacts DEF Local
  <2>7. Addresses(es) = Addresses(ds)
    <3> HIDE DEF i, ds, d
    <3> QED
      BY <1>2, <2>1, <2>3, ReplaceKeepsAddresses
  <2> HIDE DEF l, es, ds, i, d
  <2> QED
    BY <1>2, <1>3, <2>5, <2>6, <2>7
<1>7. CASE AppendNew(p, r)
  <2> DEFINE n == Len(ds) + 1
             d == [mac |-> r.mac, ip |-> r.ip, vpn |-> FALSE]
             es == Append(ds, d)
             l == [proc[p] EXCEPT !.devs = es, !.byMac = [@ EXCEPT ![r.mac] = n],
                                  !.byIp = [@ EXCEPT ![r.ip] = n], !.todo = Tail(@)]
  <2>1. Becomes(p, l) /\ UNCHANGED <<rules, left>>
    BY <1>7 DEF AppendNew
  <2>2. l.req = proc[p].req /\ l.pc = proc[p].pc /\ l.devs = es
    BY OwnFacts DEF Local
  <2>3. d \in Device
    BY <1>2 DEF Device
  <2>4. Addresses(ds) \subseteq Addresses(es)
    <3> HIDE DEF ds, d
    <3> QED
      BY <1>2, <2>3, AppendKeepsAddresses
  <2> HIDE DEF l, es, ds, d
  <2> QED
    BY <1>2, <1>3, <2>1, <2>2, <2>4
<1> QED
  BY <1>1, <1>4, <1>5, <1>6, <1>7

\* The list that becomes the file has the addresses of the rules.
LEMMA SaveKept ==
  ASSUME OwnInv, NEW p \in Everyone, SaveSync(p) \/ Save(p)
  PROVE  Kept(p)
<1>1. file' = proc[p].devs /\ UNCHANGED <<rules, left>>
  BY DEF SaveSync, Save
<1>2. proc[p].pc \in {"lease", "save"}
  BY DEF SaveSync, Save, At
<1>3. rules \subseteq Addresses(proc[p].devs)
  BY <1>2, OwnFacts DEF HandOwns
<1>4. ASSUME NEW l, Becomes(p, l), l.req = proc[p].req, l.devs = proc[p].devs,
             l.pc \in {"find", "unrule", "done"}
      PROVE  Kept(p)
  <2>1. HandOwns(rules', file', l)
    BY <1>1, <1>3, <1>4, OwnFacts DEF HandOwns
  <2> QED
    BY <1>1, <1>3, <1>4, <2>1, OwnFacts, KeptBy
<1>5. CASE SaveSync(p)
  <2> DEFINE a == IF proc[p].req.kind = "apply" THEN 1 ELSE 0
             n == CASE proc[p].req.kind \in {"set", "toggle", "update"} -> "find"
                    [] proc[p].req.kind = "apply" /\ proc[p].devs # <<>> -> "unrule"
                    [] OTHER -> "done"
             l == [proc[p] EXCEPT !.byMac = NoMacs, !.byIp = NoIps, !.seen = Empty,
                                  !.at = a, !.pc = n]
  <2>1. Becomes(p, l)
    BY <1>5 DEF SaveSync
  <2>2. n \in {"find", "unrule", "done"}
    OBVIOUS
  <2> HIDE DEF a, n
  <2>3. l.req = proc[p].req /\ l.devs = proc[p].devs /\ l.pc = n
    BY OwnFacts DEF Local
  <2> HIDE DEF l
  <2> QED
    BY <1>4, <2>1, <2>2, <2>3
<1>6. CASE Save(p)
  <2> DEFINE l == [proc[p] EXCEPT !.pc = "done"]
  <2>1. Becomes(p, l)
    BY <1>6 DEF Save
  <2>2. l.req = proc[p].req /\ l.devs = proc[p].devs /\ l.pc = "done"
    BY OwnFacts DEF Local
  <2> HIDE DEF l
  <2> QED
    BY <1>4, <2>1, <2>2
<1> QED
  BY <1>5, <1>6

\* A flag that is set changes no address.
LEMMA FindKept ==
  ASSUME OwnInv, NEW p \in Everyone, Find(p)
  PROVE  Kept(p)
<1> DEFINE ds == proc[p].devs
           i  == FindDevice(ds, proc[p].req.mac)
<1>1. proc[p].pc = "find" /\ UNCHANGED <<file, rules, left>>
  BY DEF Find, At, store
<1>2. /\ rules \subseteq Addresses(ds) /\ Addresses(ds) \subseteq Addresses(file)
      /\ ds \in Seq(Device) /\ i \in 0 .. Len(ds)
  BY <1>1, OwnFacts, FindDeviceFinds DEF HandOwns
<1>3. ASSUME NEW l, Becomes(p, l), l.req.kind \in DeviceKinds \ {"add"},
             \/ l.pc \in {"failed", "load"}
             \/ l.pc \in {"save", "unrule"} /\ Addresses(l.devs) = Addresses(ds)
      PROVE  Kept(p)
  <2> HIDE DEF ds
  <2>1. HandOwns(rules, file, l)
    BY <1>2, <1>3 DEF HandOwns
  <2> QED
    BY <1>1, <1>3, <2>1, OwnFacts, KeptBy
<1>4. proc[p].req.kind \in DeviceKinds \ {"add"}
  BY OwnFacts DEF HandOwns
<1>5. CASE \E o \in {"failed", "save"} : Becomes(p, [proc[p] EXCEPT !.pc = o])
  <2>1. PICK o \in {"failed", "save"} : Becomes(p, [proc[p] EXCEPT !.pc = o])
    BY <1>5
  <2> DEFINE l == [proc[p] EXCEPT !.pc = o]
  <2>2. l.req = proc[p].req /\ l.devs = ds /\ l.pc = o /\ Becomes(p, l)
    BY <2>1, OwnFacts DEF Local
  <2> HIDE DEF l, ds
  <2> QED
    BY <1>3, <1>4, <2>2
<1>6. CASE /\ i # 0
           /\ Becomes(p, [proc[p] EXCEPT !.devs = [@ EXCEPT ![i].vpn = proc[p].req.vpn],
                                         !.at = i, !.pc = "unrule"])
  <2> DEFINE d == [mac |-> ds[i].mac, ip |-> ds[i].ip, vpn |-> proc[p].req.vpn]
             es == [ds EXCEPT ![i] = d]
             l == [proc[p] EXCEPT !.devs = es, !.at = i, !.pc = "unrule"]
  <2>1. i \in DOMAIN ds /\ ds[i] \in Device
    <3> HIDE DEF i, ds
    <3> QED
      BY <1>2, <1>6, RecordAt
  <2>2. d \in Device /\ d.ip = ds[i].ip
    <3>1. proc[p].req.vpn \in BOOLEAN
      BY OwnFacts, LocalFacts DEF Request
    <3> HIDE DEF i, ds
    <3> QED
      BY <2>1, <3>1 DEF Device
  <2>3. es = [ds EXCEPT ![i].vpn = proc[p].req.vpn]
    BY <1>2, <2>1 DEF Device
  <2>4. Becomes(p, l)
    BY <1>6, <2>3
  <2>5. l.req = proc[p].req /\ l.devs = es /\ l.pc = "unrule"
    BY OwnFacts DEF Local
  <2>6. Addresses(es) = Addresses(ds)
    <3> HIDE DEF i, ds, d
    <3> QED
      BY <1>2, <2>1, <2>2, ReplaceKeepsAddresses
  <2> HIDE DEF l, es, ds, i, d
  <2> QED
    BY <1>3, <1>4, <2>4, <2>5, <2>6
<1>7. CASE Becomes(p, [proc[p] EXCEPT !.pc = "load",
                         !.req = [@ EXCEPT !.kind = "set", !.vpn = ~ ds[i].vpn]])
  <2> DEFINE q == [proc[p].req EXCEPT !.kind = "set", !.vpn = ~ ds[i].vpn]
             l == [proc[p] EXCEPT !.pc = "load", !.req = q]
  <2>1. q.kind = "set"
    BY OwnFacts, LocalFacts DEF Request
  <2>2. Becomes(p, l)
    BY <1>7
  <2> HIDE DEF q
  <2>3. l.req = q /\ l.pc = "load"
    BY OwnFacts DEF Local
  <2> HIDE DEF l
  <2> QED
    BY <1>3, <2>1, <2>2, <2>3 DEF DeviceKinds, SyncKinds
<1> QED
  BY <1>5, <1>6, <1>7 DEF Find

\* A rule that is added is that of a record in hand, and of one in the file.
LEMMA RuleKept ==
  ASSUME OwnInv, NEW p \in Everyone, DisableRule(p) \/ AddRule(p)
  PROVE  Kept(p)
<1> DEFINE ds == proc[p].devs
           a  == ds[proc[p].at].ip
<1>1. /\ proc[p].pc \in {"unrule", "rule"} /\ file' = file
      /\ RuleCommand(rules \ {a}) \/ RuleCommand(rules \cup {a})
      /\ \/ Becomes(p, [proc[p] EXCEPT !.pc = "rule"])
         \/ Becomes(p, AfterRule(p, proc[p].at))
  BY DEF DisableRule, AddRule, At, store
<1>2. /\ rules \subseteq Addresses(ds) /\ Addresses(ds) \subseteq Addresses(file)
      /\ a \in Addresses(ds)
  BY <1>1, OwnFacts, LocalFacts DEF HandOwns, LocalInv, Addresses
<1>3. rules' \subseteq Addresses(ds) /\ left' = left
  <2> HIDE DEF a, ds
  <2>1. CASE RuleCommand(rules \ {a})
    BY <1>2, <2>1, CommandWorks
  <2>2. CASE RuleCommand(rules \cup {a})
    BY <1>2, <2>2, CommandWorks
  <2> QED
    BY <1>1, <2>1, <2>2
<1>4. ASSUME NEW l, Becomes(p, l), l.req = proc[p].req, l.devs = ds,
             l.pc \in {"unrule", "rule", "save", "done"}
      PROVE  Kept(p)
  <2> HIDE DEF ds
  <2>1. HandOwns(rules', file', l)
    BY <1>1, <1>2, <1>3, <1>4, OwnFacts DEF HandOwns
  <2> QED
    BY <1>1, <1>2, <1>3, <1>4, <2>1, OwnFacts, KeptBy
<1>5. ASSUME NEW n \in {"unrule", "rule", "save", "done"}, NEW b,
             Becomes(p, [proc[p] EXCEPT !.pc = n, !.at = b])
      PROVE  Kept(p)
  <2> DEFINE l == [proc[p] EXCEPT !.pc = n, !.at = b]
  <2>1. l.req = proc[p].req /\ l.devs = ds /\ l.pc = n
    BY OwnFacts DEF Local
  <2> HIDE DEF l
  <2> QED
    BY <1>4, <1>5, <2>1 DEF l
<1>6. CASE Becomes(p, [proc[p] EXCEPT !.pc = "rule"])
  <2> DEFINE l == [proc[p] EXCEPT !.pc = "rule"]
  <2>1. l.req = proc[p].req /\ l.devs = ds /\ l.pc = "rule"
    BY OwnFacts DEF Local
  <2> HIDE DEF l
  <2> QED
    BY <1>4, <1>6, <2>1 DEF l
<1>7. CASE Becomes(p, AfterRule(p, proc[p].at))
  BY <1>5, <1>7 DEF AfterRule
<1> QED
  BY <1>1, <1>6, <1>7

\* An operation that raises leaves the rules and the file as they are.
LEMMA RaiseKept ==
  ASSUME OwnInv, NEW p \in Everyone, NoPriority(p) \/ SaveFails(p)
  PROVE  Kept(p)
<1>1. /\ UNCHANGED <<file, rules>> /\ left'.faults = 0
      /\ proc'[p].pc = "failed" /\ proc'[p].req = proc[p].req
  BY OwnFacts, RaiseFacts
<1>2. HandOwns(rules, file, proc'[p])
  BY <1>1, OwnFacts DEF HandOwns
<1> QED
  BY <1>1, <1>2, OwnFacts DEF Kept

\* Every step of the work of a process.
LEMMA WorkKept ==
  ASSUME OwnInv, NEW p \in Everyone, Work(p)
  PROVE  Kept(p)
<1>1. ~ (AddDevice(p) \/ ReadRemotes(p) \/ WriteRemotes(p) \/ UnknownRemote(p))
  BY OwnFacts DEF AddDevice, ReadRemotes, WriteRemotes, UnknownRemote, HandOwns, At
<1> QED
  BY <1>1, PlainKept, DropKept, MergeKept, SaveKept, FindKept, RuleKept, RaiseKept
     DEF Work

-----------------------------------------------------------------------------
\* The steps of the loop and of the environment, and the theorem.

\* A process that has no list in hand is in order whatever the rules are.
LEMMA RestingOwns ==
  ASSUME NEW rs, NEW f, NEW l, l.req.kind \in DeviceKinds \ {"add"},
         l.pc \in {"idle", "wait", "load", "done", "failed"}
  PROVE  HandOwns(rs, f, l)
  BY DEF HandOwns

\* The local states the loop gives out.
LEMMA OwnStarts ==
  ASSUME NEW rs, NEW f
  PROVE  /\ HandOwns(rs, f, Idle) /\ HandOwns(rs, f, Started("sync"))
         /\ HandOwns(rs, f, Started("apply"))
<1>1. /\ Idle.pc = "idle" /\ Idle.req.kind = "list"
      /\ \A k : Started(k).pc = "load" /\ Started(k).req.kind = k
  BY DEF Idle, Started, Own
<1> QED
  BY <1>1, RestingOwns DEF DeviceKinds, SyncKinds

\* It holds at first.
LEMMA OwnInit == ASSUME NoFaults, Init PROVE OwnInv
<1>1. /\ left.faults = 0 /\ rules \subseteq Addresses(file)
      /\ \A p \in Everyone : proc[p] = Idle
  BY DEF Init, NoFaults
<1> QED
  BY <1>1, OneInvInit, OwnStarts DEF OwnInv

\* Whoever moves without work takes a state without a list; rules only go.
LEMMA LoopKept ==
  ASSUME QuietRequests, OwnInv, [Next]_vars, ~ \E p \in Everyone : Work(p)
  PROVE  /\ rules' \subseteq Addresses(file') /\ left'.faults = 0
         /\ \A p \in Everyone : HandOwns(rules', file', proc'[p])
<1>1. /\ proc \in [Everyone -> Local] /\ Main \in Everyone /\ Main \notin Procs
      /\ \A p \in Procs : p \in Everyone
      /\ \A p \in Everyone : HandOwns(rules, file, proc[p])
      /\ left \in Bounds /\ left.faults = 0 /\ rules \subseteq Addresses(file)
  BY ConstantsAssumption DEF OwnInv, OneInv, Inv, TypeOK, Everyone
<1>2. CASE \E p \in Procs : \E r \in Requests : Accept(p, r)
  <2>1. PICK p \in Procs, r \in Requests : Accept(p, r)
    BY <1>2
  <2> DEFINE n == CASE r.kind \in DeviceKinds -> "wait"
                    [] r.kind \in RemoteKinds -> "readRemotes"
                    [] OTHER -> "done"
             l == [Idle EXCEPT !.req = r, !.pc = n]
  <2>2. r.kind \in DeviceKinds \ {"add"} /\ n = "wait"
    BY DEF QuietRequests, DeviceKinds, SyncKinds, RemoteKinds, PurgeKinds
  <2>3. /\ Becomes(p, l) /\ UNCHANGED <<file, rules>>
        /\ left' = [left EXCEPT !.requests = @ - 1]
    BY <2>1 DEF Accept, store
  <2> HIDE DEF n
  <2>4. l.req = r /\ l.pc = n
    BY DEF Idle
  <2>5. left'.faults = 0
    BY <1>1, <2>3 DEF Bounds
  <2> HIDE DEF l
  <2>6. proc'[p] = l /\ \A q \in Everyone \ {p} : proc'[q] = proc[q]
    BY <1>1, <2>3 DEF Becomes
  <2>7. HandOwns(rules, file, proc'[p])
    BY <2>2, <2>4, <2>6, RestingOwns
  <2> QED
    BY <1>1, <2>3, <2>5, <2>6, <2>7
<1>3. CASE \E p \in Procs : Dispatch(p)
  <2>1. PICK p \in Procs : Dispatch(p)
    BY <1>3
  <2> DEFINE l == [proc[p] EXCEPT !.pc = "load"]
  <2>2. Becomes(p, l) /\ UNCHANGED <<file, rules, left>>
    BY <2>1 DEF Dispatch, store
  <2>3. l.req = proc[p].req /\ l.pc = "load"
    BY <1>1 DEF Local
  <2> HIDE DEF l
  <2>4. proc'[p] = l /\ \A q \in Everyone \ {p} : proc'[q] = proc[q]
    BY <1>1, <2>2 DEF Becomes
  <2>5. l.req.kind \in DeviceKinds \ {"add"}
    BY <1>1, <2>3 DEF HandOwns
  <2>6. HandOwns(rules, file, proc'[p])
    BY <2>3, <2>4, <2>5, RestingOwns
  <2> QED
    BY <1>1, <2>2, <2>4, <2>6
<1>4. CASE \E p \in Procs : Finish(p)
  <2>1. PICK p \in Procs : Finish(p)
    BY <1>4
  <2>2. /\ proc'[p] = Idle /\ proc'[Main] \in {Started("sync"), proc[Main]}
        /\ \A q \in Everyone \ {p, Main} : proc'[q] = proc[q]
        /\ UNCHANGED <<file, rules, left>>
    BY <1>1, <2>1 DEF Finish, store
  <2> QED
    BY <1>1, <2>2, OwnStarts
<1>5. CASE FinishMain \/ Restart
  <2>1. /\ proc'[Main] \in {Idle, Started("apply")} /\ UNCHANGED <<file, rules, left>>
        /\ \A q \in Everyone \ {Main} : proc'[q] = proc[q]
    BY <1>1, <1>5 DEF FinishMain, Restart, Becomes, store
  <2> QED
    BY <1>1, <2>1, OwnStarts
<1>6. CASE Crash
  <2>1. /\ file' = file /\ rules' \in {rules, {}}
        /\ left' = [left EXCEPT !.crashes = @ - 1]
        /\ \A p \in Everyone : proc'[p] = Idle
    BY <1>6 DEF Crash, store
  <2>2. left'.faults = 0
    BY <1>1, <2>1 DEF Bounds
  <2> QED
    BY <1>1, <2>1, <2>2, OwnStarts
<1>7. CASE DhcpChange
  <2>1. UNCHANGED <<file, rules, proc>> /\ left' = [left EXCEPT !.dhcp = @ - 1]
    BY <1>7 DEF DhcpChange
  <2>2. left'.faults = 0
    BY <1>1, <2>1 DEF Bounds
  <2> QED
    BY <1>1, <2>1, <2>2
<1>8. CASE UNCHANGED vars
  BY <1>1, <1>8 DEF vars
<1> QED
  BY <1>2, <1>3, <1>4, <1>5, <1>6, <1>7, <1>8 DEF Next

\* Every step keeps it: when a rule or the file changes, nobody but the one at
\* work has a list in hand.
LEMMA OwnStep ==
  ASSUME QuietRequests, OwnInv, [Next]_vars
  PROVE  OwnInv'
<1>1. OneInv'
  BY OneInvStep DEF OwnInv, QuietRequests
<1>2. CASE \E p \in Everyone : Work(p)
  <2>1. PICK p \in Everyone : Work(p)
    BY <1>2
  <2>2. Kept(p)
    BY <2>1, WorkKept
  <2>3. /\ \A q \in Everyone \ {p} : proc'[q] = proc[q]
        /\ proc[p].pc \notin {"idle", "wait", "done", "failed"}
    <3>1. proc \in [Everyone -> Local] /\ Effect(p)
      BY <2>1, OwnFacts, WorkEffect
    <3>2. proc[p].pc \notin {"idle", "wait", "done", "failed"}
      BY <2>1 DEF Work, At, Load, ReadInputs, DropRemote, BuildIndexes, MergeLease,
         NextLease, SaveSync, Find, DisableRule, AddRule, NoPriority, AddDevice, PurgeOne,
         PurgeEnd, Save, SaveFails, ReadRemotes, WriteRemotes, UnknownRemote
    <3> QED
      BY <3>1, <3>2 DEF Effect
  <2>4. ASSUME NEW q \in Everyone \ {p}
        PROVE  HandOwns(rules', file', proc'[q])
    <3>1. OneAtATime /\ q \in Everyone /\ q # p
      BY OneInvOne DEF OwnInv
    <3>2. ~ Working(q)
      BY <2>3, <3>1 DEF OneAtATime, Working
    <3>3. proc[q].req.kind \in DeviceKinds \ {"add"}
      BY <3>1, OwnFacts DEF HandOwns
    <3> QED
      BY <2>3, <3>2, <3>3, RestingOwns DEF Working
  <2>5. \A q \in Everyone : HandOwns(rules', file', proc'[q])
    BY <2>2, <2>4 DEF Kept
  <2> QED
    BY <1>1, <2>2, <2>5 DEF OwnInv, Kept
<1>3. CASE ~ \E p \in Everyone : Work(p)
  BY <1>1, <1>3, LoopKept DEF OwnInv
<1> QED
  BY <1>2, <1>3

\* An ip rule is always that of a saved record, for any devices, addresses that
\* are shared and handed over included, any number of requests and of crashes, as
\* long as every rule command works and nobody adds a device.
THEOREM RulesAreOwned ==
  ASSUME QuietRequests, NoFaults
  PROVE  Spec => []RulesOwned
<1>1. Init => OwnInv
  BY OwnInit
<1>2. OwnInv /\ [Next]_vars => OwnInv'
  BY OwnStep
<1>3. OwnInv => RulesOwned
  BY DEF OwnInv, RulesOwned, Addresses
<1> QED
  BY <1>1, <1>2, <1>3, PTL DEF Spec

-----------------------------------------------------------------------------
\* A pass over the rules, apply_all_rules.

\* After the first n records, the last one of an address decides on its rule.
Passed(rs, f, n) ==
  \A i \in 1 .. n : (\A k \in i + 1 .. n : f[k].ip # f[i].ip) => (f[i].ip \in rs <=> f[i].vpn)

\* The same of the records before n whose address is not that of record n.
Cleared(rs, f, n) ==
  \A i \in 1 .. n - 1 :
    (\A k \in i + 1 .. n : f[k].ip # f[i].ip) => (f[i].ip \in rs <=> f[i].vpn)

Passing(rs, f, l) ==
  l.req.kind = "apply" =>
    /\ l.pc \in {"idle", "wait", "load", "read", "filter", "lease", "unrule", "rule",
                 "done", "failed"}
    /\ l.pc = "unrule" => l.devs = f /\ Passed(rs, f, l.at - 1)
    /\ l.pc = "rule" => l.devs = f /\ f[l.at].vpn /\ Cleared(rs, f, l.at)
    /\ l.pc = "done" => Passed(rs, f, Len(f))

\* The rule of record n is removed: right for n if its VPN is off.
LEMMA DisablePasses ==
  ASSUME NEW f, NEW n \in Nat \ {0}, NEW rs, Passed(rs, f, n - 1)
  PROVE  /\ Cleared(rs \ {f[n].ip}, f, n)
         /\ f[n].vpn = FALSE => Passed(rs \ {f[n].ip}, f, n)
<1>1. ASSUME NEW i \in 1 .. n - 1, \A k \in i + 1 .. n : f[k].ip # f[i].ip
      PROVE  f[i].ip \in rs \ {f[n].ip} <=> f[i].vpn
  <2>1. \A k \in i + 1 .. n - 1 : f[k].ip # f[i].ip
    BY <1>1
  <2>2. f[i].ip \in rs <=> f[i].vpn
    BY <2>1 DEF Passed
  <2>3. n \in i + 1 .. n
    OBVIOUS
  <2> QED
    BY <1>1, <2>2, <2>3
<1>2. Cleared(rs \ {f[n].ip}, f, n)
  BY <1>1 DEF Cleared
<1>3. ASSUME f[n].vpn = FALSE
      PROVE  Passed(rs \ {f[n].ip}, f, n)
  <2> SUFFICES ASSUME NEW i \in 1 .. n, \A k \in i + 1 .. n : f[k].ip # f[i].ip
               PROVE  f[i].ip \in rs \ {f[n].ip} <=> f[i].vpn
    BY DEF Passed
  <2>1. CASE i = n
    BY <1>3, <2>1
  <2>2. CASE i # n
    BY <1>1, <2>2
  <2> QED
    BY <2>1, <2>2
<1> QED
  BY <1>2, <1>3

\* The rule of record n is added: right for n if its VPN is on.
LEMMA AddPasses ==
  ASSUME NEW f, NEW n \in Nat \ {0}, NEW rs, Cleared(rs, f, n), f[n].vpn
  PROVE  Passed(rs \cup {f[n].ip}, f, n)
<1> SUFFICES ASSUME NEW i \in 1 .. n, \A k \in i + 1 .. n : f[k].ip # f[i].ip
             PROVE  f[i].ip \in rs \cup {f[n].ip} <=> f[i].vpn
  BY DEF Passed
<1>1. CASE i = n
  BY <1>1
<1>2. CASE i # n
  <2>1. i \in 1 .. n - 1 /\ n \in i + 1 .. n
    BY <1>2
  <2>2. f[i].ip \in rs <=> f[i].vpn
    BY <2>1 DEF Cleared
  <2> QED
    BY <2>1, <2>2
<1> QED
  BY <1>1, <1>2

\* With no fault left there will be none.
LEMMA FaultsStay ==
  ASSUME Inv, left.faults = 0, [Next]_vars
  PROVE  left'.faults = 0
<1>1. left \in Bounds
  BY DEF Inv, TypeOK
<1>2. \A R : RuleCommand(R) => left' = left
  BY DEF RuleCommand
<1>3. ASSUME NEW p \in Procs, NEW r \in Requests, Accept(p, r)
      PROVE  left'.faults = 0
  BY <1>1, <1>3 DEF Accept, Bounds
<1>4. CASE DhcpChange \/ Crash
  BY <1>1, <1>4 DEF DhcpChange, Crash, Bounds
<1>5. ASSUME NEW p \in Everyone, Work(p)
      PROVE  left'.faults = 0
  <2>0. CASE NoPriority(p) \/ SaveFails(p)
    BY <2>0, RaiseFacts
  <2>1. CASE MergeLease(p)
    BY <1>2, <2>1 DEF MergeLease, SkipRemoteLease, UpdateKnown, AdoptByIp, AppendNew
  <2>2. CASE DropRemote(p) \/ DisableRule(p) \/ AddRule(p) \/ PurgeOne(p)
    BY <1>2, <2>2 DEF DropRemote, DisableRule, AddRule, PurgeOne
  <2> QED
    BY <1>5, <2>0, <2>1, <2>2 DEF Work, Load, ReadInputs, BuildIndexes, SaveSync, Find,
       AddDevice, PurgeEnd, Save, ReadRemotes, WriteRemotes, UnknownRemote
<1>6. CASE (\E p \in Procs : Dispatch(p) \/ Finish(p)) \/ FinishMain \/ Restart
           \/ UNCHANGED vars
  BY <1>6 DEF Dispatch, Finish, FinishMain, Restart, vars
<1> QED
  BY <1>3, <1>4, <1>5, <1>6 DEF Next

\* A step of the pass, or before it.
LEMMA PassStep ==
  ASSUME Inv, left.faults = 0, NEW p \in Everyone, Work(p), Passing(rules, file, proc[p])
  PROVE  Passing(rules', file', proc'[p])
<1> SUFFICES ASSUME proc'[p].req.kind = "apply"
             PROVE  Passing(rules', file', proc'[p])
  BY DEF Passing
<1>1. proc \in [Everyone -> Local] /\ proc[p] \in Local /\ proc[p].req \in Request
  BY LocalFacts
<1>2. proc[p].req.kind = "apply" /\ proc'[p].req = proc[p].req
  BY RequestKept
<1>3. proc[p].pc \in {"idle", "wait", "load", "read", "filter", "lease", "unrule", "rule",
                      "done", "failed"}
  BY <1>2 DEF Passing
<1>4. ~ (Find(p) \/ AddDevice(p) \/ PurgeOne(p) \/ PurgeEnd(p) \/ Save(p)
         \/ ReadRemotes(p) \/ WriteRemotes(p) \/ UnknownRemote(p))
  BY <1>3 DEF Find, AddDevice, PurgeOne, PurgeEnd, Save, ReadRemotes, WriteRemotes,
     UnknownRemote, At
<1>5. ASSUME proc'[p].pc \in {"read", "filter", "lease"}
      PROVE  Passing(rules', file', proc'[p])
  BY <1>5 DEF Passing
<1>0. CASE NoPriority(p) \/ SaveFails(p)
  BY <1>0, RaiseFacts DEF Passing
<1>6. CASE Load(p)
  <2>1. proc'[p].pc = "read"
    BY <1>1, <1>2, <1>6 DEF Load, Becomes, Local, SyncKinds
  <2> QED
    BY <1>5, <2>1
<1>7. CASE ReadInputs(p) \/ DropRemote(p) \/ BuildIndexes(p)
  <2>1. proc'[p].pc \in {"filter", "lease"}
    BY <1>1, <1>7 DEF ReadInputs, DropRemote, BuildIndexes, Becomes, Local, At
  <2> QED
    BY <1>5, <2>1
<1>8. CASE MergeLease(p)
  <2>1. PICK r \in Lease : /\ At(p, "lease")
                           /\ SkipRemoteLease(p, r) \/ UpdateKnown(p, r)
                                \/ AdoptByIp(p, r) \/ AppendNew(p, r)
    BY <1>8 DEF MergeLease, NextLease
  <2>2. CASE SkipRemoteLease(p, r)
    BY <1>1, <1>5, <2>1, <2>2 DEF SkipRemoteLease, Becomes, Local, At
  <2>3. CASE UpdateKnown(p, r)
    BY <1>1, <1>5, <2>1, <2>3 DEF UpdateKnown, Becomes, Local, At
  <2>4. CASE AdoptByIp(p, r)
    BY <1>1, <1>5, <2>1, <2>4 DEF AdoptByIp, Becomes, Local, At
  <2>5. CASE AppendNew(p, r)
    BY <1>1, <1>5, <2>1, <2>5 DEF AppendNew, Becomes, Local, At
  <2> QED
    BY <2>1, <2>2, <2>3, <2>4, <2>5
<1>9. CASE SaveSync(p)
  <2>1. /\ file' = proc[p].devs /\ proc'[p].devs = file' /\ proc'[p].at = 1
        /\ proc'[p].pc = IF file' # <<>> THEN "unrule" ELSE "done"
    BY <1>1, <1>2, <1>9 DEF SaveSync, Becomes, Local
  <2>2. \A rs, f : Passed(rs, f, 0)
    BY DEF Passed
  <2>3. Len(<<>>) = 0 /\ 1 - 1 = 0
    OBVIOUS
  <2> QED
    BY <2>1, <2>2, <2>3 DEF Passing
<1> DEFINE n == proc[p].at
<1>10. ASSUME proc[p].pc \in {"unrule", "rule"}, file' = file, proc[p].devs = file,
              Passed(rules', file, n), Becomes(p, AfterRule(p, n))
       PROVE  Passing(rules', file', proc'[p])
  <2>1. n \in 1 .. Len(file) /\ Len(file) \in Nat /\ n + 1 - 1 = n
    BY <1>10, LocalFacts DEF LocalInv
  <2>2. IF n < Len(file)
        THEN proc'[p].pc = "unrule" /\ proc'[p].at = n + 1 /\ proc'[p].devs = file
        ELSE proc'[p].pc = "done"
    BY <1>1, <1>2, <1>10 DEF AfterRule, Becomes, Local
  <2>3. CASE n < Len(file)
    BY <1>10, <2>1, <2>2, <2>3 DEF Passing
  <2>4. CASE n = Len(file)
    BY <1>10, <2>1, <2>2, <2>4 DEF Passing
  <2> QED
    BY <2>1, <2>3, <2>4
<1>11. CASE DisableRule(p)
  <2>1. /\ proc[p].pc = "unrule" /\ file' = file /\ proc[p].devs = file
        /\ Passed(rules, file, n - 1)
    BY <1>2, <1>11 DEF DisableRule, At, store, Passing
  <2>2. n \in Nat \ {0} /\ file[n] \in Device
    BY <2>1, LocalFacts, RecordAt DEF LocalInv
  <2>3. rules' = rules \ {file[n].ip}
    BY <1>11, <2>1 DEF DisableRule, RuleCommand
  <2>4. /\ Cleared(rules', file, n)
        /\ file[n].vpn = FALSE => Passed(rules', file, n)
    BY <2>1, <2>2, <2>3, DisablePasses
  <2>5. CASE file[n].vpn
    <3>1. proc'[p].pc = "rule" /\ proc'[p].devs = file /\ proc'[p].at = n
      BY <1>1, <1>11, <2>1, <2>5 DEF DisableRule, Becomes, Local
    <3> QED
      BY <2>1, <2>4, <2>5, <3>1 DEF Passing
  <2>6. CASE ~ file[n].vpn
    <3>1. Becomes(p, AfterRule(p, n))
      BY <1>11, <2>1, <2>6 DEF DisableRule
    <3>2. file[n].vpn = FALSE
      BY <2>2, <2>6 DEF Device
    <3> QED
      BY <1>10, <2>1, <2>4, <3>1, <3>2
  <2> QED
    BY <2>5, <2>6
<1>12. CASE AddRule(p)
  <2>1. /\ proc[p].pc = "rule" /\ file' = file /\ proc[p].devs = file
        /\ file[n].vpn /\ Cleared(rules, file, n) /\ Becomes(p, AfterRule(p, n))
    BY <1>2, <1>12 DEF AddRule, At, store, Passing
  <2>2. n \in Nat \ {0}
    BY <2>1, LocalFacts DEF LocalInv
  <2>3. rules' = rules \cup {file[n].ip}
    BY <1>12, <2>1 DEF AddRule, RuleCommand
  <2> QED
    BY <1>10, <2>1, <2>2, <2>3, AddPasses
<1> QED
  BY <1>0, <1>4, <1>6, <1>7, <1>8, <1>9, <1>11, <1>12 DEF Work

-----------------------------------------------------------------------------
\* Where a pass ends.

\* Until the panel serves, nobody but Main is at work, and Main is in the pass.
StartInv ==
  /\ Inv /\ left.faults = 0
  /\ mode # "serving" => \A p \in Procs : At(p, "idle")
  /\ mode = "starting" => proc[Main].req.kind = "apply" /\ Passing(rules, file, proc[Main])

\* A pass that ended is right for the file.
LEMMA PassedMatches ==
  ASSUME Inv, Passed(rules, file, Len(file))
  PROVE  RulesMatch
<1>1. DOMAIN file = 1 .. Len(file)
  BY DEF Inv, TypeOK
<1> QED
  BY <1>1 DEF Passed, RulesMatch

\* Every step keeps the pass of the startup hook.
LEMMA StartStep ==
  ASSUME StartInv, [Next]_vars
  PROVE  StartInv'
<1>1. Inv /\ Inv' /\ left'.faults = 0
  BY StepKeepsInv, FaultsStay DEF StartInv
<1>2. /\ proc \in [Everyone -> Local] /\ Main \in Everyone /\ Main \notin Procs
      /\ \A p \in Procs : p \in Everyone
      /\ \A p \in Everyone : p = Main \/ p \in Procs
  BY <1>1, ConstantsAssumption DEF Inv, TypeOK, Everyone
<1>3. Idle.pc = "idle" /\ Started("apply").pc = "load" /\ Started("apply").req.kind = "apply"
  BY DEF Idle, Started, Own
<1>4. ASSUME NEW p \in Everyone, Work(p)
      PROVE  StartInv'
  <2>1. /\ proc'[p] \in Local /\ mode' = mode /\ \A q \in Everyone \ {p} : proc'[q] = proc[q]
    BY <1>1, <1>2, <1>4, WorkEffect DEF Effect
  <2>2. ~ At(p, "idle")
    BY <1>4 DEF Work, At, Load, ReadInputs, DropRemote, BuildIndexes, MergeLease, NextLease,
       SaveSync, Find, DisableRule, AddRule, NoPriority, AddDevice, PurgeOne, PurgeEnd,
       Save, SaveFails, ReadRemotes, WriteRemotes, UnknownRemote
  <2>3. CASE mode = "serving"
    BY <1>1, <2>1, <2>3 DEF StartInv
  <2>4. CASE mode # "serving"
    <3>1. p = Main
      BY <1>2, <2>2, <2>4 DEF StartInv
    <3>2. \A q \in Procs : At(q, "idle")'
      BY <1>2, <2>1, <2>4, <3>1 DEF StartInv, At
    <3>3. ASSUME mode = "starting"
          PROVE  proc'[Main].req.kind = "apply" /\ Passing(rules', file', proc'[Main])
      <4>1. proc[Main].req.kind = "apply" /\ Passing(rules, file, proc[Main])
        BY <3>3 DEF StartInv
      <4>2. Passing(rules', file', proc'[Main])
        BY <1>1, <1>4, <3>1, <4>1, PassStep DEF StartInv
      <4>3. proc'[Main].req = proc[Main].req
        BY <1>1, <1>4, <3>1, <4>1, RequestKept
      <4> QED
        BY <4>1, <4>2, <4>3
    <3> QED
      BY <1>1, <2>1, <3>2, <3>3 DEF StartInv
  <2> QED
    BY <2>3, <2>4
<1>5. CASE \E p \in Procs : \E r \in Requests : Accept(p, r)
  BY <1>1, <1>5 DEF Accept, StartInv
<1>6. CASE \E p \in Procs : Dispatch(p) \/ Finish(p)
  <2>1. PICK p \in Procs : Dispatch(p) \/ Finish(p)
    BY <1>6
  <2>2. ~ At(p, "idle") /\ mode' = mode
    BY <2>1 DEF Dispatch, Finish, At, panel
  <2>3. mode' = "serving"
    BY <2>2 DEF StartInv
  <2> QED
    BY <1>1, <2>3 DEF StartInv
<1>7. CASE FinishMain
  <2>1. \A q \in Procs : proc'[q] = proc[q]
    BY <1>2, <1>7 DEF FinishMain, Becomes
  <2>2. mode' # "starting" /\ (mode' # "serving" => mode # "serving")
    BY <1>7 DEF FinishMain
  <2> QED
    BY <1>1, <2>1, <2>2 DEF StartInv, At
<1>8. CASE DhcpChange \/ UNCHANGED vars
  <2>1. UNCHANGED <<file, rules, mode, proc>>
    BY <1>8 DEF DhcpChange, vars, panel
  <2> QED
    BY <1>1, <2>1 DEF StartInv, At
<1>9. CASE Crash
  <2>1. mode' = "down" /\ \A p \in Everyone : proc'[p] = Idle
    BY <1>9 DEF Crash
  <2> QED
    BY <1>1, <1>2, <1>3, <2>1 DEF StartInv, At
<1>10. CASE Restart
  <2>1. /\ mode = "down" /\ proc'[Main] = Started("apply")
        /\ \A p \in Everyone \ {Main} : proc'[p] = proc[p]
    BY <1>2, <1>10 DEF Restart, Becomes
  <2>2. Passing(rules', file', proc'[Main]) /\ proc'[Main].req.kind = "apply"
    BY <1>3, <2>1 DEF Passing
  <2>3. \A p \in Procs : At(p, "idle")'
    BY <1>2, <2>1 DEF StartInv, At
  <2> QED
    BY <1>1, <2>2, <2>3 DEF StartInv
<1> QED
  BY <1>4, <1>5, <1>6, <1>7, <1>8, <1>9, <1>10 DEF Next

\* A start repairs the rules: whatever races and crashes left behind, when the
\* startup hook ends every address has the rule its last record asks for, for any
\* requests, those that take no lock included.
THEOREM StartsMatch ==
  ASSUME NoFaults
  PROVE  Spec => []StartupMatches
<1>1. Init => StartInv
  <2>1. Idle.pc = "idle"
    BY DEF Idle
  <2> QED
    BY <2>1, InitInv DEF Init, NoFaults, StartInv, At, Everyone
<1>2. StartInv /\ [Next]_vars => StartInv'
  BY StartStep
<1>3. StartInv => StartupMatches
  <2> SUFFICES ASSUME StartInv, mode = "starting", At(Main, "done")
               PROVE  RulesMatch
    BY DEF StartupMatches
  <2> QED
    BY PassedMatches DEF StartInv, Passing, At
<1> QED
  BY <1>1, <1>2, <1>3, PTL DEF Spec

\* In service, with device requests only: every pass is right, and what an ended
\* one made stays until its end is seen.
PassInv ==
  /\ OneInv /\ left.faults = 0
  /\ \A p \in Everyone : Passing(rules, file, proc[p])

\* Nobody works while another has ended and holds the lock, or the loop.
LEMMA NobodyWorks ==
  ASSUME OneInv, NEW p \in Everyone, NEW q \in Everyone, At(p, "done"), Working(q)
  PROVE  FALSE
<1>1. p \in Procs \/ p = Main
  BY DEF Everyone
<1>2. q \in Procs \/ q = Main
  BY DEF Everyone
<1>3. p # q
  BY DEF At, Working
<1>4. CASE p = Main \/ q = Main
  BY <1>1, <1>2, <1>3, <1>4 DEF OneInv, At, Working
<1>5. CASE p \in Procs /\ q \in Procs
  <2>1. lockQ[1] = p /\ lockQ[1] = q
    BY <1>5 DEF OneInv, Inv, LockInv, At, Working
  <2> QED
    BY <1>3, <2>1
<1> QED
  BY <1>1, <1>2, <1>4, <1>5

\* Every step keeps the passes.
LEMMA PassesStep ==
  ASSUME DeviceKindsOnly, PassInv, [Next]_vars
  PROVE  PassInv'
<1>1. OneInv' /\ left'.faults = 0 /\ Inv
  BY OneInvStep, FaultsStay DEF PassInv, OneInv, DeviceKindsOnly
<1>2. /\ proc \in [Everyone -> Local] /\ Main \in Everyone /\ Main \notin Procs
      /\ \A p \in Procs : p \in Everyone
      /\ \A p \in Everyone : p = Main \/ p \in Procs
      /\ \A p \in Everyone : Passing(rules, file, proc[p])
  BY <1>1, ConstantsAssumption DEF PassInv, Inv, TypeOK, Everyone
<1>3. /\ \A rs, f : Passing(rs, f, Idle)
      /\ \A rs, f, k : Passing(rs, f, Started(k))
  <2>1. Idle.pc = "idle" /\ \A k : Started(k).pc = "load"
    BY DEF Idle, Started
  <2> QED
    BY <2>1 DEF Passing
<1>4. ASSUME NEW p \in Everyone, Work(p)
      PROVE  PassInv'
  <2>1. \A q \in Everyone \ {p} : proc'[q] = proc[q]
    BY <1>1, <1>2, <1>4, WorkEffect DEF Effect
  <2>2. Working(p)
    BY <1>4 DEF Working, Work, At, Load, ReadInputs, DropRemote, BuildIndexes, MergeLease,
       NextLease, SaveSync, Find, DisableRule, AddRule, NoPriority, AddDevice, PurgeOne,
       PurgeEnd, Save, SaveFails, ReadRemotes, WriteRemotes, UnknownRemote
  <2>3. Passing(rules', file', proc'[p])
    BY <1>1, <1>2, <1>4, PassStep DEF PassInv
  <2>4. ASSUME NEW q \in Everyone \ {p}
        PROVE  Passing(rules', file', proc'[q])
    <3>1. OneAtATime /\ q \in Everyone /\ q # p /\ Passing(rules, file, proc[q])
      BY <1>2, OneInvOne DEF PassInv
    <3>2. ~ Working(q)
      BY <2>2, <3>1 DEF OneAtATime
    <3>3. ~ At(q, "done")
      BY <2>2, <3>1, NobodyWorks DEF PassInv
    <3> QED
      BY <2>1, <3>1, <3>2, <3>3 DEF Passing, Working, At
  <2> QED
    BY <1>1, <2>3, <2>4 DEF PassInv
<1>5. CASE \E p \in Procs : \E r \in Requests : Accept(p, r)
  <2>1. PICK p \in Procs, r \in Requests : Accept(p, r)
    BY <1>5
  <2> DEFINE n == CASE r.kind \in DeviceKinds -> "wait"
                    [] r.kind \in RemoteKinds -> "readRemotes"
                    [] OTHER -> "done"
             l == [Idle EXCEPT !.req = r, !.pc = n]
  <2>2. n = "wait"
    BY DEF DeviceKindsOnly, DeviceKinds, SyncKinds, RemoteKinds, PurgeKinds
  <2>3. Becomes(p, l) /\ UNCHANGED <<file, rules>>
    BY <2>1 DEF Accept, store
  <2> HIDE DEF n
  <2>4. l.pc = n
    BY DEF Idle
  <2> HIDE DEF l
  <2>5. proc'[p] = l /\ \A q \in Everyone \ {p} : proc'[q] = proc[q]
    BY <1>2, <2>3 DEF Becomes
  <2>6. Passing(rules, file, proc'[p])
    BY <2>2, <2>4, <2>5 DEF Passing
  <2> QED
    BY <1>1, <1>2, <2>3, <2>5, <2>6 DEF PassInv
<1>6. CASE \E p \in Procs : Dispatch(p)
  <2>1. PICK p \in Procs : Dispatch(p)
    BY <1>6
  <2> DEFINE l == [proc[p] EXCEPT !.pc = "load"]
  <2>2. Becomes(p, l) /\ UNCHANGED <<file, rules>>
    BY <2>1 DEF Dispatch, store
  <2>3. l.pc = "load"
    BY <1>2 DEF Local
  <2> HIDE DEF l
  <2>4. proc'[p] = l /\ \A q \in Everyone \ {p} : proc'[q] = proc[q]
    BY <1>2, <2>2 DEF Becomes
  <2>5. Passing(rules, file, proc'[p])
    BY <2>3, <2>4 DEF Passing
  <2> QED
    BY <1>1, <1>2, <2>2, <2>4, <2>5 DEF PassInv
<1>7. CASE \E p \in Procs : Finish(p)
  <2>1. PICK p \in Procs : Finish(p)
    BY <1>7
  <2>2. /\ proc'[p] = Idle /\ proc'[Main] \in {Started("sync"), proc[Main]}
        /\ \A q \in Everyone \ {p, Main} : proc'[q] = proc[q]
        /\ UNCHANGED <<file, rules>>
    BY <1>2, <2>1 DEF Finish, store
  <2> QED
    BY <1>1, <1>2, <1>3, <2>2 DEF PassInv
<1>8. CASE FinishMain \/ Restart
  <2>1. /\ proc'[Main] \in {Idle, Started("apply")} /\ UNCHANGED <<file, rules>>
        /\ \A q \in Everyone \ {Main} : proc'[q] = proc[q]
    BY <1>2, <1>8 DEF FinishMain, Restart, Becomes, store
  <2> QED
    BY <1>1, <1>2, <1>3, <2>1 DEF PassInv
<1>9. CASE Crash
  <2>1. \A p \in Everyone : proc'[p] = Idle
    BY <1>9 DEF Crash
  <2> QED
    BY <1>1, <1>3, <2>1 DEF PassInv
<1>10. CASE DhcpChange \/ UNCHANGED vars
  <2>1. UNCHANGED <<file, rules, proc>>
    BY <1>10 DEF DhcpChange, vars
  <2> QED
    BY <1>1, <1>2, <2>1 DEF PassInv
<1> QED
  BY <1>4, <1>5, <1>6, <1>7, <1>8, <1>9, <1>10 DEF Next

\* apply_all_rules does what it says: when a request that asks for it ends, every
\* address has the rule its last record asks for, for any number of device
\* requests beside it, crashes and lease changes.
THEOREM PassesMatch ==
  ASSUME DeviceKindsOnly, NoFaults
  PROVE  Spec => []ApplyAllMatches
<1>1. Init => PassInv
  <2>1. Idle.pc = "idle"
    BY DEF Idle
  <2> QED
    BY <2>1, OneInvInit DEF Init, NoFaults, PassInv, Passing
<1>2. PassInv /\ [Next]_vars => PassInv'
  BY PassesStep
<1>3. PassInv => ApplyAllMatches
  <2> SUFFICES ASSUME PassInv, NEW p \in Procs, At(p, "done"), proc[p].req.kind = "apply"
               PROVE  RulesMatch
    BY DEF ApplyAllMatches
  <2>1. Inv /\ Passing(rules, file, proc[p])
    BY DEF PassInv, OneInv, Everyone
  <2> QED
    BY <2>1, PassedMatches DEF Passing, At
<1> QED
  BY <1>1, <1>2, <1>3, PTL DEF Spec

-----------------------------------------------------------------------------
\* Addresses of records whose VPN is on.

\* One is that of a record, and that of a record is one.
LEMMA OnRecord ==
  ASSUME NEW ds
  PROVE  /\ \A a \in Routed(ds) : \E i \in DOMAIN ds : ds[i].vpn /\ a = ds[i].ip
         /\ \A i \in DOMAIN ds : ds[i].vpn => ds[i].ip \in Routed(ds)
  BY DEF Routed

\* A record that is dropped takes no address but its own.
LEMMA DropKeepsOn ==
  ASSUME NEW ds \in Seq(Device), DistinctMacs(ds), NEW k \in DOMAIN ds
  PROVE  Routed(ds) \ {ds[k].ip} \subseteq Routed(RemoveAt(ds, k))
<1> DEFINE d == RemoveAt(ds, k)
<1>1. /\ d \in Seq(Device) /\ Len(d) = Len(ds) - 1
      /\ \A i \in 1 .. Len(ds) - 1 : d[i] = ds[IF i < k THEN i ELSE i + 1]
  BY RemoveDistinct
<1>2. Len(ds) \in Nat /\ DOMAIN ds = 1 .. Len(ds) /\ k \in 1 .. Len(ds)
  OBVIOUS
<1> HIDE DEF d
<1>3. DOMAIN d = 1 .. Len(ds) - 1
  BY <1>1
<1>4. ASSUME NEW j \in DOMAIN ds, j # k, ds[j].vpn
      PROVE  ds[j].ip \in Routed(d)
  <2> DEFINE i == IF j < k THEN j ELSE j - 1
  <2>1. i \in 1 .. Len(ds) - 1 /\ (IF i < k THEN i ELSE i + 1) = j
    BY <1>2, <1>4
  <2> HIDE DEF i
  <2>2. i \in DOMAIN d /\ d[i] = ds[j]
    BY <1>1, <1>3, <2>1
  <2>3. d[i].vpn /\ d[i].ip = ds[j].ip
    BY <1>4, <2>2
  <2> QED
    BY <2>2, <2>3, OnRecord
<1>5. ASSUME NEW a \in Routed(ds) \ {ds[k].ip}
      PROVE  a \in Routed(d)
  <2>1. PICK j \in DOMAIN ds : ds[j].vpn /\ a = ds[j].ip
    BY OnRecord
  <2>2. j # k
    BY <1>5, <2>1
  <2> QED
    BY <1>4, <2>1, <2>2
<1> QED
  BY <1>5 DEF d

\* A record that is replaced takes no address but its own, and not even that if
\* its address and flag stay.
LEMMA ReplaceKeepsOn ==
  ASSUME NEW ds \in Seq(Device), NEW k \in DOMAIN ds, NEW d \in Device
  PROVE  /\ Routed(ds) \ {ds[k].ip} \subseteq Routed([ds EXCEPT ![k] = d])
         /\ d.ip = ds[k].ip /\ d.vpn = ds[k].vpn => Routed(ds) \subseteq Routed([ds EXCEPT ![k] = d])
<1> DEFINE es == [ds EXCEPT ![k] = d]
<1>1. /\ DOMAIN es = DOMAIN ds /\ es[k] = d
      /\ \A j \in DOMAIN ds \ {k} : es[j] = ds[j]
  BY ReplaceRecord
<1> HIDE DEF es
<1>2. ASSUME NEW a \in Routed(ds), a # ds[k].ip
      PROVE  a \in Routed(es)
  <2>1. PICK j \in DOMAIN ds : ds[j].vpn /\ a = ds[j].ip
    BY OnRecord
  <2>2. j \in DOMAIN es /\ es[j].vpn /\ es[j].ip = a
    BY <1>1, <1>2, <2>1
  <2> QED
    BY <2>2, OnRecord
<1>3. ASSUME d.ip = ds[k].ip, d.vpn = ds[k].vpn, NEW a \in Routed(ds)
      PROVE  a \in Routed(es)
  <2>1. PICK j \in DOMAIN ds : ds[j].vpn /\ a = ds[j].ip
    BY OnRecord
  <2>2. j \in DOMAIN es /\ es[j].vpn /\ es[j].ip = a
    BY <1>1, <1>3, <2>1
  <2> QED
    BY <2>2, OnRecord
<1> QED
  BY <1>2, <1>3 DEF es

\* A record at the end takes no address away.
LEMMA AppendKeepsOn ==
  ASSUME NEW ds \in Seq(Device), NEW d \in Device
  PROVE  Routed(ds) \subseteq Routed(Append(ds, d))
<1>1. /\ DOMAIN ds = 1 .. Len(ds) /\ Len(ds) \in Nat
      /\ DOMAIN Append(ds, d) = 1 .. Len(ds) + 1
      /\ \A j \in 1 .. Len(ds) : Append(ds, d)[j] = ds[j]
  BY AppendProperties
<1>2. ASSUME NEW a \in Routed(ds)
      PROVE  a \in Routed(Append(ds, d))
  <2>1. PICK j \in DOMAIN ds : ds[j].vpn /\ a = ds[j].ip
    BY OnRecord
  <2>2. j \in DOMAIN Append(ds, d) /\ Append(ds, d)[j] = ds[j]
    BY <1>1, <2>1
  <2> QED
    BY <2>1, <2>2, OnRecord
<1> QED
  BY <1>2

\* A pass that ended leaves rules of records whose VPN is on, and of unknown
\* addresses: the last record of an address decides.
LEMMA MatchesOn ==
  ASSUME NEW f \in Seq(Device), NEW rs, rs \subseteq Addresses(f), Passed(rs, f, Len(f))
  PROVE  rs \subseteq Routed(f)
<1>1. Len(f) \in Nat /\ DOMAIN f = 1 .. Len(f)
  OBVIOUS
<1> SUFFICES ASSUME NEW a \in rs PROVE a \in Routed(f)
  OBVIOUS
<1> DEFINE I == {i \in 1 .. Len(f) : f[i].ip = a}
<1>2. I # {}
  <2>1. PICK i \in DOMAIN f : a = f[i].ip
    BY DEF Addresses
  <2> QED
    BY <1>1, <2>1
<1>3. PICK n \in I : \A k \in I : k <= n
  <2>1. Max(I) \in I /\ \A k \in I : k <= Max(I)
    BY <1>1, <1>2, MaxPosition
  <2> QED
    BY <2>1
<1>4. \A k \in n + 1 .. Len(f) : f[k].ip # f[n].ip
  BY <1>1, <1>3
<1>5. f[n].vpn
  BY <1>3, <1>4 DEF Passed
<1> QED
  BY <1>1, <1>3, <1>5, OnRecord

\* The rules but those of sets whose save failed.
Settled == rules \ unsaved

\* A list in hand, compared with the settled rules rs and the file f: every rule is
\* that of a record in it whose VPN is on, but the one a set is about to remove.
HandOn(rs, f, l) ==
  /\ l.pc \in {"read", "filter", "lease", "find", "purge", "rule", "save"} =>
       rs \subseteq Routed(l.devs)
  /\ l.pc = "unrule" => rs \ {l.devs[l.at].ip} \subseteq Routed(l.devs)
  /\ l.pc \in {"unrule", "rule"} /\ l.req.kind # "set" => l.devs = f
  /\ l.pc = "rule" => l.devs[l.at].vpn

\* A set between its rule and its save.
Flipping(l) == l.pc = "save" /\ l.req.kind = "set"

\* What a step of the work of p starts from in service, and what it must keep.
OnBefore(p) ==
  /\ OwnInv /\ HandOn(Settled, file, proc[p])
  /\ Settled \subseteq Routed(file) \/ Flipping(proc[p])
OnAfter(p) ==
  /\ HandOn(Settled', file', proc'[p])
  /\ Settled' \subseteq Routed(file') \/ Flipping(proc'[p])

\* The steps that change no record, no rule and no file.
LEMMA PlainOn ==
  ASSUME NEW p \in Everyone, OnBefore(p),
         Load(p) \/ ReadInputs(p) \/ BuildIndexes(p) \/ PurgeEnd(p)
  PROVE  OnAfter(p)
<1>0. UNCHANGED <<file, rules, unsaved>>
  BY DEF Load, ReadInputs, BuildIndexes, PurgeEnd, store, panel
<1>1. /\ UNCHANGED <<file, Settled>> /\ Settled \subseteq Routed(file)
      /\ proc \in [Everyone -> Local] /\ proc[p] \in Local
  BY <1>0, OwnFacts DEF Load, ReadInputs, BuildIndexes, PurgeEnd, OnBefore, Flipping, At,
     Settled
<1>2. /\ proc'[p].pc \in {"read", "filter", "lease", "add", "purge", "save", "done"}
      /\ proc'[p].devs \in {file, proc[p].devs}
      /\ proc'[p].devs = file \/ proc[p].pc \in {"read", "filter", "purge"}
  <2>1. CASE Load(p)
    BY <1>1, <2>1 DEF Load, Becomes, Local
  <2>2. CASE ReadInputs(p)
    BY <1>1, <2>2 DEF ReadInputs, Becomes, Local, At
  <2>3. CASE BuildIndexes(p)
    BY <1>1, <2>3 DEF BuildIndexes, Becomes, Local, At
  <2>4. CASE PurgeEnd(p)
    BY <1>1, <2>4 DEF PurgeEnd, Becomes, Local, At
  <2> QED
    BY <2>1, <2>2, <2>3, <2>4
<1>3. Settled \subseteq Routed(proc'[p].devs)
  BY <1>1, <1>2 DEF OnBefore, HandOn
<1> QED
  BY <1>1, <1>2, <1>3 DEF OnAfter, HandOn

\* A record goes after its rule.
LEMMA DropOn ==
  ASSUME NEW p \in Everyone, OnBefore(p), DropRemote(p) \/ PurgeOne(p)
  PROVE  OnAfter(p)
<1> DEFINE ds == proc[p].devs
<1>0. OwnInv /\ file' = file /\ unsaved' = unsaved
  BY DEF OnBefore, DropRemote, PurgeOne, store, panel
<1>1. PICK i \in DOMAIN ds :
        /\ RuleCommand(rules \ {ds[i].ip})
        /\ \/ At(p, "filter") /\ Becomes(p, [proc[p] EXCEPT !.devs = RemoveAt(@, i)])
           \/ At(p, "purge") /\ Becomes(p, [proc[p] EXCEPT !.devs = RemoveAt(@, i), !.at = 1])
  <2>1. CASE DropRemote(p)
    BY <2>1 DEF DropRemote
  <2>2. CASE PurgeOne(p)
    <3> DEFINE i == FindDevice(ds, Purged(p))
    <3>1. ds \in Seq(Device) /\ i \in 0 .. Len(ds) /\ i # 0
      BY <1>0, <2>2, OwnFacts, FindDeviceFinds DEF PurgeOne
    <3>2. i \in DOMAIN ds
      <4> HIDE DEF i, ds
      <4> QED
        BY <3>1
    <3> QED
      BY <2>2, <3>2 DEF PurgeOne
  <2> QED
    BY <2>1, <2>2
<1> DEFINE es == RemoveAt(ds, i)
<1>2. Settled' = Settled \ {ds[i].ip}
  <2>1. rules' = rules \ {ds[i].ip}
    BY <1>0, <1>1, CommandWorks
  <2> QED
    BY <1>0, <2>1 DEF Settled
<1>3. Routed(ds) \ {ds[i].ip} \subseteq Routed(es)
  BY <1>0, OwnFacts, DropKeepsOn
<1>4. proc[p].pc \in {"filter", "purge"} /\ proc'[p].pc = proc[p].pc /\ proc'[p].devs = es
  <2>1. proc \in [Everyone -> Local] /\ proc[p] \in Local
    BY <1>0, OwnFacts
  <2>2. CASE At(p, "filter") /\ Becomes(p, [proc[p] EXCEPT !.devs = RemoveAt(@, i)])
    BY <2>1, <2>2 DEF Becomes, Local, At
  <2>3. CASE At(p, "purge") /\ Becomes(p, [proc[p] EXCEPT !.devs = RemoveAt(@, i), !.at = 1])
    BY <2>1, <2>3 DEF Becomes, Local, At
  <2> QED
    BY <1>1, <2>2, <2>3
<1>5. Settled \subseteq Routed(ds) /\ Settled \subseteq Routed(file)
  BY <1>4 DEF OnBefore, HandOn, Flipping
<1> HIDE DEF ds, es
<1> QED
  BY <1>0, <1>2, <1>3, <1>4, <1>5 DEF OnAfter, HandOn

\* A merged lease moves a record after its old rule, hands it over with its
\* address and its flag, or adds one.
LEMMA MergeOn ==
  ASSUME NEW p \in Everyone, OnBefore(p), MergeLease(p)
  PROVE  OnAfter(p)
<1> DEFINE ds == proc[p].devs
<1>1. PICK r \in Lease : /\ NextLease(p, r) /\ UNCHANGED <<file, unsaved>>
                         /\ SkipRemoteLease(p, r) \/ UpdateKnown(p, r)
                              \/ AdoptByIp(p, r) \/ AppendNew(p, r)
  BY DEF MergeLease, store, panel
<1>2. /\ OwnInv /\ proc[p].pc = "lease"
      /\ Settled \subseteq Routed(ds) /\ Settled \subseteq Routed(file)
      /\ IndexOK(ds, proc[p].byMac, proc[p].byIp) /\ r.mac \in Macs /\ r.ip \in Ips
      /\ ds \in Seq(Device) /\ Len(ds) \in Nat /\ DOMAIN ds = 1 .. Len(ds)
      /\ proc \in [Everyone -> Local] /\ proc[p] \in Local
  BY <1>1, OwnFacts, LocalFacts
     DEF NextLease, At, OnBefore, HandOn, Flipping, LocalInv, Lease
<1>3. ASSUME proc'[p].pc = "lease", Settled' \subseteq Settled,
             Settled' \subseteq Routed(proc'[p].devs)
      PROVE  OnAfter(p)
  <2> HIDE DEF ds
  <2> QED
    BY <1>1, <1>2, <1>3 DEF OnAfter, HandOn
<1>4. CASE SkipRemoteLease(p, r)
  <2>1. proc'[p].pc = "lease" /\ proc'[p].devs = ds /\ rules' = rules
    BY <1>2, <1>4 DEF SkipRemoteLease, Becomes, Local
  <2>2. Settled' = Settled
    BY <1>1, <2>1 DEF Settled
  <2> HIDE DEF ds
  <2> QED
    BY <1>2, <1>3, <2>1, <2>2
<1>5. CASE UpdateKnown(p, r)
  <2> DEFINE i == proc[p].byMac[r.mac]
             d == [mac |-> r.mac, ip |-> r.ip, vpn |-> ds[i].vpn]
             es == [ds EXCEPT ![i] = d]
  <2>1. i \in DOMAIN ds
    <3>1. i # 0 /\ i \in 0 .. Len(ds)
      BY <1>2, <1>5 DEF UpdateKnown, IndexOK
    <3> HIDE DEF i, ds
    <3> QED
      BY <1>2, <3>1
  <2>2. ds[i] \in Device
    <3> HIDE DEF i, ds
    <3> QED
      BY <1>2, <2>1, RecordAt
  <2>3. d \in Device /\ d.ip = r.ip /\ d.vpn = ds[i].vpn
    <3> HIDE DEF i, ds
    <3> QED
      BY <1>2, <2>2 DEF Device
  <2>4. es = [ds EXCEPT ![i].ip = r.ip, ![i].mac = r.mac]
    BY <1>2, <2>1, <2>2 DEF Device
  <2>5. proc'[p].pc = "lease" /\ proc'[p].devs = es
    BY <1>2, <1>5, <2>4 DEF UpdateKnown, Becomes, Local
  <2>6. IF ds[i].ip # r.ip THEN rules' = rules \ {ds[i].ip} ELSE rules' = rules
    <3>1. IF ds[i].ip # r.ip THEN RuleCommand(rules \ {ds[i].ip})
                             ELSE UNCHANGED <<rules, left>>
      BY <1>5 DEF UpdateKnown
    <3> HIDE DEF i, ds
    <3>2. CASE ds[i].ip # r.ip
      BY <1>2, <3>1, <3>2, CommandWorks
    <3>3. CASE ds[i].ip = r.ip
      BY <3>1, <3>3
    <3> QED
      BY <3>2, <3>3
  <2>8. IF ds[i].ip # r.ip THEN Settled' = Settled \ {ds[i].ip} ELSE Settled' = Settled
    BY <1>1, <2>6 DEF Settled
  <2>7. /\ Routed(ds) \ {ds[i].ip} \subseteq Routed(es)
        /\ r.ip = ds[i].ip => Routed(ds) \subseteq Routed(es)
    <3> HIDE DEF i, ds, d
    <3> QED
      BY <1>2, <2>1, <2>3, ReplaceKeepsOn
  <2> HIDE DEF es, ds, i, d
  <2> QED
    BY <1>2, <1>3, <2>5, <2>7, <2>8
<1>6. CASE AdoptByIp(p, r)
  <2> DEFINE i == proc[p].byIp[r.ip]
             d == [mac |-> r.mac, ip |-> ds[i].ip, vpn |-> ds[i].vpn]
             es == [ds EXCEPT ![i] = d]
  <2>1. i \in DOMAIN ds
    BY <1>2, <1>6 DEF AdoptByIp, IndexOK
  <2>2. ds[i] \in Device
    <3> HIDE DEF i, ds
    <3> QED
      BY <1>2, <2>1, RecordAt
  <2>3. d \in Device /\ d.ip = ds[i].ip /\ d.vpn = ds[i].vpn
    <3> HIDE DEF i, ds
    <3> QED
      BY <1>2, <2>2 DEF Device
  <2>4. es = [ds EXCEPT ![i].mac = r.mac]
    BY <1>2, <2>1, <2>2 DEF Device
  <2>5. proc'[p].pc = "lease" /\ proc'[p].devs = es /\ rules' = rules
    BY <1>2, <1>6, <2>4 DEF AdoptByIp, Becomes, Local
  <2>6. Routed(ds) \subseteq Routed(es)
    <3> HIDE DEF i, ds, d
    <3> QED
      BY <1>2, <2>1, <2>3, ReplaceKeepsOn
  <2> HIDE DEF es, ds, i, d
  <2>7. Settled' = Settled
    BY <1>1, <2>5 DEF Settled
  <2> QED
    BY <1>2, <1>3, <2>5, <2>6, <2>7
<1>7. CASE AppendNew(p, r)
  <2> DEFINE d == [mac |-> r.mac, ip |-> r.ip, vpn |-> FALSE]
             es == Append(ds, d)
  <2>1. proc'[p].pc = "lease" /\ proc'[p].devs = es /\ rules' = rules
    BY <1>2, <1>7 DEF AppendNew, Becomes, Local
  <2>2. d \in Device
    BY <1>2 DEF Device
  <2>3. Routed(ds) \subseteq Routed(es)
    <3> HIDE DEF ds, d
    <3> QED
      BY <1>2, <2>2, AppendKeepsOn
  <2> HIDE DEF es, ds, d
  <2>4. Settled' = Settled
    BY <1>1, <2>1 DEF Settled
  <2> QED
    BY <1>2, <1>3, <2>1, <2>3, <2>4
<1> QED
  BY <1>1, <1>4, <1>5, <1>6, <1>7

\* The list that becomes the file has the rules, and a pass starts from it.
LEMMA SaveOn ==
  ASSUME NEW p \in Everyone, OnBefore(p), SaveSync(p) \/ Save(p)
  PROVE  OnAfter(p)
<1>1. /\ file' = proc[p].devs /\ Settled' = Settled /\ proc[p].pc \in {"lease", "save"}
      /\ proc \in [Everyone -> Local] /\ proc[p] \in Local
  BY OwnFacts DEF SaveSync, Save, At, OnBefore, Settled, panel
<1>2. Settled' \subseteq Routed(file')
  BY <1>1 DEF OnBefore, HandOn
<1>3. proc'[p].pc \in {"find", "unrule", "done"} /\ proc'[p].devs = file'
  <2>1. CASE SaveSync(p)
    <3> DEFINE n == CASE proc[p].req.kind \in {"set", "toggle", "update"} -> "find"
                      [] proc[p].req.kind = "apply" /\ proc[p].devs # <<>> -> "unrule"
                      [] OTHER -> "done"
               l == [proc[p] EXCEPT !.byMac = NoMacs, !.byIp = NoIps, !.seen = Empty,
                       !.at = IF proc[p].req.kind = "apply" THEN 1 ELSE 0, !.pc = n]
    <3>1. Becomes(p, l)
      BY <2>1 DEF SaveSync
    <3>2. n \in {"find", "unrule", "done"}
      OBVIOUS
    <3> HIDE DEF n
    <3>3. l.pc = n /\ l.devs = proc[p].devs
      BY <1>1 DEF Local
    <3> HIDE DEF l
    <3> QED
      BY <1>1, <3>1, <3>2, <3>3 DEF Becomes
  <2>2. CASE Save(p)
    BY <1>1, <2>2 DEF Save, Becomes, Local
  <2> QED
    BY <2>1, <2>2
<1> QED
  BY <1>2, <1>3 DEF OnAfter, HandOn

\* A flag that is set takes away the address of its record, whose rule is next.
LEMMA FindOn ==
  ASSUME NEW p \in Everyone, OnBefore(p), Find(p)
  PROVE  OnAfter(p)
<1> DEFINE ds == proc[p].devs
           i  == FindDevice(ds, proc[p].req.mac)
<1>0. UNCHANGED <<file, rules, unsaved>>
  BY DEF Find, store, panel
<1>1. /\ OwnInv /\ proc[p].pc = "find" /\ UNCHANGED <<file, Settled>>
      /\ Settled \subseteq Routed(ds) /\ Settled \subseteq Routed(file)
      /\ ds \in Seq(Device) /\ i \in 0 .. Len(ds)
      /\ proc \in [Everyone -> Local] /\ proc[p] \in Local /\ proc[p].req \in Request
  BY <1>0, OwnFacts, LocalFacts, FindDeviceFinds
     DEF Find, At, OnBefore, HandOn, Flipping, Settled
<1>2. CASE \E o \in {"failed", "save"} : Becomes(p, [proc[p] EXCEPT !.pc = o])
  <2>1. proc'[p].pc \in {"failed", "save"} /\ proc'[p].devs = ds
    BY <1>1, <1>2 DEF Becomes, Local
  <2> HIDE DEF ds, i
  <2> QED
    BY <1>1, <2>1 DEF OnAfter, HandOn
<1>3. CASE /\ i # 0 /\ proc[p].req.kind = "set"
           /\ Becomes(p, [proc[p] EXCEPT !.devs = [@ EXCEPT ![i].vpn = proc[p].req.vpn],
                                         !.at = i, !.pc = "unrule"])
  <2> DEFINE d == [mac |-> ds[i].mac, ip |-> ds[i].ip, vpn |-> proc[p].req.vpn]
             es == [ds EXCEPT ![i] = d]
  <2>1. i \in DOMAIN ds /\ ds[i] \in Device
    <3> HIDE DEF i, ds
    <3> QED
      BY <1>1, <1>3, RecordAt
  <2>2. d \in Device /\ d.ip = ds[i].ip
    <3>1. proc[p].req.vpn \in BOOLEAN
      BY <1>1 DEF Request
    <3> HIDE DEF i, ds
    <3> QED
      BY <2>1, <3>1 DEF Device
  <2>3. es = [ds EXCEPT ![i].vpn = proc[p].req.vpn]
    BY <1>1, <2>1 DEF Device
  <2>4. /\ proc'[p].pc = "unrule" /\ proc'[p].devs = es /\ proc'[p].at = i
        /\ proc'[p].req.kind = "set"
    BY <1>1, <1>3, <2>3 DEF Becomes, Local
  <2>5. Routed(ds) \ {ds[i].ip} \subseteq Routed(es) /\ es[i].ip = ds[i].ip
    <3> HIDE DEF i, ds, d
    <3> QED
      BY <1>1, <2>1, <2>2, ReplaceKeepsOn, ReplaceRecord
  <2> HIDE DEF es, ds, i, d
  <2> QED
    BY <1>1, <2>4, <2>5 DEF OnAfter, HandOn
<1>4. CASE Becomes(p, [proc[p] EXCEPT !.pc = "load",
                         !.req = [@ EXCEPT !.kind = "set", !.vpn = ~ ds[i].vpn]])
  <2>1. proc'[p].pc = "load"
    BY <1>1, <1>4 DEF Becomes, Local
  <2> QED
    BY <1>1, <2>1 DEF OnAfter, HandOn
<1> QED
  BY <1>2, <1>3, <1>4 DEF Find

\* A rule that is added is that of a record whose VPN is on in the list in hand:
\* a pass holds the file, a set saves what it holds next.
LEMMA RuleOn ==
  ASSUME NEW p \in Everyone, OnBefore(p), DisableRule(p) \/ AddRule(p)
  PROVE  OnAfter(p)
<1> DEFINE ds == proc[p].devs
           n  == proc[p].at
           a  == ds[n].ip
<1>1. /\ OwnInv /\ proc[p].pc \in {"unrule", "rule"} /\ file' = file
      /\ proc \in [Everyone -> Local] /\ proc[p] \in Local
      /\ n \in DOMAIN ds /\ Settled \subseteq Routed(file)
      /\ proc[p].req.kind # "set" => ds = file
      /\ Settled \ {a} \subseteq Routed(ds) /\ unsaved' = unsaved
  BY OwnFacts, LocalFacts
     DEF DisableRule, AddRule, At, store, panel, OnBefore, HandOn, Flipping, LocalInv
<1>2. ASSUME Settled' \subseteq Routed(ds), Settled' \subseteq Settled \cup {a},
             Becomes(p, AfterRule(p, n))
      PROVE  OnAfter(p)
  <2>1. /\ proc'[p].devs = ds /\ proc'[p].req = proc[p].req
        /\ IF proc[p].req.kind = "set" THEN proc'[p].pc = "save"
           ELSE proc'[p].pc \in {"unrule", "done"}
    BY <1>1, <1>2 DEF AfterRule, Becomes, Local
  <2> HIDE DEF ds, n, a
  <2>2. CASE proc[p].req.kind = "set"
    BY <1>2, <2>1, <2>2 DEF OnAfter, HandOn, Flipping
  <2>3. CASE proc[p].req.kind # "set"
    BY <1>1, <1>2, <2>1, <2>3 DEF OnAfter, HandOn
  <2> QED
    BY <2>2, <2>3
<1>3. CASE DisableRule(p)
  <2>1. Settled' = Settled \ {a}
    <3>1. rules' = rules \ {a}
      BY <1>1, <1>3, CommandWorks DEF DisableRule
    <3> HIDE DEF a
    <3> QED
      BY <1>1, <3>1 DEF Settled
  <2>2. CASE ds[n].vpn
    <3>1. /\ proc'[p].pc = "rule" /\ proc'[p].devs = ds /\ proc'[p].at = n
          /\ proc'[p].req = proc[p].req
      BY <1>1, <1>3, <2>2 DEF DisableRule, Becomes, Local
    <3> HIDE DEF ds, n, a
    <3> QED
      BY <1>1, <2>1, <2>2, <3>1 DEF OnAfter, HandOn
  <2>3. CASE ~ ds[n].vpn
    <3>1. Becomes(p, AfterRule(p, n))
      BY <1>3, <2>3 DEF DisableRule
    <3> HIDE DEF ds, n, a
    <3> QED
      BY <1>1, <1>2, <2>1, <3>1
  <2> QED
    BY <2>2, <2>3
<1>4. CASE AddRule(p)
  <2>1. Settled' \subseteq Settled \cup {a} /\ Becomes(p, AfterRule(p, n))
    <3>1. rules' = rules \cup {a} /\ Becomes(p, AfterRule(p, n))
      BY <1>1, <1>4, CommandWorks DEF AddRule
    <3> HIDE DEF a, n
    <3> QED
      BY <1>1, <3>1 DEF Settled
  <2>2. a \in Routed(ds)
    <3>1. ds[n].vpn
      BY <1>4 DEF AddRule, At, OnBefore, HandOn
    <3> HIDE DEF ds, n
    <3> QED
      BY <1>1, <3>1, OnRecord
  <2> HIDE DEF ds, n, a
  <2> QED
    BY <1>1, <1>2, <2>1, <2>2
<1> QED
  BY <1>3, <1>4

\* A set that raises where it saves leaves the rule it added to unsaved; whatever
\* else raises had the rules of the file.
LEMMA RaiseOn ==
  ASSUME NEW p \in Everyone, OnBefore(p), NoPriority(p) \/ SaveFails(p)
  PROVE  OnAfter(p)
<1>1. /\ UNCHANGED <<file, rules>> /\ proc'[p].pc = "failed"
      /\ proc[p].pc \in {"rule", "save", "lease", "writeRemotes"}
  BY OwnFacts, RaiseFacts DEF OnBefore
<1>2. Settled' \subseteq Routed(file)
  <2>1. CASE Flipping(proc[p])
    <3>1. unsaved' = unsaved \cup (Routed(proc[p].devs) \ Routed(file))
      BY <2>1 DEF Flipping, NoPriority, SaveFails, At
    <3>2. Settled \subseteq Routed(proc[p].devs)
      BY <2>1 DEF OnBefore, HandOn, Flipping
    <3> QED
      BY <1>1, <3>1, <3>2 DEF Settled
  <2>2. CASE ~ Flipping(proc[p])
    <3>1. unsaved' = unsaved /\ Settled \subseteq Routed(file)
      BY <2>2 DEF Flipping, NoPriority, SaveFails, At, panel, OnBefore
    <3> QED
      BY <1>1, <3>1 DEF Settled
  <2> QED
    BY <2>1, <2>2
<1> QED
  BY <1>1, <1>2 DEF OnAfter, HandOn

\* Every step of the work of a process.
LEMMA WorkOn ==
  ASSUME NEW p \in Everyone, OnBefore(p), Work(p)
  PROVE  OnAfter(p)
<1>1. ~ (AddDevice(p) \/ ReadRemotes(p) \/ WriteRemotes(p) \/ UnknownRemote(p))
  BY OwnFacts DEF AddDevice, ReadRemotes, WriteRemotes, UnknownRemote, HandOwns, At, OnBefore
<1> QED
  BY <1>1, PlainOn, DropOn, MergeOn, SaveOn, FindOn, RuleOn, RaiseOn DEF Work

-----------------------------------------------------------------------------
\* No address is routed through the VPN for nobody.

\* The strengthening, in service: every list in hand is in order, and so is the
\* file, unless a set is between its rule and its save.
StrayInv ==
  /\ OwnInv /\ StartInv
  /\ mode = "serving" => /\ \A p \in Everyone : HandOn(Settled, file, proc[p])
                         /\ \/ Settled \subseteq Routed(file)
                            \/ \E p \in Everyone : Flipping(proc[p])

\* A process that has no list in hand is in order.
LEMMA RestingOn ==
  ASSUME NEW rs, NEW f, NEW l, l.pc \in {"idle", "wait", "load", "done", "failed"}
  PROVE  HandOn(rs, f, l) /\ ~ Flipping(l)
  BY DEF HandOn, Flipping

\* Whoever moves without work takes a state without a list.
LEMMA LoopHands ==
  ASSUME QuietRequests, StrayInv, [Next]_vars, ~ \E p \in Everyone : Work(p)
  PROVE  /\ file' = file /\ rules' \subseteq rules
         /\ unsaved' = unsaved \/ mode' = "starting"
         /\ \A p \in Everyone :
              \/ proc'[p] = proc[p]
              \/ proc'[p].pc \in {"idle", "wait", "load"} /\ proc[p].pc # "save"
              \/ mode' = "down"
<1>1. /\ proc \in [Everyone -> Local] /\ Main \in Everyone /\ Main \notin Procs
      /\ \A p \in Procs : p \in Everyone
  BY ConstantsAssumption DEF StrayInv, OwnInv, OneInv, Inv, TypeOK, Everyone
<1>2. Idle.pc = "idle" /\ \A k : Started(k).pc = "load"
  BY DEF Idle, Started
<1>3. CASE \E p \in Procs : \E r \in Requests : Accept(p, r)
  <2>1. PICK p \in Procs, r \in Requests : Accept(p, r)
    BY <1>3
  <2> DEFINE n == CASE r.kind \in DeviceKinds -> "wait"
                    [] r.kind \in RemoteKinds -> "readRemotes"
                    [] OTHER -> "done"
             l == [Idle EXCEPT !.req = r, !.pc = n]
  <2>2. n = "wait"
    BY DEF QuietRequests, DeviceKinds, SyncKinds, RemoteKinds, PurgeKinds
  <2>3. Becomes(p, l) /\ UNCHANGED <<file, rules, unsaved>> /\ proc[p].pc = "idle"
    BY <2>1 DEF Accept, store, At
  <2> HIDE DEF n
  <2>4. l.pc = n
    BY DEF Idle
  <2> HIDE DEF l
  <2> QED
    BY <1>1, <2>2, <2>3, <2>4 DEF Becomes
<1>4. CASE \E p \in Procs : Dispatch(p)
  <2>1. PICK p \in Procs : Dispatch(p)
    BY <1>4
  <2> DEFINE l == [proc[p] EXCEPT !.pc = "load"]
  <2>2. Becomes(p, l) /\ UNCHANGED <<file, rules, unsaved>> /\ proc[p].pc = "wait"
    BY <2>1 DEF Dispatch, store, panel, At
  <2>3. l.pc = "load"
    BY <1>1 DEF Local
  <2> HIDE DEF l
  <2> QED
    BY <1>1, <2>2, <2>3 DEF Becomes
<1>5. CASE \E p \in Procs : Finish(p)
  <2>1. PICK p \in Procs : Finish(p)
    BY <1>5
  <2>2. /\ proc'[p] = Idle /\ proc'[Main] \in {Started("sync"), proc[Main]}
        /\ \A q \in Everyone \ {p, Main} : proc'[q] = proc[q]
        /\ UNCHANGED <<file, rules, unsaved>>
        /\ proc[p].pc \in {"done", "failed"} /\ proc[Main].pc = "idle"
    BY <1>1, <2>1 DEF Finish, store, At
  <2> QED
    BY <1>1, <1>2, <2>2
<1>6. CASE FinishMain
  <2>1. /\ proc'[Main] = Idle /\ UNCHANGED <<file, rules, unsaved>>
        /\ proc[Main].pc \in {"done", "failed"}
        /\ \A q \in Everyone \ {Main} : proc'[q] = proc[q]
    BY <1>1, <1>6 DEF FinishMain, Becomes, store, At
  <2> QED
    BY <1>1, <1>2, <2>1
<1>7. CASE Crash
  BY <1>7 DEF Crash, store
<1>8. CASE Restart
  <2>1. mode = "down" /\ mode' = "starting" /\ UNCHANGED <<file, rules>>
    BY <1>8 DEF Restart, store
  <2>2. proc'[Main].pc = "load" /\ \A q \in Everyone \ {Main} : proc'[q] = proc[q]
    BY <1>1, <1>2, <1>8 DEF Restart, Becomes
  <2>3. proc[Main].pc # "save"
    BY <1>1, <2>1 DEF StrayInv, OwnInv, OneInv, At
  <2> QED
    BY <2>1, <2>2, <2>3
<1>9. CASE DhcpChange \/ UNCHANGED vars
  BY <1>9 DEF DhcpChange, vars, panel
<1> QED
  BY <1>3, <1>4, <1>5, <1>6, <1>7, <1>8, <1>9 DEF Next

\* The startup hook opens the panel on rules that are all of records with the VPN
\* on: its pass decided on every address the file has, and the rules have no other.
LEMMA OpenedOn ==
  ASSUME StrayInv, mode = "starting", At(Main, "done")
  PROVE  rules \subseteq Routed(file)
<1>1. file \in Seq(Device) /\ rules \subseteq Addresses(file)
  BY DEF StrayInv, OwnInv, StartInv, Inv, TypeOK
<1>2. Passed(rules, file, Len(file))
  BY DEF StrayInv, StartInv, Passing, At
<1> QED
  BY <1>1, <1>2, MatchesOn

\* Every step keeps it.
LEMMA StrayStep ==
  ASSUME QuietRequests, StrayInv, [Next]_vars
  PROVE  StrayInv'
<1>1. OwnInv' /\ StartInv' /\ OwnInv /\ StartInv
  BY OwnStep, StartStep DEF StrayInv
<1> SUFFICES ASSUME mode' = "serving"
             PROVE  /\ \A p \in Everyone : HandOn(Settled', file', proc'[p])
                    /\ \/ Settled' \subseteq Routed(file')
                       \/ \E p \in Everyone : Flipping(proc'[p])
  BY <1>1 DEF StrayInv
<1>2. ASSUME NEW p \in Everyone, Work(p)
      PROVE  /\ \A q \in Everyone : HandOn(Settled', file', proc'[q])
             /\ \/ Settled' \subseteq Routed(file')
                \/ \E q \in Everyone : Flipping(proc'[q])
  <2>1. mode = "serving" /\ \A q \in Everyone \ {p} : proc'[q] = proc[q]
    BY <1>1, <1>2, OwnFacts, WorkEffect DEF Effect
  <2>2. Working(p)
    BY <1>2 DEF Working, Work, At, Load, ReadInputs, DropRemote, BuildIndexes, MergeLease,
       NextLease, SaveSync, Find, DisableRule, AddRule, NoPriority, AddDevice, PurgeOne,
       PurgeEnd, Save, SaveFails, ReadRemotes, WriteRemotes, UnknownRemote
  <2>3. \A q \in Everyone \ {p} : proc[q].pc \in {"idle", "wait", "done", "failed"}
    BY <1>1, <2>2, OneInvOne DEF OwnInv, OneAtATime, Working
  <2>4. OnBefore(p)
    BY <2>1, <2>3, RestingOn DEF StrayInv, OnBefore
  <2>5. OnAfter(p)
    BY <1>2, <2>4, WorkOn
  <2>6. \A q \in Everyone \ {p} : HandOn(Settled', file', proc'[q])
    BY <2>1, <2>3, RestingOn
  <2> QED
    BY <2>5, <2>6 DEF OnAfter
<1>3. CASE ~ \E p \in Everyone : Work(p)
  <2>1. /\ file' = file /\ rules' \subseteq rules /\ unsaved' = unsaved
        /\ \A p \in Everyone :
             \/ proc'[p] = proc[p]
             \/ proc'[p].pc \in {"idle", "wait", "load"} /\ proc[p].pc # "save"
    BY <1>3, LoopHands
  <2>4. Settled' \subseteq Settled
    BY <2>1 DEF Settled
  <2>2. CASE mode = "serving"
    <3>1. ASSUME NEW p \in Everyone
          PROVE  HandOn(Settled', file', proc'[p])
      <4>1. CASE proc'[p] = proc[p]
        BY <2>1, <2>2, <2>4, <4>1 DEF StrayInv, HandOn
      <4>2. CASE proc'[p].pc \in {"idle", "wait", "load"}
        BY <4>2, RestingOn
      <4> QED
        BY <2>1, <4>1, <4>2
    <3>2. \A p \in Everyone : Flipping(proc[p]) => Flipping(proc'[p])
      BY <2>1 DEF Flipping
    <3> QED
      BY <2>1, <2>2, <2>4, <3>1, <3>2 DEF StrayInv
  <2>3. CASE mode # "serving"
    <3>1. FinishMain
      BY <1>1, <1>3, <2>3 DEF Next, Accept, Dispatch, Finish, DhcpChange, Crash, Restart,
         vars, panel
    <3>2. mode = "starting" /\ At(Main, "done")
      <4>1. /\ proc[Main].pc \in {"done", "failed"} /\ mode \in {"down", "starting", "serving"}
            /\ ~ (mode = "starting" /\ At(Main, "failed"))
        BY <1>1, <3>1 DEF FinishMain, OwnInv, OneInv, Inv, TypeOK
      <4>2. mode # "down"
        BY <1>1, <4>1 DEF OwnInv, OneInv, At, Everyone
      <4> QED
        BY <2>3, <4>1, <4>2 DEF At
    <3>3. Settled \subseteq Routed(file)
      BY <3>2, OpenedOn DEF Settled
    <3>4. \A p \in Everyone : proc'[p].pc = "idle"
      <4>1. /\ proc'[Main].pc = "idle"
            /\ \A p \in Everyone \ {Main} : proc'[p] = proc[p] /\ p \in Procs
        BY <1>1, <3>1, OwnFacts DEF FinishMain, Becomes, Everyone, Idle, OwnInv, OneInv,
           Inv, TypeOK
      <4> QED
        BY <1>1, <2>3, <4>1 DEF StartInv, At
    <3> QED
      BY <2>1, <2>4, <3>3, <3>4, RestingOn
  <2> QED
    BY <2>2, <2>3
<1> QED
  BY <1>2, <1>3

\* When nothing is in flight an address routed through the VPN is that of a device
\* whose VPN is on, or one a set added before its save failed, whatever crashed or
\* raised half-way before, for any devices and number of requests, as long as every
\* rule command works and nobody adds a device.
THEOREM NoRuleStrays ==
  ASSUME QuietRequests, NoFaults
  PROVE  Spec => []NoStrayRule
<1>1. Init => StrayInv
  <2> SUFFICES ASSUME Init PROVE StrayInv
    OBVIOUS
  <2>1. Idle.pc = "idle" /\ \A p \in Everyone : proc[p] = Idle
    BY DEF Idle, Init
  <2>2. StartInv
    BY <2>1, InitInv DEF Init, NoFaults, StartInv, At, Everyone
  <2> QED
    BY <2>2, OwnInit DEF Init, StrayInv
<1>2. StrayInv /\ [Next]_vars => StrayInv'
  BY StrayStep
<1>3. StrayInv => NoStrayRule
  <2> SUFFICES ASSUME StrayInv, AtRest, NEW a \in rules
               PROVE  a \in Routed(file) \cup unsaved
    BY DEF NoStrayRule
  <2>1. \A p \in Everyone : ~ Flipping(proc[p])
    BY RestingOn DEF AtRest, At
  <2>2. Settled \subseteq Routed(file)
    BY <2>1 DEF StrayInv, AtRest
  <2> QED
    BY <2>2 DEF Settled
<1> QED
  BY <1>1, <1>2, <1>3, PTL DEF Spec

=============================================================================
