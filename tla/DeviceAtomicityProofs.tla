------------------------ MODULE DeviceAtomicityProofs ------------------------
(***************************************************************************)
(* DevicePanel implements DeviceRegister: when only device requests come   *)
(* in and no address is shared by two MACs, every operation takes effect   *)
(* at one instant, on the record it was asked about and on no other. The   *)
(* two conditions are those of the run "devices"; without the first an     *)
(* unlocked refresh undoes updates, without the second a lease hands a     *)
(* record, VPN flag included, to another device.                           *)
(***************************************************************************)
EXTENDS DevicePanelProofs

\* Only device requests come in, and every address in a lease, in the file the
\* host boots with or in an add_device is one of the same MAC.
DevicesOnly == \A r \in Requests : r.kind \in DeviceKinds

OwnedBy(own, list) == \A i \in DOMAIN list : own[list[i].ip] = list[i].mac

AddressesOwned(own) ==
  /\ \A ls \in LeaseFiles : OwnedBy(own, ls)
  /\ \A ds \in InitialFiles : OwnedBy(own, ds)
  /\ \A r \in Requests : r.kind = "add" => own[r.ip] = r.mac

-----------------------------------------------------------------------------
\* What one operation makes of the list f it loaded.

\* A merge, an update or an add: the records stay where they are and keep their
\* MAC and flag, and new ones come at the end, with the VPN off.
Grown(f, d) ==
  /\ Len(f) <= Len(d)
  /\ \A n \in DOMAIN d :
       IF n <= Len(f) THEN d[n].mac = f[n].mac /\ d[n].vpn = f[n].vpn ELSE ~ d[n].vpn

\* set_device_vpn: the flag of record k.
Switched(f, d, k, v) ==
  /\ k \in DOMAIN f /\ DOMAIN d = DOMAIN f
  /\ d[k] = [mac |-> f[k].mac, ip |-> f[k].ip, vpn |-> v]
  /\ \A n \in DOMAIN f \ {k} : d[n] = f[n]

\* The indexes of a merge name records: that of the MAC, and one of the MAC that
\* owns the address.
IndexOwned(own, l) ==
  /\ \A m \in Macs : l.byMac[m] # 0 => /\ l.byMac[m] \in DOMAIN l.devs
                                       /\ m = l.devs[l.byMac[m]].mac
  /\ \A i \in Ips : l.byIp[i] # 0 => /\ l.byIp[i] \in DOMAIN l.devs
                                     /\ own[i] = l.devs[l.byIp[i]].mac

\* What a process at work holds, compared with the file as it is now.
InHand(own, f, l) ==
  LET kind == l.req.kind IN
  /\ kind \in DeviceKinds /\ l.seen = Empty
  /\ l.pc \notin {"readRemotes", "writeRemotes"}
  /\ OwnedBy(own, l.devs) /\ OwnedBy(own, l.todo)
  /\ kind = "add" => own[l.req.ip] = l.req.mac
  /\ l.pc \in {"idle", "wait", "load"} => l.at = 0
  /\ l.pc \in {"read", "filter", "lease", "find"} => kind \in SyncKinds /\ l.at = 0
  /\ l.pc = "lease" => Grown(f, l.devs) /\ IndexOwned(own, l)
  /\ l.pc \in {"read", "filter", "find", "add"} => l.devs = f
  /\ l.pc = "add" => kind = "add"
  /\ l.pc = "purge" => kind = "delete"
  /\ l.pc = "purge" /\ l.at = 0 => l.devs = f
  /\ (l.pc = "purge" /\ l.at # 0) \/ (l.pc = "save" /\ kind = "delete") =>
       \E k \in DOMAIN f : f[k].mac = l.req.mac /\ l.devs = RemoveAt(f, k)
  /\ l.pc \in {"unrule", "rule", "save"} /\ kind = "set" =>
       \E k \in DOMAIN f : f[k].mac = l.req.mac /\ Switched(f, l.devs, k, l.req.vpn)
  /\ l.pc \in {"unrule", "rule"} => kind \in {"set", "apply"}
  /\ l.pc = "save" => kind \in {"set", "update", "add", "delete"}
  /\ l.pc = "save" /\ kind \in {"update", "add"} => Grown(f, l.devs)

\* The strengthening: one at work, and what it holds is right for the file.
AtomInv(own) ==
  /\ OneInv /\ remotes = Empty /\ OwnedBy(own, file)
  /\ proc[Main].req.kind \in {"list", "sync", "apply"}
  /\ \A p \in Everyone : InHand(own, file, proc[p])

-----------------------------------------------------------------------------
\* The lookups and lists of an operation.

\* An index that is not 0 is that of a record with the MAC, or with the address.
LEMMA IndexFinds ==
  ASSUME NEW ds \in Seq(Device)
  PROVE  /\ \A m \in Macs : MacIndex(ds)[m] # 0 =>
              MacIndex(ds)[m] \in DOMAIN ds /\ ds[MacIndex(ds)[m]].mac = m
         /\ \A a \in Ips : IpIndex(ds)[a] # 0 =>
              IpIndex(ds)[a] \in DOMAIN ds /\ ds[IpIndex(ds)[a]].ip = a
<1> DEFINE M(m) == {i \in 1 .. Len(ds) : ds[i].mac = m}
           A(a) == {i \in 1 .. Len(ds) : ds[i].ip = a}
<1>1. Len(ds) \in Nat /\ DOMAIN ds = 1 .. Len(ds)
  OBVIOUS
<1>2. ASSUME NEW m \in Macs, MacIndex(ds)[m] # 0
      PROVE  MacIndex(ds)[m] \in M(m)
  <2>1. MacIndex(ds)[m] = IF M(m) # {} THEN Max(M(m)) ELSE 0
    BY DEF MacIndex, SelectLastInSeq
  <2> QED
    BY <1>1, <1>2, <2>1, MaxPosition
<1>3. ASSUME NEW a \in Ips, IpIndex(ds)[a] # 0
      PROVE  IpIndex(ds)[a] \in A(a)
  <2>1. IpIndex(ds)[a] = IF A(a) # {} THEN Max(A(a)) ELSE 0
    BY DEF IpIndex, SelectLastInSeq
  <2> QED
    BY <1>1, <1>3, <2>1, MaxPosition
<1> QED
  BY <1>1, <1>2, <1>3

\* With every record of f as it is, d has grown from f.
LEMMA GrownSelf == ASSUME NEW f \in Seq(Device) PROVE Grown(f, f)
<1>1. Len(f) \in Nat /\ DOMAIN f = 1 .. Len(f)
  OBVIOUS
<1> QED
  BY <1>1 DEF Grown

\* A record that is dropped is gone, and the others keep their addresses.
LEMMA DroppedGone ==
  ASSUME NEW f \in Seq(Device), DistinctMacs(f), NEW k \in DOMAIN f
  PROVE  /\ DOMAIN RemoveAt(f, k) = 1 .. Len(f) - 1
         /\ \A i \in DOMAIN RemoveAt(f, k) :
              \E j \in DOMAIN f \ {k} : RemoveAt(f, k)[i] = f[j]
         /\ \A j \in DOMAIN f \ {k} :
              \E i \in DOMAIN RemoveAt(f, k) : RemoveAt(f, k)[i] = f[j]
         /\ \A i \in DOMAIN RemoveAt(f, k) : RemoveAt(f, k)[i].mac # f[k].mac
<1> DEFINE d == RemoveAt(f, k)
<1>1. /\ d \in Seq(Device) /\ Len(d) = Len(f) - 1
      /\ \A i \in 1 .. Len(f) - 1 : d[i] = f[IF i < k THEN i ELSE i + 1]
  BY RemoveDistinct
<1>2. Len(f) \in Nat /\ DOMAIN f = 1 .. Len(f) /\ k \in 1 .. Len(f)
  OBVIOUS
<1> HIDE DEF d
<1>3. DOMAIN d = 1 .. Len(f) - 1
  BY <1>1
<1>4. ASSUME NEW i \in DOMAIN d
      PROVE  \E j \in DOMAIN f \ {k} : d[i] = f[j]
  <2>1. (IF i < k THEN i ELSE i + 1) \in DOMAIN f \ {k}
    BY <1>2, <1>3
  <2> QED
    BY <1>1, <1>3, <2>1
<1>5. ASSUME NEW j \in DOMAIN f \ {k}
      PROVE  \E i \in DOMAIN d : d[i] = f[j]
  <2> DEFINE i == IF j < k THEN j ELSE j - 1
  <2>1. i \in 1 .. Len(f) - 1 /\ (IF i < k THEN i ELSE i + 1) = j
    BY <1>2
  <2> HIDE DEF i
  <2> QED
    BY <1>1, <1>3, <2>1
<1>6. \A i \in DOMAIN d : d[i].mac # f[k].mac
  BY <1>4 DEF DistinctMacs
<1> QED
  BY <1>3, <1>4, <1>5, <1>6 DEF d

-----------------------------------------------------------------------------
\* The steps of the work of a process.

\* What p may have done to the file in one step.
Lands(p) ==
  \/ UNCHANGED file
  \/ /\ file' = proc[p].devs /\ Working(p)
     /\ \/ Grown(file, file')
        \/ /\ At(p, "save") /\ proc[p].req.kind = "set"
           /\ \E k \in DOMAIN file : /\ file[k].mac = proc[p].req.mac
                                     /\ Switched(file, file', k, proc[p].req.vpn)
        \/ /\ At(p, "save") /\ proc[p].req.kind = "delete"
           /\ \E k \in DOMAIN file : /\ file[k].mac = proc[p].req.mac
                                     /\ file' = RemoveAt(file, k)

\* What the proofs of the steps start from.
LEMMA HandFacts ==
  ASSUME NEW own, AtomInv(own), NEW p \in Everyone
  PROVE  /\ Inv /\ remotes = Empty /\ RemoteMacs(Empty) = {}
         /\ file \in Seq(Device) /\ DistinctMacs(file) /\ OwnedBy(own, file)
         /\ InHand(own, file, proc[p])
<1>1. RemoteMacs(Empty) = {}
  BY DEF RemoteMacs, Empty
<1> QED
  BY <1>1 DEF AtomInv, OneInv, Inv, TypeOK, ListsConsistent

\* A process that took the local state l.
LEMMA HandStep ==
  ASSUME Inv, NEW p \in Everyone, NEW l, Becomes(p, l)
  PROVE  proc'[p] = l
  BY LocalFacts DEF Becomes

\* Loading takes the file as it is.
LEMMA LoadHand ==
  ASSUME NEW own, AtomInv(own), NEW p \in Everyone, Load(p)
  PROVE  InHand(own, file', proc'[p]) /\ Lands(p)
<1> DEFINE n == CASE proc[p].req.kind \in SyncKinds -> "read"
                  [] proc[p].req.kind = "add" -> "add"
                  [] OTHER -> "purge"
           l == [proc[p] EXCEPT !.devs = file, !.pc = n]
<1>1. Becomes(p, l) /\ At(p, "load") /\ file' = file
  BY DEF Load, store
<1>2. \/ n = "read" /\ proc[p].req.kind \in SyncKinds
      \/ n = "add" /\ proc[p].req.kind = "add"
      \/ n = "purge" /\ proc[p].req.kind = "delete"
  BY HandFacts DEF InHand, DeviceKinds, SyncKinds
<1> HIDE DEF n
<1>3. /\ l.pc = n /\ l.devs = file /\ l.req = proc[p].req /\ l.todo = proc[p].todo
      /\ l.seen = proc[p].seen /\ l.at = proc[p].at
  BY HandFacts, LocalFacts DEF Local
<1>4. proc'[p] = l
  BY <1>1, HandFacts, HandStep
<1> HIDE DEF l
<1>5. InHand(own, file, l)
  BY <1>1, <1>2, <1>3, HandFacts DEF InHand, At
<1> QED
  BY <1>1, <1>4, <1>5 DEF Lands

\* The leases that are read give every address to its owner.
LEMMA ReadHand ==
  ASSUME NEW own, AddressesOwned(own), AtomInv(own), NEW p \in Everyone, ReadInputs(p)
  PROVE  InHand(own, file', proc'[p]) /\ Lands(p)
<1> DEFINE l == [proc[p] EXCEPT !.todo = leases, !.seen = remotes, !.pc = "filter"]
<1>1. Becomes(p, l) /\ At(p, "read") /\ file' = file
  BY DEF ReadInputs, store
<1>2. /\ l.pc = "filter" /\ l.devs = proc[p].devs /\ l.req = proc[p].req
      /\ l.todo = leases /\ l.seen = remotes /\ l.at = proc[p].at
  BY HandFacts, LocalFacts DEF Local
<1>3. proc'[p] = l
  BY <1>1, HandFacts, HandStep
<1>4. OwnedBy(own, leases)
  BY HandFacts DEF AddressesOwned, Inv, TypeOK
<1> HIDE DEF l
<1>5. InHand(own, file, l)
  BY <1>1, <1>2, <1>4, HandFacts DEF InHand, At
<1> QED
  BY <1>1, <1>3, <1>5 DEF Lands

\* No record is that of a remote, so the indexes are built over the file.
LEMMA FilterHand ==
  ASSUME NEW own, AtomInv(own), NEW p \in Everyone, DropRemote(p) \/ BuildIndexes(p)
  PROVE  InHand(own, file', proc'[p]) /\ Lands(p)
<1> DEFINE ds == proc[p].devs
           l  == [proc[p] EXCEPT !.byMac = MacIndex(ds), !.byIp = IpIndex(ds),
                                 !.pc = "lease"]
<1>1. ~ DropRemote(p)
  BY HandFacts DEF DropRemote, InHand
<1>2. Becomes(p, l) /\ At(p, "filter") /\ file' = file
  BY <1>1 DEF BuildIndexes, store
<1>3. /\ l.pc = "lease" /\ l.devs = ds /\ l.req = proc[p].req
      /\ l.todo = proc[p].todo /\ l.seen = proc[p].seen /\ l.at = proc[p].at
      /\ l.byMac = MacIndex(ds) /\ l.byIp = IpIndex(ds)
  BY HandFacts, LocalFacts DEF Local
<1>4. proc'[p] = l
  BY <1>2, HandFacts, HandStep
<1>5. ds = file /\ ds \in Seq(Device)
  BY <1>2, HandFacts DEF InHand, At
<1> HIDE DEF l, ds
<1>6. IndexOwned(own, l)
  BY <1>3, <1>5, IndexFinds, HandFacts DEF IndexOwned, OwnedBy
<1>7. InHand(own, file, l)
  BY <1>2, <1>3, <1>5, <1>6, GrownSelf, HandFacts DEF InHand, At, ds
<1> QED
  BY <1>2, <1>4, <1>7 DEF Lands

\* A record that follows its lease keeps its place, its MAC and its flag.
LEMMA UpdateKnownHand ==
  ASSUME NEW own, AtomInv(own), NEW p \in Everyone, NEW r \in Lease, NextLease(p, r),
         UpdateKnown(p, r), file' = file
  PROVE  InHand(own, file', proc'[p])
<1> DEFINE ds == proc[p].devs
           i  == proc[p].byMac[r.mac]
           d  == [mac |-> r.mac, ip |-> r.ip, vpn |-> ds[i].vpn]
           es == [ds EXCEPT ![i] = d]
           tl == Tail(proc[p].todo)
           l  == [proc[p] EXCEPT !.devs = es, !.todo = tl]
<1>1. /\ At(p, "lease") /\ i # 0
      /\ Becomes(p, [proc[p] EXCEPT
           !.devs = [@ EXCEPT ![i].ip = r.ip, ![i].mac = r.mac], !.todo = Tail(@)])
  BY DEF UpdateKnown, NextLease
<1>2. /\ r.mac \in Macs /\ r.ip \in Ips /\ ds \in Seq(Device)
      /\ Grown(file, ds) /\ IndexOwned(own, proc[p]) /\ OwnedBy(own, ds)
      /\ OwnedBy(own, proc[p].todo)
  BY <1>1, HandFacts, LocalFacts DEF InHand, At, Lease
<1>3. i \in DOMAIN ds /\ ds[i].mac = r.mac
  BY <1>1, <1>2 DEF IndexOwned
<1>4. ds[i] \in Device /\ d \in Device
  <2>1. ds[i] \in Device
    <3> HIDE DEF i, ds
    <3> QED
      BY <1>2, <1>3, RecordAt
  <2> HIDE DEF i, ds
  <2> QED
    BY <1>2, <2>1 DEF Device
<1>5. Becomes(p, l)
  <2>1. es = [ds EXCEPT ![i].ip = r.ip, ![i].mac = r.mac]
    BY <1>3, <1>4, <1>2 DEF Device
  <2> QED
    BY <1>1, <2>1
<1>6. /\ es \in Seq(Device) /\ DOMAIN es = DOMAIN ds /\ Len(es) = Len(ds)
      /\ es[i] = d /\ \A j \in DOMAIN ds \ {i} : es[j] = ds[j]
  <2> HIDE DEF i, d, ds
  <2> QED
    BY <1>2, <1>3, <1>4, ReplaceRecord
<1>7. own[r.ip] = r.mac /\ OwnedBy(own, tl)
  <2>1. /\ proc[p].todo \in Seq(Lease) /\ proc[p].todo # <<>> /\ r = Head(proc[p].todo)
    BY LocalFacts, HandFacts DEF NextLease
  <2> QED
    BY <1>2, <2>1, HeadTailProperties DEF OwnedBy
<1>8. \A j \in DOMAIN ds : es[j].mac = ds[j].mac /\ es[j].vpn = ds[j].vpn
  BY <1>3, <1>6
<1>9. OwnedBy(own, es) /\ Grown(file, es)
  BY <1>2, <1>6, <1>7, <1>8 DEF OwnedBy, Grown
<1>10. proc'[p] = l
  BY <1>5, HandFacts, HandStep
<1> HIDE DEF es, tl
<1>11. /\ l.pc = "lease" /\ l.devs = es /\ l.req = proc[p].req
       /\ l.todo = tl /\ l.seen = proc[p].seen /\ l.at = proc[p].at
       /\ l.byMac = proc[p].byMac /\ l.byIp = proc[p].byIp
  BY <1>1, HandFacts, LocalFacts DEF Local, At
<1>12. IndexOwned(own, l)
  BY <1>2, <1>6, <1>8, <1>11 DEF IndexOwned
<1> HIDE DEF l, ds, i, d
<1>13. InHand(own, file, l)
  BY <1>1, <1>7, <1>9, <1>11, <1>12, HandFacts DEF InHand, At
<1> QED
  BY <1>10, <1>13

\* A new record comes last, with the VPN off.
LEMMA AppendNewHand ==
  ASSUME NEW own, AtomInv(own), NEW p \in Everyone, NEW r \in Lease, NextLease(p, r),
         AppendNew(p, r), file' = file
  PROVE  InHand(own, file', proc'[p])
<1> DEFINE ds == proc[p].devs
           n  == Len(ds) + 1
           d  == [mac |-> r.mac, ip |-> r.ip, vpn |-> FALSE]
           es == Append(ds, d)
           bm == [proc[p].byMac EXCEPT ![r.mac] = n]
           bi == [proc[p].byIp EXCEPT ![r.ip] = n]
           tl == Tail(proc[p].todo)
           l  == [proc[p] EXCEPT !.devs = es, !.byMac = bm, !.byIp = bi,
                                 !.todo = tl]
<1>1. /\ At(p, "lease") /\ Becomes(p, l)
  BY DEF AppendNew, NextLease
<1>2. /\ r.mac \in Macs /\ r.ip \in Ips /\ d \in Device /\ ds \in Seq(Device)
      /\ Grown(file, ds) /\ IndexOwned(own, proc[p]) /\ OwnedBy(own, ds)
      /\ OwnedBy(own, proc[p].todo)
      /\ proc[p].byMac \in [Macs -> Nat] /\ proc[p].byIp \in [Ips -> Nat]
  BY <1>1, HandFacts, LocalFacts DEF InHand, At, Lease, Device
<1>3. /\ Len(es) = n /\ DOMAIN es = 1 .. n /\ es[n] = d
      /\ \A j \in 1 .. Len(ds) : es[j] = ds[j]
  <2> HIDE DEF ds, d
  <2> QED
    BY <1>2, AppendProperties
<1>4. /\ Len(ds) \in Nat /\ DOMAIN ds = 1 .. Len(ds) /\ Len(file) \in Nat
      /\ d.mac = r.mac /\ d.ip = r.ip /\ d.vpn = FALSE
  <2>1. file \in Seq(Device)
    BY HandFacts
  <2> QED
    BY <1>2, <2>1
<1>5. own[r.ip] = r.mac /\ OwnedBy(own, tl)
  <2>1. /\ proc[p].todo \in Seq(Lease) /\ proc[p].todo # <<>> /\ r = Head(proc[p].todo)
    BY LocalFacts, HandFacts DEF NextLease
  <2> QED
    BY <1>2, <2>1, HeadTailProperties DEF OwnedBy
<1>6. /\ bm[r.mac] = n /\ \A m \in Macs \ {r.mac} : bm[m] = proc[p].byMac[m]
      /\ bi[r.ip] = n /\ \A a \in Ips \ {r.ip} : bi[a] = proc[p].byIp[a]
  BY <1>2
<1>7. proc'[p] = l
  BY <1>1, HandFacts, HandStep
<1> HIDE DEF es, tl, bm, bi, d
<1>8. /\ l.pc = "lease" /\ l.devs = es /\ l.req = proc[p].req
      /\ l.todo = tl /\ l.seen = proc[p].seen /\ l.at = proc[p].at
      /\ l.byMac = bm /\ l.byIp = bi
  BY <1>1, HandFacts, LocalFacts DEF Local, At
<1> HIDE DEF l, ds
<1>9. OwnedBy(own, es)
  BY <1>2, <1>3, <1>4, <1>5 DEF OwnedBy
<1>10. Grown(file, es)
  BY <1>2, <1>3, <1>4 DEF Grown
<1>11. IndexOwned(own, l)
  <2>1. \A m \in Macs : bm[m] # 0 => bm[m] \in DOMAIN es /\ m = es[bm[m]].mac
    BY <1>2, <1>3, <1>4, <1>6 DEF IndexOwned, ds
  <2>2. \A a \in Ips : bi[a] # 0 => bi[a] \in DOMAIN es /\ own[a] = es[bi[a]].mac
    <3>1. bi[r.ip] \in DOMAIN es /\ own[r.ip] = es[bi[r.ip]].mac
      BY <1>3, <1>4, <1>5, <1>6
    <3>2. ASSUME NEW a \in Ips \ {r.ip}, bi[a] # 0
          PROVE  bi[a] \in DOMAIN es /\ own[a] = es[bi[a]].mac
      <4>1. bi[a] \in 1 .. Len(ds) /\ own[a] = ds[bi[a]].mac
        BY <1>2, <1>4, <1>6, <3>2 DEF IndexOwned, ds
      <4> QED
        BY <1>3, <1>4, <4>1
    <3> QED
      BY <3>1, <3>2
  <2> QED
    BY <1>8, <2>1, <2>2 DEF IndexOwned
<1>12. InHand(own, file, l)
  BY <1>1, <1>5, <1>8, <1>9, <1>10, <1>11, HandFacts DEF InHand, At
<1> QED
  BY <1>7, <1>12

\* An address is known only with its owner: no record changes hands.
LEMMA MergeHand ==
  ASSUME NEW own, AtomInv(own), NEW p \in Everyone, MergeLease(p)
  PROVE  InHand(own, file', proc'[p]) /\ Lands(p)
<1>1. PICK r \in Lease : /\ NextLease(p, r) /\ file' = file
                         /\ \/ SkipRemoteLease(p, r) \/ UpdateKnown(p, r)
                            \/ AdoptByIp(p, r) \/ AppendNew(p, r)
  BY DEF MergeLease, store
<1>2. ~ SkipRemoteLease(p, r)
  BY HandFacts DEF SkipRemoteLease, InHand
<1>3. ~ AdoptByIp(p, r)
  <2> SUFFICES ASSUME AdoptByIp(p, r) PROVE FALSE
    OBVIOUS
  <2> DEFINE i == proc[p].byIp[r.ip]
  <2>1. /\ At(p, "lease") /\ i # 0 /\ proc[p].byMac[r.mac] = 0
        /\ r.mac \in Macs /\ r.ip \in Ips
    BY <1>1 DEF AdoptByIp, NextLease, Lease
  <2>2. own[r.ip] = r.mac
    <3>1. /\ proc[p].todo \in Seq(Lease) /\ proc[p].todo # <<>> /\ r = Head(proc[p].todo)
      BY <1>1, LocalFacts, HandFacts DEF NextLease
    <3> QED
      BY <3>1, HandFacts, HeadTailProperties DEF InHand, OwnedBy
  <2>3. i \in DOMAIN proc[p].devs /\ proc[p].devs[i].mac = r.mac
    BY <2>1, <2>2, HandFacts DEF InHand, IndexOwned, At
  <2>4. proc[p].byMac[r.mac] = i
    BY <2>1, <2>3, HandFacts, LocalFacts DEF LocalInv, IndexOK, At
  <2> QED
    BY <2>1, <2>4
<1> QED
  BY <1>1, <1>2, <1>3, UpdateKnownHand, AppendNewHand DEF Lands

\* The merged list lands, and the operation goes on with it.
LEMMA SaveSyncHand ==
  ASSUME NEW own, AtomInv(own), NEW p \in Everyone, SaveSync(p)
  PROVE  InHand(own, file', proc'[p]) /\ OwnedBy(own, file') /\ Lands(p)
<1> DEFINE at0 == IF proc[p].req.kind = "apply" THEN 1 ELSE 0
           n == CASE proc[p].req.kind \in {"set", "toggle", "update"} -> "find"
                  [] proc[p].req.kind = "apply" /\ proc[p].devs # <<>> -> "unrule"
                  [] OTHER -> "done"
           l == [proc[p] EXCEPT !.byMac = NoMacs, !.byIp = NoIps, !.seen = Empty,
                                !.at = at0, !.pc = n]
<1>1. /\ Becomes(p, l) /\ At(p, "lease") /\ file' = proc[p].devs
  BY DEF SaveSync
<1>2. /\ n \in {"find", "unrule", "done"}
      /\ n = "find" => at0 = 0 /\ proc[p].req.kind \in SyncKinds
      /\ n = "unrule" => proc[p].req.kind = "apply"
  BY DEF SyncKinds
<1> HIDE DEF n, at0
<1>3. /\ l.pc = n /\ l.devs = proc[p].devs /\ l.req = proc[p].req
      /\ l.todo = proc[p].todo /\ l.seen = Empty /\ l.at = at0
  BY HandFacts, LocalFacts DEF Local
<1>4. proc'[p] = l
  BY <1>1, HandFacts, HandStep
<1> HIDE DEF l
<1>5. InHand(own, file', l)
  BY <1>1, <1>2, <1>3, HandFacts DEF InHand, At
<1>6. Lands(p) /\ OwnedBy(own, file')
  BY <1>1, HandFacts DEF Lands, InHand, At, Working
<1> QED
  BY <1>4, <1>5, <1>6

\* The record that is found is the one of the MAC that was asked about.
LEMMA FindHand ==
  ASSUME NEW own, AtomInv(own), NEW p \in Everyone, Find(p)
  PROVE  InHand(own, file', proc'[p]) /\ Lands(p)
<1> DEFINE ds == proc[p].devs
           m  == proc[p].req.mac
           i  == FindDevice(ds, m)
<1>1. At(p, "find") /\ file' = file
  BY DEF Find, store
<1>2. /\ ds = file /\ ds \in Seq(Device) /\ proc[p].at = 0
      /\ proc[p].req.kind \in SyncKinds /\ OwnedBy(own, ds)
  BY <1>1, HandFacts DEF InHand, At
<1>3. i # 0 => i \in DOMAIN ds /\ ds[i] \in Device /\ ds[i].mac = m
  <2>1. ds \in Seq(Device) /\ i \in 0 .. Len(ds) /\ (i # 0 => ds[i].mac = m)
    BY <1>2, FindDeviceFinds
  <2> HIDE DEF i, ds
  <2> QED
    BY <2>1, ElementOfSeq
<1>4. ASSUME NEW n \in {"save", "failed"}, Becomes(p, [proc[p] EXCEPT !.pc = n]),
             n = "save" => proc[p].req.kind = "update"
      PROVE  InHand(own, file, proc'[p])
  <2> DEFINE l == [proc[p] EXCEPT !.pc = n]
  <2>1. /\ l.pc = n /\ l.devs = ds /\ l.req = proc[p].req
        /\ l.todo = proc[p].todo /\ l.seen = proc[p].seen /\ l.at = proc[p].at
    BY HandFacts, LocalFacts DEF Local
  <2>2. proc'[p] = l
    BY <1>4, HandFacts, HandStep
  <2> HIDE DEF l, ds
  <2>3. InHand(own, file, l)
    BY <1>2, <1>4, <2>1, GrownSelf, HandFacts DEF InHand, ds
  <2> QED
    BY <2>2, <2>3
<1>5. CASE i = 0 /\ Becomes(p, [proc[p] EXCEPT !.pc = "failed"])
  BY <1>1, <1>4, <1>5 DEF Lands
<1>6. CASE /\ i # 0 /\ proc[p].req.kind = "set"
           /\ Becomes(p, [proc[p] EXCEPT !.at = i, !.pc = "unrule",
                            !.devs = [@ EXCEPT ![i].vpn = proc[p].req.vpn]])
  <2> DEFINE d  == [mac |-> ds[i].mac, ip |-> ds[i].ip, vpn |-> proc[p].req.vpn]
             es == [ds EXCEPT ![i] = d]
             l  == [proc[p] EXCEPT !.devs = es, !.at = i, !.pc = "unrule"]
  <2>1. es = [ds EXCEPT ![i].vpn = proc[p].req.vpn]
    BY <1>3, <1>6, <1>2 DEF Device
  <2>2. d \in Device
    <3>1. proc[p].req.vpn \in BOOLEAN
      BY HandFacts, LocalFacts DEF Request
    <3> HIDE DEF i, ds
    <3> QED
      BY <1>3, <1>6, <3>1 DEF Device
  <2>3. proc'[p] = l
    BY <1>6, <2>1, HandFacts, HandStep
  <2>4. /\ DOMAIN es = DOMAIN ds
        /\ es[i] = d /\ \A j \in DOMAIN ds \ {i} : es[j] = ds[j]
    <3> HIDE DEF i, d, ds
    <3> QED
      BY <1>2, <1>3, <1>6, <2>2, ReplaceRecord
  <2>5. Switched(file, es, i, proc[p].req.vpn) /\ file[i].mac = m /\ i \in DOMAIN file
    BY <1>2, <1>3, <1>6, <2>4 DEF Switched
  <2>6. OwnedBy(own, es)
    BY <1>2, <1>3, <1>6, <2>4 DEF OwnedBy
  <2> HIDE DEF es, i, ds
  <2>7. /\ l.pc = "unrule" /\ l.devs = es /\ l.req = proc[p].req
        /\ l.todo = proc[p].todo /\ l.seen = proc[p].seen
    BY HandFacts, LocalFacts DEF Local
  <2> HIDE DEF l
  <2>8. InHand(own, file, l)
    BY <1>6, <2>5, <2>6, <2>7, HandFacts DEF InHand
  <2> QED
    BY <1>1, <2>3, <2>8 DEF Lands
<1>7. CASE /\ i # 0 /\ proc[p].req.kind = "toggle"
           /\ Becomes(p, [proc[p] EXCEPT !.pc = "load",
                !.req = [@ EXCEPT !.kind = "set", !.vpn = ~ ds[i].vpn]])
  <2> DEFINE rq == [proc[p].req EXCEPT !.kind = "set", !.vpn = ~ ds[i].vpn]
             l  == [proc[p] EXCEPT !.pc = "load", !.req = rq]
  <2>1. rq.kind = "set" /\ "set" \in DeviceKinds
    <3>1. proc[p].req \in Request
      BY HandFacts, LocalFacts
    <3> HIDE DEF i, ds
    <3> QED
      BY <3>1 DEF Request, DeviceKinds, SyncKinds
  <2>2. proc'[p] = l
    BY <1>7, HandFacts, HandStep
  <2> HIDE DEF rq
  <2>3. /\ l.pc = "load" /\ l.devs = proc[p].devs /\ l.req = rq
        /\ l.todo = proc[p].todo /\ l.seen = proc[p].seen /\ l.at = proc[p].at
    BY HandFacts, LocalFacts DEF Local
  <2> HIDE DEF l, ds
  <2>4. InHand(own, file, l)
    BY <1>2, <2>1, <2>3, HandFacts DEF InHand
  <2> QED
    BY <1>1, <2>2, <2>4 DEF Lands
<1>8. CASE /\ proc[p].req.kind = "update"
           /\ \E n \in {"save", "failed"} : Becomes(p, [proc[p] EXCEPT !.pc = n])
  BY <1>1, <1>4, <1>8 DEF Lands
<1> QED
  BY <1>5, <1>6, <1>7, <1>8 DEF Find

\* A rule command changes no list.
LEMMA RuleHand ==
  ASSUME NEW own, AtomInv(own), NEW p \in Everyone, DisableRule(p) \/ AddRule(p)
  PROVE  InHand(own, file', proc'[p]) /\ Lands(p)
<1>1. /\ proc[p].pc \in {"unrule", "rule"} /\ file' = file
      /\ \/ Becomes(p, [proc[p] EXCEPT !.pc = "rule"])
         \/ Becomes(p, AfterRule(p, proc[p].at))
  BY DEF DisableRule, AddRule, At, store
<1>2. PICK n \in {"unrule", "rule", "save", "done"}, a \in Nat :
        /\ Becomes(p, [proc[p] EXCEPT !.pc = n, !.at = a])
        /\ n = "save" => proc[p].req.kind = "set"
  <2>1. CASE Becomes(p, [proc[p] EXCEPT !.pc = "rule"])
    <3>1. [proc[p] EXCEPT !.pc = "rule"] = [proc[p] EXCEPT !.pc = "rule", !.at = proc[p].at]
      BY HandFacts, LocalFacts DEF Local
    <3> QED
      BY <2>1, <3>1, HandFacts, LocalFacts
  <2>2. CASE Becomes(p, AfterRule(p, proc[p].at))
    <3>1. proc[p].at + 1 \in Nat /\ 0 \in Nat
      BY HandFacts, LocalFacts
    <3> QED
      BY <2>2, <3>1 DEF AfterRule
  <2> QED
    BY <1>1, <2>1, <2>2
<1> DEFINE l == [proc[p] EXCEPT !.pc = n, !.at = a]
<1>3. /\ l.pc = n /\ l.devs = proc[p].devs /\ l.req = proc[p].req
      /\ l.todo = proc[p].todo /\ l.seen = proc[p].seen
  BY HandFacts, LocalFacts DEF Local
<1>4. proc'[p] = l
  BY <1>2, HandFacts, HandStep
<1> HIDE DEF l
<1>5. InHand(own, file, l)
  BY <1>1, <1>2, <1>3, HandFacts DEF InHand
<1> QED
  BY <1>1, <1>4, <1>5 DEF Lands

\* add_device moves the record of its MAC, or appends one with the VPN off.
LEMMA AddHand ==
  ASSUME NEW own, AtomInv(own), NEW p \in Everyone, AddDevice(p)
  PROVE  InHand(own, file', proc'[p]) /\ Lands(p)
<1> DEFINE ds == proc[p].devs
           r  == proc[p].req
           i  == FindDevice(ds, r.mac)
           d  == [mac |-> r.mac, ip |-> r.ip, vpn |-> FALSE]
           moved == [mac |-> ds[i].mac, ip |-> r.ip, vpn |-> ds[i].vpn]
<1>1. At(p, "add") /\ file' = file
  BY DEF AddDevice, store
<1>2. /\ ds = file /\ ds \in Seq(Device) /\ r.kind = "add" /\ own[r.ip] = r.mac
      /\ OwnedBy(own, ds) /\ r.mac \in Macs /\ r.ip \in Ips /\ d \in Device
  BY <1>1, HandFacts, LocalFacts DEF InHand, At, Request, Device
<1>3. i # 0 => i \in DOMAIN ds /\ ds[i] \in Device /\ ds[i].mac = r.mac
  <2>1. ds \in Seq(Device) /\ i \in 0 .. Len(ds) /\ (i # 0 => ds[i].mac = r.mac)
    BY <1>2, FindDeviceFinds
  <2> HIDE DEF i, ds
  <2> QED
    BY <2>1, ElementOfSeq
<1>4. ASSUME NEW es, Becomes(p, [proc[p] EXCEPT !.pc = "save", !.devs = es]),
             OwnedBy(own, es), Grown(file, es)
      PROVE  InHand(own, file, proc'[p])
  <2> DEFINE l == [proc[p] EXCEPT !.pc = "save", !.devs = es]
  <2>1. /\ l.pc = "save" /\ l.devs = es /\ l.req = r
        /\ l.todo = proc[p].todo /\ l.seen = proc[p].seen
    BY HandFacts, LocalFacts DEF Local
  <2>2. proc'[p] = l
    BY <1>4, HandFacts, HandStep
  <2> HIDE DEF l, ds
  <2>3. InHand(own, file, l)
    BY <1>2, <1>4, <2>1, HandFacts DEF InHand
  <2> QED
    BY <2>2, <2>3
<1>5. CASE Becomes(p, [proc[p] EXCEPT !.pc = "failed"])
  <2> DEFINE l == [proc[p] EXCEPT !.pc = "failed"]
  <2>1. /\ l.pc = "failed" /\ l.devs = proc[p].devs /\ l.req = r
        /\ l.todo = proc[p].todo /\ l.seen = proc[p].seen
    BY HandFacts, LocalFacts DEF Local
  <2>2. proc'[p] = l
    BY <1>5, HandFacts, HandStep
  <2> HIDE DEF l, ds
  <2>3. InHand(own, file, l)
    BY <1>2, <2>1, HandFacts DEF InHand
  <2> QED
    BY <1>1, <2>2, <2>3 DEF Lands
<1>6. CASE /\ i # 0
           /\ Becomes(p, [proc[p] EXCEPT !.pc = "save",
                            !.devs = [@ EXCEPT ![i].ip = r.ip]])
  <2> DEFINE es == [ds EXCEPT ![i] = moved]
  <2>1. es = [ds EXCEPT ![i].ip = r.ip]
    BY <1>2, <1>3, <1>6 DEF Device
  <2>2. moved \in Device
    <3> HIDE DEF i, r, ds
    <3> QED
      BY <1>2, <1>3, <1>6 DEF Device
  <2>3. /\ es \in Seq(Device) /\ DOMAIN es = DOMAIN ds /\ Len(es) = Len(ds)
        /\ es[i] = moved /\ \A j \in DOMAIN ds \ {i} : es[j] = ds[j]
    <3> HIDE DEF i, moved, ds
    <3> QED
      BY <1>2, <1>3, <1>6, <2>2, ReplaceRecord
  <2>4. OwnedBy(own, es)
    BY <1>2, <1>3, <1>6, <2>3 DEF OwnedBy
  <2>5. Grown(file, es)
    <3>1. \A j \in DOMAIN ds : es[j].mac = ds[j].mac /\ es[j].vpn = ds[j].vpn
      BY <2>3
    <3> HIDE DEF es
    <3> QED
      BY <1>2, <2>3, <3>1 DEF Grown
  <2>6. Becomes(p, [proc[p] EXCEPT !.pc = "save", !.devs = es])
    BY <1>6, <2>1
  <2> HIDE DEF es
  <2> QED
    BY <1>1, <1>4, <2>4, <2>5, <2>6 DEF Lands
<1>7. CASE i = 0 /\ Becomes(p, [proc[p] EXCEPT !.pc = "save", !.devs = Append(@, d)])
  <2> DEFINE es == Append(ds, d)
  <2>1. /\ Len(es) = Len(ds) + 1 /\ DOMAIN es = 1 .. Len(ds) + 1 /\ es[Len(ds) + 1] = d
        /\ \A j \in 1 .. Len(ds) : es[j] = ds[j]
    <3> HIDE DEF ds, d
    <3> QED
      BY <1>2, AppendProperties
  <2>2. Len(ds) \in Nat /\ DOMAIN ds = 1 .. Len(ds)
    BY <1>2
  <2>3. Becomes(p, [proc[p] EXCEPT !.pc = "save", !.devs = es])
    BY <1>7
  <2> HIDE DEF es
  <2>4. OwnedBy(own, es) /\ Grown(file, es)
    BY <1>2, <2>1, <2>2 DEF OwnedBy, Grown
  <2> QED
    BY <1>1, <1>4, <2>3, <2>4 DEF Lands
<1> QED
  BY <1>5, <1>6, <1>7 DEF AddDevice

\* delete_device drops the one record its MAC has.
LEMMA PurgeHand ==
  ASSUME NEW own, AtomInv(own), NEW p \in Everyone, PurgeOne(p) \/ PurgeEnd(p)
  PROVE  InHand(own, file', proc'[p]) /\ Lands(p)
<1> DEFINE ds == proc[p].devs
           m  == proc[p].req.mac
           i  == FindDevice(ds, m)
<1>1. At(p, "purge") /\ file' = file
  BY DEF PurgeOne, PurgeEnd, store
<1>2. proc[p].req.kind = "delete" /\ Purged(p) = m
  BY <1>1, HandFacts DEF InHand, At, Purged
<1>3. ds \in Seq(Device) /\ i \in 0 .. Len(ds) /\ (i # 0 => ds[i].mac = m)
  BY HandFacts, LocalFacts, FindDeviceFinds
<1>4. CASE PurgeOne(p)
  <2>1. i # 0 /\ Becomes(p, [proc[p] EXCEPT !.devs = RemoveAt(@, i), !.at = 1])
    BY <1>2, <1>4 DEF PurgeOne
  <2>2. i \in DOMAIN ds
    <3> HIDE DEF i, ds
    <3> QED
      BY <1>3, <2>1
  <2>3. proc[p].at = 0
    <3> SUFFICES ASSUME proc[p].at # 0 PROVE FALSE
      OBVIOUS
    <3>1. PICK k \in DOMAIN file : file[k].mac = m /\ ds = RemoveAt(file, k)
      BY <1>1, HandFacts DEF InHand, At
    <3>2. \A j \in DOMAIN ds : ds[j].mac # m
      BY <3>1, DroppedGone, HandFacts
    <3> QED
      BY <1>3, <2>1, <2>2, <3>2
  <2>4. ds = file
    BY <1>1, <2>3, HandFacts DEF InHand, At
  <2> DEFINE es == RemoveAt(ds, i)
             l  == [proc[p] EXCEPT !.devs = es, !.at = 1]
  <2>5. OwnedBy(own, es)
    <3> HIDE DEF i, ds
    <3>1. \A j \in DOMAIN es : \E k \in DOMAIN ds : es[j] = ds[k]
      BY <2>2, <2>4, DroppedGone, HandFacts
    <3> HIDE DEF es
    <3> QED
      BY <2>4, <3>1, HandFacts DEF OwnedBy
  <2>6. \E k \in DOMAIN file : file[k].mac = m /\ es = RemoveAt(file, k)
    BY <1>3, <2>1, <2>2, <2>4
  <2>7. proc'[p] = l
    BY <2>1, HandFacts, HandStep
  <2> HIDE DEF es, i
  <2>8. /\ l.pc = "purge" /\ l.devs = es /\ l.req = proc[p].req
        /\ l.todo = proc[p].todo /\ l.seen = proc[p].seen /\ l.at = 1
    BY <1>1, HandFacts, LocalFacts DEF Local, At
  <2> HIDE DEF l, ds
  <2>9. InHand(own, file, l)
    BY <1>2, <2>5, <2>6, <2>8, HandFacts DEF InHand
  <2> QED
    BY <1>1, <2>7, <2>9 DEF Lands
<1>5. CASE PurgeEnd(p)
  <2> DEFINE n == IF proc[p].at = 1 THEN "save" ELSE "done"
             l == [proc[p] EXCEPT !.at = 0, !.pc = n]
  <2>1. Becomes(p, l)
    BY <1>5 DEF PurgeEnd
  <2>2. (n = "save" /\ proc[p].at # 0) \/ n = "done"
    OBVIOUS
  <2> HIDE DEF n
  <2>3. /\ l.pc = n /\ l.devs = proc[p].devs /\ l.req = proc[p].req
        /\ l.todo = proc[p].todo /\ l.seen = proc[p].seen
    BY HandFacts, LocalFacts DEF Local
  <2>4. proc'[p] = l
    BY <2>1, HandFacts, HandStep
  <2> HIDE DEF l, ds
  <2>5. InHand(own, file, l)
    BY <1>1, <1>2, <2>2, <2>3, HandFacts DEF InHand, At
  <2> QED
    BY <1>1, <2>4, <2>5 DEF Lands
<1> QED
  BY <1>4, <1>5

\* The list that was made of the file lands on that file.
LEMMA SaveHand ==
  ASSUME NEW own, AtomInv(own), NEW p \in Everyone, Save(p)
  PROVE  InHand(own, file', proc'[p]) /\ OwnedBy(own, file') /\ Lands(p)
<1> DEFINE l == [proc[p] EXCEPT !.pc = "done"]
<1>1. At(p, "save") /\ Becomes(p, l) /\ file' = proc[p].devs
  BY DEF Save
<1>2. /\ l.pc = "done" /\ l.devs = proc[p].devs /\ l.req = proc[p].req
      /\ l.todo = proc[p].todo /\ l.seen = proc[p].seen
  BY HandFacts, LocalFacts DEF Local
<1>3. proc'[p] = l
  BY <1>1, HandFacts, HandStep
<1> HIDE DEF l
<1>4. InHand(own, file', l)
  BY <1>2, HandFacts DEF InHand
<1>5. OwnedBy(own, file')
  BY <1>1, HandFacts DEF InHand
<1>6. Lands(p)
  BY <1>1, HandFacts DEF InHand, Lands, At, Working
<1> QED
  BY <1>3, <1>4, <1>5, <1>6

\* An operation that raises leaves the file and holds nothing that matters.
LEMMA RaiseHand ==
  ASSUME NEW own, AtomInv(own), NEW p \in Everyone, NoPriority(p) \/ SaveFails(p)
  PROVE  InHand(own, file', proc'[p]) /\ Lands(p)
<1>1. InHand(own, file, proc[p])
  BY HandFacts
<1>2. /\ proc'[p].pc = "failed" /\ proc'[p].req = proc[p].req
      /\ proc'[p].devs = proc[p].devs /\ proc'[p].todo = proc[p].todo
      /\ proc'[p].seen = proc[p].seen /\ file' = file
  BY HandFacts, RaiseFacts
<1> QED
  BY <1>1, <1>2 DEF InHand, Lands

\* Every step of the work of a process.
LEMMA WorkHand ==
  ASSUME NEW own, AddressesOwned(own), AtomInv(own), NEW p \in Everyone, Work(p)
  PROVE  /\ InHand(own, file', proc'[p]) /\ OwnedBy(own, file') /\ Lands(p)
         /\ remotes' = remotes
<1>1. ~ (ReadRemotes(p) \/ WriteRemotes(p) \/ UnknownRemote(p))
  BY HandFacts DEF ReadRemotes, WriteRemotes, UnknownRemote, InHand, At
<1>2. remotes' = remotes /\ (SaveSync(p) \/ Save(p) \/ file' = file)
  BY <1>1 DEF Work, Load, ReadInputs, DropRemote, BuildIndexes, MergeLease, SaveSync,
       Find, DisableRule, AddRule, NoPriority, AddDevice, PurgeOne, PurgeEnd, Save,
       SaveFails, store
<1>3. InHand(own, file', proc'[p]) /\ Lands(p)
  BY <1>1, LoadHand, ReadHand, FilterHand, MergeHand, SaveSyncHand, FindHand, RuleHand,
     RaiseHand, AddHand, PurgeHand, SaveHand DEF Work
<1> QED
  BY <1>2, <1>3, HandFacts, SaveSyncHand, SaveHand

-----------------------------------------------------------------------------
\* The steps of the loop and of the environment, and the invariant.

\* A process that holds nothing is in order whatever the file is.
LEMMA IdleHand ==
  ASSUME NEW own, NEW f
  PROVE  /\ InHand(own, f, Idle) /\ Idle.req.kind = "list"
         /\ \A k \in {"sync", "apply"} : InHand(own, f, Started(k))
                                         /\ Started(k).req.kind = k
<1>1. /\ Idle.pc = "idle" /\ Idle.req.kind = "list" /\ Idle.devs = <<>>
      /\ Idle.todo = <<>> /\ Idle.seen = Empty /\ Idle.at = 0
  BY DEF Idle, Own
<1>2. OwnedBy(own, <<>>)
  BY DEF OwnedBy
<1>3. {"list", "sync", "apply"} \subseteq SyncKinds /\ SyncKinds \subseteq DeviceKinds
  BY DEF SyncKinds, DeviceKinds
<1>4. ASSUME NEW l, l.pc \in {"idle", "load", "wait"}, l.devs = <<>>, l.todo = <<>>,
             l.seen = Empty, l.at = 0, l.req.kind \in DeviceKinds,
             l.req.kind = "add" => own[l.req.ip] = l.req.mac
      PROVE  InHand(own, f, l)
  BY <1>2, <1>4 DEF InHand
<1>5. ASSUME NEW k \in {"sync", "apply"}
      PROVE  InHand(own, f, Started(k)) /\ Started(k).req.kind = k
  <2>1. /\ Started(k).pc = "load" /\ Started(k).req.kind = k /\ Started(k).devs = <<>>
        /\ Started(k).todo = <<>> /\ Started(k).seen = Empty /\ Started(k).at = 0
    BY DEF Started, Idle, Own
  <2> QED
    BY <1>3, <1>4, <2>1
<1>6. InHand(own, f, Idle)
  BY <1>1, <1>3, <1>4
<1> QED
  BY <1>1, <1>5, <1>6

\* So is a request that has come in and waits for its turn.
LEMMA WaitHand ==
  ASSUME NEW own, NEW f, NEW r, r.kind \in DeviceKinds, r.kind = "add" => own[r.ip] = r.mac,
         NEW l, l = [Idle EXCEPT !.req = r, !.pc = "wait"]
  PROVE  InHand(own, f, l)
<1>1. /\ l.pc = "wait" /\ l.req = r /\ l.devs = <<>>
      /\ l.todo = <<>> /\ l.seen = Empty /\ l.at = 0
  BY DEF Idle
<1>2. OwnedBy(own, <<>>)
  BY DEF OwnedBy
<1> QED
  BY <1>1, <1>2 DEF InHand

\* A process that does not work keeps its hand when the file changes.
LEMMA RestingHand ==
  ASSUME NEW own, NEW f, NEW g, NEW l, InHand(own, f, l),
         l.pc \in {"idle", "wait", "done", "failed"}
  PROVE  InHand(own, g, l)
  BY DEF InHand

\* It holds at first.
LEMMA AtomInit ==
  ASSUME NEW own, AddressesOwned(own), Init
  PROVE  AtomInv(own)
<1>1. Main \in Everyone /\ \A p \in Everyone : proc[p] = Idle
  BY DEF Init, Everyone
<1>2. OwnedBy(own, file) /\ remotes = Empty
  BY DEF Init, AddressesOwned
<1> QED
  BY <1>1, <1>2, OneInvInit, IdleHand DEF AtomInv

\* Only work changes the file; whoever else moves goes to a state in order.
LEMMA LoopHand ==
  ASSUME DevicesOnly, NEW own, AddressesOwned(own), AtomInv(own), [Next]_vars,
         ~ \E p \in Everyone : Work(p)
  PROVE  /\ UNCHANGED <<file, remotes>>
         /\ proc'[Main].req.kind \in {"list", "sync", "apply"}
         /\ \A p \in Everyone : InHand(own, file, proc'[p])
<1>1. /\ proc \in [Everyone -> Local] /\ Main \in Everyone /\ Main \notin Procs
      /\ \A p \in Procs : p \in Everyone
      /\ \A p \in Everyone : InHand(own, file, proc[p])
      /\ proc[Main].req.kind \in {"list", "sync", "apply"}
  BY ConstantsAssumption DEF AtomInv, OneInv, Inv, TypeOK, Everyone
<1>2. CASE \E p \in Procs : \E r \in Requests : Accept(p, r)
  <2>1. PICK p \in Procs, r \in Requests : Accept(p, r)
    BY <1>2
  <2>2. /\ r \in Request /\ r.kind \in DeviceKinds
        /\ r.kind = "add" => own[r.ip] = r.mac
    BY ConstantsAssumption DEF DevicesOnly, AddressesOwned
  <2> DEFINE n == CASE r.kind \in DeviceKinds -> "wait"
                    [] r.kind \in RemoteKinds -> "readRemotes"
                    [] OTHER -> "done"
  <2>3. n = "wait"
    BY <2>2 DEF DeviceKinds, SyncKinds, RemoteKinds, PurgeKinds
  <2>4. Becomes(p, [Idle EXCEPT !.req = r, !.pc = n]) /\ UNCHANGED <<file, remotes>>
    BY <2>1 DEF Accept, store
  <2> HIDE DEF n
  <2>5. /\ proc'[p] = [Idle EXCEPT !.req = r, !.pc = "wait"]
        /\ \A q \in Everyone \ {p} : proc'[q] = proc[q]
    BY <1>1, <2>3, <2>4 DEF Becomes
  <2>6. InHand(own, file, proc'[p])
    BY <2>2, <2>5, WaitHand
  <2> QED
    BY <1>1, <2>4, <2>5, <2>6
<1>3. CASE \E p \in Procs : Dispatch(p)
  <2>1. PICK p \in Procs : Dispatch(p)
    BY <1>3
  <2> DEFINE l == [proc[p] EXCEPT !.pc = "load"]
  <2>2. Becomes(p, l) /\ At(p, "wait") /\ UNCHANGED <<file, remotes>>
    BY <2>1 DEF Dispatch, store
  <2>3. /\ l.pc = "load" /\ l.devs = proc[p].devs /\ l.req = proc[p].req
        /\ l.todo = proc[p].todo /\ l.seen = proc[p].seen /\ l.at = proc[p].at
    BY <1>1 DEF Local
  <2>4. proc'[p] = l /\ \A q \in Everyone \ {p} : proc'[q] = proc[q]
    BY <1>1, <2>2 DEF Becomes
  <2> HIDE DEF l
  <2>5. InHand(own, file, l)
    BY <1>1, <2>2, <2>3 DEF InHand, At
  <2> QED
    BY <1>1, <2>2, <2>4, <2>5
<1>4. CASE \E p \in Procs : Finish(p)
  <2>1. PICK p \in Procs : Finish(p)
    BY <1>4
  <2>2. /\ proc'[p] = Idle /\ proc'[Main] \in {Started("sync"), proc[Main]}
        /\ \A q \in Everyone \ {p, Main} : proc'[q] = proc[q]
        /\ UNCHANGED <<file, remotes>>
    BY <1>1, <2>1 DEF Finish, store
  <2>3. InHand(own, file, Idle) /\ InHand(own, file, Started("sync"))
        /\ Started("sync").req.kind = "sync"
    BY IdleHand
  <2> QED
    BY <1>1, <2>2, <2>3
<1>5. CASE FinishMain \/ Restart
  <2>1. /\ proc'[Main] \in {Idle, Started("apply")} /\ UNCHANGED <<file, remotes>>
        /\ \A q \in Everyone \ {Main} : proc'[q] = proc[q]
    BY <1>1, <1>5 DEF FinishMain, Restart, Becomes, store
  <2>2. /\ InHand(own, file, Idle) /\ InHand(own, file, Started("apply"))
        /\ Started("apply").req.kind = "apply" /\ Idle.req.kind = "list"
    BY IdleHand
  <2> QED
    BY <1>1, <2>1, <2>2
<1>6. CASE Crash
  <2>1. UNCHANGED <<file, remotes>> /\ \A p \in Everyone : proc'[p] = Idle
    BY <1>6 DEF Crash, store
  <2> QED
    BY <1>1, <2>1, IdleHand
<1>7. CASE DhcpChange \/ UNCHANGED vars
  BY <1>1, <1>7 DEF DhcpChange, vars
<1> QED
  BY <1>2, <1>3, <1>4, <1>5, <1>6, <1>7 DEF Next

\* Every step keeps the invariant: when the list of one process lands, nobody
\* else has a list in hand.
LEMMA AtomStep ==
  ASSUME DevicesOnly, NEW own, AddressesOwned(own), AtomInv(own), [Next]_vars
  PROVE  AtomInv(own)'
<1>1. OneInv'
  BY OneInvStep DEF AtomInv, DevicesOnly
<1>2. CASE \E p \in Everyone : Work(p)
  <2>1. PICK p \in Everyone : Work(p)
    BY <1>2
  <2>2. /\ InHand(own, file', proc'[p]) /\ OwnedBy(own, file') /\ Lands(p)
        /\ remotes' = remotes
    BY <2>1, WorkHand
  <2>3. proc \in [Everyone -> Local] /\ Effect(p) /\ Main \in Everyone
    BY <2>1, HandFacts, WorkEffect DEF Inv, TypeOK, Everyone
  <2>4. \A q \in Everyone \ {p} : proc'[q] = proc[q]
    BY <2>3 DEF Effect
  <2>5. ASSUME NEW q \in Everyone \ {p}
        PROVE  InHand(own, file', proc[q])
    <3>1. InHand(own, file, proc[q])
      BY HandFacts
    <3>2. CASE file' = file
      BY <3>1, <3>2
    <3>3. CASE Working(p)
      <4>1. ~ Working(q)
        <5>1. OneAtATime /\ q \in Everyone /\ q # p
          BY OneInvOne DEF AtomInv
        <5> QED
          BY <3>3, <5>1 DEF OneAtATime
      <4> QED
        BY <3>1, <4>1, RestingHand DEF Working
    <3> QED
      BY <2>2, <3>2, <3>3 DEF Lands
  <2>6. proc'[Main].req.kind \in {"list", "sync", "apply"}
    <3>1. CASE p = Main
      <4>1. proc[Main].req.kind \in {"list", "sync", "apply"}
        BY DEF AtomInv
      <4>2. proc'[p].req = proc[p].req
        BY <2>1, <3>1, <4>1, HandFacts, RequestKept
      <4> QED
        BY <3>1, <4>1, <4>2
    <3>2. CASE p # Main
      BY <2>3, <2>4, <3>2 DEF AtomInv
    <3> QED
      BY <3>1, <3>2
  <2>7. \A q \in Everyone : InHand(own, file', proc'[q])
    BY <2>2, <2>4, <2>5
  <2> QED
    BY <1>1, <2>2, <2>6, <2>7 DEF AtomInv
<1>3. CASE ~ \E p \in Everyone : Work(p)
  <2>1. /\ UNCHANGED <<file, remotes>>
        /\ proc'[Main].req.kind \in {"list", "sync", "apply"}
        /\ \A p \in Everyone : InHand(own, file, proc'[p])
    BY <1>3, LoopHand
  <2> QED
    BY <1>1, <2>1 DEF AtomInv
<1> QED
  BY <1>2, <1>3

-----------------------------------------------------------------------------
\* The register that a list of records is.

RecordsOf(ds) == [m \in {ds[i].mac : i \in DOMAIN ds} |->
                   LET i == FindDevice(ds, m)
                   IN  [ip |-> ds[i].ip, vpn |-> ds[i].vpn]]

\* A record of a list with distinct MACs is in the register as it is.
LEMMA RecordOfMac ==
  ASSUME NEW ds \in Seq(Device), DistinctMacs(ds), NEW i \in DOMAIN ds
  PROVE  /\ ds[i].mac \in DOMAIN RecordsOf(ds)
         /\ RecordsOf(ds)[ds[i].mac] = [ip |-> ds[i].ip, vpn |-> ds[i].vpn]
<1>1. Len(ds) \in Nat /\ DOMAIN ds = 1 .. Len(ds)
  OBVIOUS
<1>2. FindDevice(ds, ds[i].mac) = i
  <2>1. /\ FindDevice(ds, ds[i].mac) \in 0 .. Len(ds)
        /\ FindDevice(ds, ds[i].mac) # 0
             => ds[FindDevice(ds, ds[i].mac)].mac = ds[i].mac
        /\ FindDevice(ds, ds[i].mac) # 0
    BY FindDeviceFinds
  <2> QED
    BY <1>1, <2>1 DEF DistinctMacs
<1> QED
  BY <1>2 DEF RecordsOf

\* And every MAC of the register is that of a record.
LEMMA MacOfRecord ==
  ASSUME NEW ds, NEW m \in DOMAIN RecordsOf(ds)
  PROVE  \E i \in DOMAIN ds : m = ds[i].mac
  BY DEF RecordsOf

\* A list with distinct MACs is one of the register's tables.
LEMMA RecordsAreTable ==
  ASSUME NEW ds \in Seq(Device), DistinctMacs(ds)
  PROVE  RecordsOf(ds) \in Register!Tables
<1> DEFINE M == DOMAIN RecordsOf(ds)
<1>1. ASSUME NEW m \in M
      PROVE  m \in Macs /\ RecordsOf(ds)[m] \in Register!Record
  <2>1. PICK i \in DOMAIN ds : m = ds[i].mac
    BY MacOfRecord
  <2>2. ds[i].mac \in Macs /\ ds[i].ip \in Ips /\ ds[i].vpn \in BOOLEAN
    BY RecordAt DEF Device
  <2>3. RecordsOf(ds)[m] = [ip |-> ds[i].ip, vpn |-> ds[i].vpn]
    BY <2>1, RecordOfMac
  <2> QED
    BY <2>1, <2>2, <2>3 DEF Register!Record
<1>2. RecordsOf(ds) = [m \in M |-> RecordsOf(ds)[m]]
  BY DEF RecordsOf
<1> HIDE DEF M
<1>3. M \in SUBSET Macs /\ RecordsOf(ds) \in [M -> Register!Record]
  BY <1>1, <1>2
<1> QED
  BY <1>3 DEF Register!Tables

\* A list that has grown: nobody is lost, flags are kept and new ones are off.
LEMMA GrownFollows ==
  ASSUME NEW f \in Seq(Device), DistinctMacs(f), NEW d \in Seq(Device), DistinctMacs(d),
         Grown(f, d)
  PROVE  /\ DOMAIN RecordsOf(f) \subseteq DOMAIN RecordsOf(d)
         /\ \A m \in DOMAIN RecordsOf(d) : RecordsOf(d)[m].vpn =
              IF m \in DOMAIN RecordsOf(f) THEN RecordsOf(f)[m].vpn ELSE FALSE
<1>1. /\ Len(f) \in Nat /\ DOMAIN f = 1 .. Len(f)
      /\ Len(d) \in Nat /\ DOMAIN d = 1 .. Len(d)
  OBVIOUS
<1>2. ASSUME NEW i \in DOMAIN f
      PROVE  i \in DOMAIN d /\ d[i].mac = f[i].mac /\ d[i].vpn = f[i].vpn
  BY <1>1 DEF Grown
<1>3. ASSUME NEW m \in DOMAIN RecordsOf(f)
      PROVE  m \in DOMAIN RecordsOf(d)
  <2>1. PICK i \in DOMAIN f : m = f[i].mac
    BY MacOfRecord
  <2>2. i \in DOMAIN d /\ m = d[i].mac
    BY <1>2, <2>1
  <2> QED
    BY <2>2, RecordOfMac
<1>4. ASSUME NEW m \in DOMAIN RecordsOf(d)
      PROVE  RecordsOf(d)[m].vpn =
               IF m \in DOMAIN RecordsOf(f) THEN RecordsOf(f)[m].vpn ELSE FALSE
  <2>1. PICK n \in DOMAIN d : m = d[n].mac
    BY MacOfRecord
  <2>2. RecordsOf(d)[m] = [ip |-> d[n].ip, vpn |-> d[n].vpn]
    BY <2>1, RecordOfMac
  <2>3. d[n].vpn \in BOOLEAN
    BY RecordAt DEF Device
  <2>4. CASE m \in DOMAIN RecordsOf(f)
    <3>1. PICK i \in DOMAIN f : m = f[i].mac
      BY <2>4, MacOfRecord
    <3>2. i \in DOMAIN d /\ d[i].mac = d[n].mac /\ d[i].vpn = f[i].vpn
      BY <1>2, <2>1, <3>1
    <3>3. i = n
      BY <3>2 DEF DistinctMacs
    <3>4. RecordsOf(f)[m] = [ip |-> f[i].ip, vpn |-> f[i].vpn]
      BY <3>1, RecordOfMac
    <3> QED
      BY <2>2, <2>4, <3>2, <3>3, <3>4
  <2>5. CASE m \notin DOMAIN RecordsOf(f)
    <3>1. ASSUME n \in DOMAIN f PROVE FALSE
      <4>1. m = f[n].mac
        BY <1>2, <2>1, <3>1
      <4> QED
        BY <2>5, <3>1, <4>1, RecordOfMac
    <3>2. ~ d[n].vpn
      BY <1>1, <3>1 DEF Grown
    <3>3. d[n].vpn = FALSE
      BY <2>3, <3>2
    <3>4. RecordsOf(d)[m].vpn = FALSE
      BY <2>2, <3>3
    <3> QED
      BY <2>5, <3>4
  <2> QED
    BY <2>4, <2>5
<1> QED
  BY <1>3, <1>4

\* A flag that is switched: the register changes at that MAC only.
LEMMA SwitchedSwitches ==
  ASSUME NEW f \in Seq(Device), DistinctMacs(f), NEW d \in Seq(Device), DistinctMacs(d),
         NEW k, NEW v, Switched(f, d, k, v)
  PROVE  /\ f[k].mac \in DOMAIN RecordsOf(f)
         /\ RecordsOf(d) = [RecordsOf(f) EXCEPT ![f[k].mac].vpn = v]
<1> DEFINE F == RecordsOf(f)
           D == RecordsOf(d)
           m == f[k].mac
<1>1. /\ k \in DOMAIN f /\ DOMAIN d = DOMAIN f
      /\ d[k] = [mac |-> f[k].mac, ip |-> f[k].ip, vpn |-> v]
      /\ \A n \in DOMAIN f \ {k} : d[n] = f[n]
  BY DEF Switched
<1>2. \A i \in DOMAIN f : d[i].mac = f[i].mac
  BY <1>1
<1>3. ASSUME NEW x \in DOMAIN D PROVE x \in DOMAIN F
  <2>1. PICK i \in DOMAIN d : x = d[i].mac
    BY MacOfRecord
  <2>2. i \in DOMAIN f /\ x = f[i].mac
    BY <1>1, <1>2, <2>1
  <2> QED
    BY <2>2, RecordOfMac
<1>4. ASSUME NEW x \in DOMAIN F PROVE x \in DOMAIN D
  <2>1. PICK i \in DOMAIN f : x = f[i].mac
    BY MacOfRecord
  <2>2. i \in DOMAIN d /\ x = d[i].mac
    BY <1>1, <1>2, <2>1
  <2> QED
    BY <2>2, RecordOfMac
<1>5. D[m] = [F[m] EXCEPT !.vpn = v]
  <2>1. F[m] = [ip |-> f[k].ip, vpn |-> f[k].vpn]
    BY <1>1, RecordOfMac
  <2>2. D[d[k].mac] = [ip |-> d[k].ip, vpn |-> d[k].vpn]
    BY <1>1, RecordOfMac
  <2>3. D[m] = [ip |-> f[k].ip, vpn |-> v]
    BY <1>1, <2>2
  <2> HIDE DEF F, D, m
  <2> QED
    BY <2>1, <2>3
<1>6. ASSUME NEW x \in DOMAIN F, x # m
      PROVE  D[x] = F[x]
  <2>1. PICK i \in DOMAIN f : x = f[i].mac
    BY MacOfRecord
  <2>2. i \in DOMAIN d /\ d[i] = f[i] /\ x = d[i].mac
    BY <1>1, <1>6, <2>1
  <2>3. F[x] = [ip |-> f[i].ip, vpn |-> f[i].vpn]
    BY <2>1, RecordOfMac
  <2>4. D[x] = [ip |-> d[i].ip, vpn |-> d[i].vpn]
    BY <2>2, RecordOfMac
  <2> QED
    BY <2>2, <2>3, <2>4
<1>7. m \in DOMAIN F
  BY <1>1, RecordOfMac
<1>8. F = [x \in DOMAIN F |-> F[x]] /\ D = [x \in DOMAIN D |-> D[x]]
  BY DEF RecordsOf
<1>9. D = [F EXCEPT ![m].vpn = v]
  <2> HIDE DEF F, D, m
  <2>1. DOMAIN D = DOMAIN F
    BY <1>3, <1>4
  <2> QED
    BY <2>1, <1>5, <1>6, <1>8
<1> QED
  BY <1>7, <1>9

\* A list that is another without one record, record by record.
LEMMA DroppedAs ==
  ASSUME NEW f \in Seq(Device), DistinctMacs(f), NEW k \in DOMAIN f,
         NEW d, d = RemoveAt(f, k)
  PROVE  /\ \A i \in DOMAIN d : \E j \in DOMAIN f \ {k} : d[i] = f[j]
         /\ \A j \in DOMAIN f \ {k} : \E i \in DOMAIN d : d[i] = f[j]
<1>1. /\ \A i \in DOMAIN RemoveAt(f, k) :
           \E j \in DOMAIN f \ {k} : RemoveAt(f, k)[i] = f[j]
      /\ \A j \in DOMAIN f \ {k} :
           \E i \in DOMAIN RemoveAt(f, k) : RemoveAt(f, k)[i] = f[j]
  BY DroppedGone
<1> QED
  BY <1>1, Zenon

\* A record that is removed: the register loses that MAC only.
LEMMA RemovedDeletes ==
  ASSUME NEW f \in Seq(Device), DistinctMacs(f), NEW k \in DOMAIN f,
         NEW d \in Seq(Device), DistinctMacs(d), d = RemoveAt(f, k)
  PROVE  RecordsOf(d) = [n \in DOMAIN RecordsOf(f) \ {f[k].mac} |-> RecordsOf(f)[n]]
<1> DEFINE F == RecordsOf(f)
           D == RecordsOf(d)
           m == f[k].mac
<1>1. /\ \A i \in DOMAIN d : \E j \in DOMAIN f \ {k} : d[i] = f[j]
      /\ \A j \in DOMAIN f \ {k} : \E i \in DOMAIN d : d[i] = f[j]
  BY DroppedAs
<1>2. ASSUME NEW x \in DOMAIN D
      PROVE  x \in DOMAIN F /\ x # m /\ D[x] = F[x]
  <2>1. PICK i \in DOMAIN d : x = d[i].mac
    BY MacOfRecord
  <2>2. PICK j \in DOMAIN f \ {k} : d[i] = f[j]
    BY <1>1
  <2>3. D[x] = [ip |-> d[i].ip, vpn |-> d[i].vpn]
    BY <2>1, RecordOfMac
  <2>4. j \in DOMAIN f /\ x = f[j].mac
    BY <2>1, <2>2
  <2>5. x \in DOMAIN F /\ F[x] = [ip |-> f[j].ip, vpn |-> f[j].vpn]
    BY <2>4, RecordOfMac
  <2>6. x # m
    BY <2>2, <2>4 DEF DistinctMacs
  <2> QED
    BY <2>2, <2>3, <2>5, <2>6
<1>3. ASSUME NEW x \in DOMAIN F, x # m
      PROVE  x \in DOMAIN D
  <2>1. PICK j \in DOMAIN f : x = f[j].mac
    BY MacOfRecord
  <2>2. PICK i \in DOMAIN d : d[i] = f[j]
    BY <1>1, <1>3, <2>1
  <2>3. x = d[i].mac
    BY <2>1, <2>2
  <2> QED
    BY <2>3, RecordOfMac
<1>4. D = [x \in DOMAIN D |-> D[x]]
  BY DEF RecordsOf
<1>5. D = [n \in DOMAIN F \ {m} |-> F[n]]
  <2> HIDE DEF F, D, m
  <2>1. DOMAIN D = DOMAIN F \ {m}
    BY <1>2, <1>3
  <2> QED
    BY <2>1, <1>2, <1>4
<1> QED
  BY <1>5

-----------------------------------------------------------------------------
\* The theorems.

\* The file of every state is a list with distinct MACs, and its register is the
\* one the properties speak of.
LEMMA FileRecords ==
  ASSUME NEW own, AtomInv(own)
  PROVE  /\ file \in Seq(Device) /\ DistinctMacs(file) /\ Records = RecordsOf(file)
         /\ OneInv
  BY DEF AtomInv, OneInv, Inv, TypeOK, ListsConsistent, Records, RecordsOf

\* What a step does to the file: nothing, or what one process at work holds.
LEMMA StepLands ==
  ASSUME NEW own, AddressesOwned(own), DevicesOnly, AtomInv(own), [Next]_vars
  PROVE  UNCHANGED file \/ \E p \in Everyone : Lands(p)
<1>1. CASE \E p \in Everyone : Work(p)
  BY <1>1, WorkHand
<1>2. CASE ~ \E p \in Everyone : Work(p)
  BY <1>2, LoopHand
<1> QED
  BY <1>1, <1>2

\* A step that lands is one action of the register.
LEMMA StepRefines ==
  ASSUME NEW own, AddressesOwned(own), DevicesOnly, AtomInv(own), [Next]_vars
  PROVE  [Register!Next]_Records
<1>1. /\ file \in Seq(Device) /\ DistinctMacs(file) /\ Records = RecordsOf(file)
  BY FileRecords
<1>2. /\ file' \in Seq(Device) /\ DistinctMacs(file') /\ Records' = RecordsOf(file')
  <2>1. AtomInv(own)'
    BY AtomStep
  <2>2. Inv'
    BY <2>1 DEF AtomInv, OneInv
  <2>3. file' \in Seq(Device) /\ DistinctMacs(file')
    BY <2>2 DEF Inv, TypeOK, ListsConsistent, DistinctMacs
  <2>4. Records' = RecordsOf(file')
    BY DEF Records, RecordsOf
  <2> QED
    BY <2>3, <2>4
<1>3. CASE UNCHANGED file
  BY <1>1, <1>2, <1>3
<1>4. CASE Grown(file, file')
  <2>1. Register!Follow
    BY <1>1, <1>2, <1>4, GrownFollows, RecordsAreTable DEF Register!Follow
  <2> QED
    BY <2>1 DEF Register!Next
<1>5. ASSUME NEW k \in DOMAIN file, NEW v \in BOOLEAN, Switched(file, file', k, v)
      PROVE  Register!Next
  <2>1. file[k].mac \in Macs
    BY <1>1, RecordAt
  <2>2. Register!Switch(file[k].mac, v)
    BY <1>1, <1>2, <1>5, SwitchedSwitches DEF Register!Switch
  <2> QED
    BY <2>1, <2>2 DEF Register!Next
<1>6. ASSUME NEW k \in DOMAIN file, file' = RemoveAt(file, k)
      PROVE  Register!Next
  <2>1. file[k].mac \in Macs
    BY <1>1, RecordAt
  <2>2. RecordsOf(file') = [n \in DOMAIN RecordsOf(file) \ {file[k].mac} |->
                              RecordsOf(file)[n]]
    BY <1>1, <1>2, <1>6, RemovedDeletes
  <2>3. Register!Delete(file[k].mac)
    BY <1>1, <1>2, <2>2 DEF Register!Delete
  <2> QED
    BY <2>1, <2>3 DEF Register!Next
<1>7. \A p \in Everyone : proc[p].req.vpn \in BOOLEAN
  BY HandFacts, LocalFacts DEF Request
<1> QED
  BY <1>3, <1>4, <1>5, <1>6, <1>7, StepLands DEF Lands

\* DevicePanel implements DeviceRegister: every operation on the devices takes
\* effect at one instant, for any number of requests, devices and addresses and
\* whatever crashes and rule commands that fail, as long as only device requests
\* come in and no two MACs share an address.
THEOREM DevicesAreAtomic ==
  ASSUME DevicesOnly, NEW CONSTANT own, AddressesOwned(own)
  PROVE  Spec => AtomicOperations
<1>1. Init => AtomInv(own)
  BY AtomInit
<1>2. AtomInv(own) /\ [Next]_vars => AtomInv(own)'
  BY AtomStep
<1>3. AtomInv(own) => Records \in Register!Tables
  BY FileRecords, RecordsAreTable
<1>4. AtomInv(own) => Register!Init
  BY <1>3 DEF Register!Init
<1>5. AtomInv(own) /\ [Next]_vars => [Register!Next]_Records
  BY StepRefines
<1> QED
  BY <1>1, <1>2, <1>4, <1>5, PTL DEF Spec, AtomicOperations, Register!Spec

\* A step that lands changes the flag of a MAC only when the operation that lands
\* was asked to.
LEMMA StepOnRequest ==
  ASSUME NEW own, AddressesOwned(own), DevicesOnly, AtomInv(own), [Next]_vars
  PROVE  /\ \A m \in VpnOn(file') \ VpnOn(file) : Asked({"set"}, m)
         /\ \A m \in VpnOn(file) \ VpnOn(file') : Asked({"set", "delete"}, m)
<1>1. /\ file \in Seq(Device) /\ DistinctMacs(file)
      /\ Len(file) \in Nat /\ DOMAIN file = 1 .. Len(file)
  BY FileRecords
<1>2. /\ file' \in Seq(Device) /\ DOMAIN file' = 1 .. Len(file') /\ Len(file') \in Nat
  <2>1. AtomInv(own)'
    BY AtomStep
  <2>2. file' \in Seq(Device)
    BY <2>1 DEF AtomInv, OneInv, Inv, TypeOK
  <2> QED
    BY <2>2
<1>3. CASE UNCHANGED file
  BY <1>3 DEF VpnOn
<1>4. CASE Grown(file, file')
  <2>1. ASSUME NEW m \in VpnOn(file') PROVE m \in VpnOn(file)
    <3>1. PICK i \in DOMAIN file' : file'[i].vpn /\ m = file'[i].mac
      BY DEF VpnOn
    <3>2. i \in DOMAIN file /\ file[i].vpn /\ m = file[i].mac
      BY <1>1, <1>2, <1>4, <3>1 DEF Grown
    <3> QED
      BY <3>2 DEF VpnOn
  <2>2. ASSUME NEW m \in VpnOn(file) PROVE m \in VpnOn(file')
    <3>1. PICK i \in DOMAIN file : file[i].vpn /\ m = file[i].mac
      BY DEF VpnOn
    <3>2. i \in DOMAIN file' /\ file'[i].vpn /\ m = file'[i].mac
      BY <1>1, <1>2, <1>4, <3>1 DEF Grown
    <3> QED
      BY <3>2 DEF VpnOn
  <2> QED
    BY <2>1, <2>2
<1>5. ASSUME NEW p \in Everyone, At(p, "save"), proc[p].req.kind \in {"set", "delete"}
      PROVE  p \in Procs
  BY <1>5 DEF AtomInv, Everyone
<1>6. ASSUME NEW p \in Everyone, At(p, "save"), proc[p].req.kind = "set",
             NEW k \in DOMAIN file, file[k].mac = proc[p].req.mac,
             Switched(file, file', k, proc[p].req.vpn)
      PROVE  \A m \in (VpnOn(file') \ VpnOn(file)) \cup (VpnOn(file) \ VpnOn(file')) :
               Asked({"set"}, m) /\ Asked({"set", "delete"}, m)
  <2>1. /\ DOMAIN file' = DOMAIN file
        /\ file'[k].mac = file[k].mac
        /\ \A n \in DOMAIN file \ {k} : file'[n] = file[n]
    BY <1>6 DEF Switched
  <2>2. ASSUME NEW m, m # file[k].mac
        PROVE  m \in VpnOn(file) <=> m \in VpnOn(file')
    BY <2>1, <2>2 DEF VpnOn
  <2>3. Asked({"set"}, file[k].mac) /\ Asked({"set", "delete"}, file[k].mac)
    BY <1>5, <1>6 DEF Asked
  <2> QED
    BY <2>2, <2>3
<1>7. ASSUME NEW p \in Everyone, At(p, "save"), proc[p].req.kind = "delete",
             NEW k \in DOMAIN file, file[k].mac = proc[p].req.mac,
             file' = RemoveAt(file, k)
      PROVE  /\ VpnOn(file') \subseteq VpnOn(file)
             /\ \A m \in VpnOn(file) \ VpnOn(file') : Asked({"set", "delete"}, m)
  <2>1. /\ \A i \in DOMAIN file' : \E j \in DOMAIN file \ {k} : file'[i] = file[j]
        /\ \A j \in DOMAIN file \ {k} : \E i \in DOMAIN file' : file'[i] = file[j]
    BY <1>1, <1>7, DroppedAs
  <2>2. ASSUME NEW m \in VpnOn(file') PROVE m \in VpnOn(file)
    <3>1. PICK i \in DOMAIN file' : file'[i].vpn /\ m = file'[i].mac
      BY DEF VpnOn
    <3>2. PICK j \in DOMAIN file : file'[i] = file[j]
      BY <2>1
    <3>3. file[j].vpn /\ m = file[j].mac
      BY <3>1, <3>2
    <3> QED
      BY <3>3 DEF VpnOn
  <2>3. ASSUME NEW m \in VpnOn(file) \ VpnOn(file') PROVE m = file[k].mac
    <3>1. PICK j \in DOMAIN file : file[j].vpn /\ m = file[j].mac
      BY DEF VpnOn
    <3>2. ASSUME j # k PROVE FALSE
      <4>1. PICK i \in DOMAIN file' : file'[i] = file[j]
        BY <2>1, <3>2
      <4>2. file'[i].vpn /\ m = file'[i].mac
        BY <3>1, <4>1
      <4>3. m \in VpnOn(file')
        BY <4>2 DEF VpnOn
      <4> QED
        BY <4>3
    <3> QED
      BY <3>1, <3>2
  <2>4. Asked({"set", "delete"}, file[k].mac)
    BY <1>5, <1>7 DEF Asked
  <2> QED
    BY <2>2, <2>3, <2>4
<1> QED
  BY <1>3, <1>4, <1>6, <1>7, StepLands DEF Lands

\* A VPN flag goes on only by a set or toggle of its MAC, and off or away only by
\* one of these or a delete of it, under the same two conditions.
THEOREM FlagsOnRequest ==
  ASSUME DevicesOnly, NEW CONSTANT own, AddressesOwned(own)
  PROVE  Spec => VpnOnlyOnRequest
<1>1. Init => AtomInv(own)
  BY AtomInit
<1>2. AtomInv(own) /\ [Next]_vars => AtomInv(own)'
  BY AtomStep
<1>3. AtomInv(own) /\ [Next]_vars
        => [/\ \A m \in VpnOn(file') \ VpnOn(file) : Asked({"set"}, m)
            /\ \A m \in VpnOn(file) \ VpnOn(file') : Asked({"set", "delete"}, m)]_vars
  BY StepOnRequest
<1> QED
  BY <1>1, <1>2, <1>3, PTL DEF Spec, VpnOnlyOnRequest

=============================================================================
