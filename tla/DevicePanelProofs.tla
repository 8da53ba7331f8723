-------------------------- MODULE DevicePanelProofs --------------------------
(***************************************************************************)
(* Theorems about DevicePanel for every number of requests, devices,       *)
(* addresses, remotes, lease files and bounds on the environment.          *)
(***************************************************************************)
EXTENDS DevicePanel, SequenceTheorems, WellFoundedInduction, TLAPS

-----------------------------------------------------------------------------
\* The lookups the model is built from.

\* A set of naturals that is not empty has a least element.
LEMMA LeastNatural ==
  ASSUME NEW T, T \subseteq Nat, T # {}
  PROVE  \E x \in T : \A y \in T : x <= y
<1>1. \E x \in T : \A y \in T : ~ (<<y, x>> \in OpToRel(<, Nat))
  BY NatLessThanWellFounded, WFMin
<1>2. PICK x \in T : \A y \in T : ~ (<<y, x>> \in OpToRel(<, Nat))
  BY <1>1
<1>3. \A y \in T : <<y, x>> \in OpToRel(<, Nat) <=> y < x
  BY <1>2, SMT DEF OpToRel
<1>4. x \in Nat /\ \A y \in T : y \in Nat
  BY <1>2
<1>5. \A y \in T : ~ (y < x)
  BY <1>2, <1>3
<1> QED
  BY <1>4, <1>5

\* A set of positions that is not empty has a last one.
LEMMA MaxPosition ==
  ASSUME NEW n \in Nat, NEW I, I \subseteq 1 .. n, I # {}
  PROVE  Max(I) \in I /\ \A j \in I : j <= Max(I)
<1> DEFINE D == {n - i : i \in I}
<1>1. \A i \in I : i \in 1 .. n /\ n - i \in Nat
  OBVIOUS
<1>2. D \subseteq Nat /\ D # {}
  BY <1>1
<1> HIDE DEF D
<1>3. PICK d \in D : \A e \in D : d <= e
  BY <1>2, LeastNatural
<1> USE DEF D
<1>4. PICK i \in I : d = n - i
  BY <1>3
<1>5. \A j \in I : n - i <= n - j
  BY <1>3, <1>4
<1>6. \A j \in I : i >= j
  BY <1>1, <1>5
<1> QED
  BY <1>6 DEF Max

\* The same for the first one.
LEMMA MinPosition ==
  ASSUME NEW n \in Nat, NEW I, I \subseteq 1 .. n, I # {}
  PROVE  Min(I) \in I
<1>1. I \subseteq Nat
  OBVIOUS
<1>2. PICK i \in I : \A j \in I : i <= j
  BY <1>1, LeastNatural
<1> QED
  BY <1>2 DEF Min

\* find_device returns the position of a record of that MAC, or 0.
LEMMA FindDeviceFinds ==
  ASSUME NEW ds \in Seq(Device), NEW m
  PROVE  /\ FindDevice(ds, m) \in 0 .. Len(ds)
         /\ FindDevice(ds, m) # 0 => ds[FindDevice(ds, m)].mac = m
         /\ FindDevice(ds, m) = 0 => \A i \in DOMAIN ds : ds[i].mac # m
<1> DEFINE I == {i \in 1 .. Len(ds) : ds[i].mac = m}
<1>1. FindDevice(ds, m) = IF I # {} THEN Min(I) ELSE 0
  BY DEF FindDevice, SelectInSeq
<1>2. Len(ds) \in Nat /\ DOMAIN ds = 1 .. Len(ds)
  OBVIOUS
<1>3. I # {} => Min(I) \in I
  BY <1>2, MinPosition
<1> QED
  BY <1>1, <1>2, <1>3

\* When no MAC occurs twice, the indexes sync builds are right.
LEMMA IndexesBuilt ==
  ASSUME NEW ds \in Seq(Device), DistinctMacs(ds)
  PROVE  /\ MacIndex(ds) \in [Macs -> Nat]
         /\ IpIndex(ds) \in [Ips -> Nat]
         /\ IndexOK(ds, MacIndex(ds), IpIndex(ds))
<1> DEFINE M(m) == {i \in 1 .. Len(ds) : ds[i].mac = m}
           A(a) == {i \in 1 .. Len(ds) : ds[i].ip = a}
<1>1. Len(ds) \in Nat /\ DOMAIN ds = 1 .. Len(ds)
  OBVIOUS
<1>2. ASSUME NEW m \in Macs
      PROVE  /\ MacIndex(ds)[m] \in 0 .. Len(ds)
             /\ M(m) # {} => MacIndex(ds)[m] \in M(m)
  <2>1. MacIndex(ds)[m] = IF M(m) # {} THEN Max(M(m)) ELSE 0
    BY DEF MacIndex, SelectLastInSeq
  <2>2. M(m) # {} => Max(M(m)) \in M(m)
    BY <1>1, MaxPosition
  <2>3. M(m) \subseteq 0 .. Len(ds)
    BY <1>1
  <2> QED
    BY <1>1, <2>1, <2>2, <2>3
<1>3. ASSUME NEW a \in Ips
      PROVE  IpIndex(ds)[a] \in 0 .. Len(ds)
  <2>1. IpIndex(ds)[a] = IF A(a) # {} THEN Max(A(a)) ELSE 0
    BY DEF IpIndex, SelectLastInSeq
  <2>2. A(a) # {} => Max(A(a)) \in A(a)
    BY <1>1, MaxPosition
  <2>3. A(a) \subseteq 0 .. Len(ds)
    BY <1>1
  <2> QED
    BY <1>1, <2>1, <2>2, <2>3
<1>4. \A m \in Macs : MacIndex(ds)[m] \in 0 .. Len(ds)
  BY <1>2
<1>5. \A a \in Ips : IpIndex(ds)[a] \in 0 .. Len(ds)
  BY <1>3
<1>6. ASSUME NEW n \in DOMAIN ds
      PROVE  MacIndex(ds)[ds[n].mac] = n
  <2> DEFINE m == ds[n].mac
  <2>1. ds[n] \in Device
    BY <1>1, ElementOfSeq
  <2>2. m \in Macs /\ n \in M(m)
    BY <1>1, <2>1 DEF Device
  <2>3. MacIndex(ds)[m] \in M(m)
    BY <1>2, <2>2
  <2> QED
    BY <1>1, <2>3 DEF DistinctMacs
<1>7. MacIndex(ds) = [m \in Macs |-> MacIndex(ds)[m]]
  BY DEF MacIndex
<1>8. IpIndex(ds) = [a \in Ips |-> IpIndex(ds)[a]]
  BY DEF IpIndex
<1>9. 0 .. Len(ds) \subseteq Nat
  BY <1>1
<1>10. MacIndex(ds) \in [Macs -> Nat]
  BY <1>4, <1>7, <1>9
<1>11. IpIndex(ds) \in [Ips -> Nat]
  BY <1>5, <1>8, <1>9
<1> QED
  BY <1>4, <1>5, <1>6, <1>10, <1>11 DEF IndexOK

\* Appending a record of a MAC the list does not have keeps MACs distinct.
LEMMA AppendDistinct ==
  ASSUME NEW ds \in Seq(Device), DistinctMacs(ds), NEW d \in Device,
         \A i \in DOMAIN ds : ds[i].mac # d.mac
  PROVE  Append(ds, d) \in Seq(Device) /\ DistinctMacs(Append(ds, d))
<1>1. /\ Append(ds, d) \in Seq(Device)
      /\ Len(Append(ds, d)) = Len(ds) + 1
      /\ \A i \in 1 .. Len(ds) : Append(ds, d)[i] = ds[i]
      /\ Append(ds, d)[Len(ds) + 1] = d
  BY AppendProperties
<1>2. DOMAIN ds = 1 .. Len(ds) /\ Len(ds) \in Nat
  OBVIOUS
<1>3. DOMAIN Append(ds, d) = 1 .. Len(ds) + 1
  BY <1>1
<1>4. ASSUME NEW i \in 1 .. Len(ds) + 1, NEW j \in 1 .. Len(ds) + 1,
             Append(ds, d)[i].mac = Append(ds, d)[j].mac
      PROVE  i = j
  <2>1. CASE i \in 1 .. Len(ds) /\ j \in 1 .. Len(ds)
    BY <1>1, <1>2, <1>4, <2>1 DEF DistinctMacs
  <2>2. CASE i = Len(ds) + 1 \/ j = Len(ds) + 1
    BY <1>1, <1>2, <1>4, <2>2
  <2> QED
    BY <1>2, <2>1, <2>2
<1> QED
  BY <1>1, <1>3, <1>4 DEF DistinctMacs

\* Dropping a record keeps the others, in their order, and MACs distinct.
LEMMA RemoveDistinct ==
  ASSUME NEW ds \in Seq(Device), DistinctMacs(ds), NEW k \in DOMAIN ds
  PROVE  /\ RemoveAt(ds, k) \in Seq(Device) /\ DistinctMacs(RemoveAt(ds, k))
         /\ Len(RemoveAt(ds, k)) = Len(ds) - 1
         /\ \A i \in 1 .. Len(ds) - 1 :
              RemoveAt(ds, k)[i] = ds[IF i < k THEN i ELSE i + 1]
<1> DEFINE a == SubSeq(ds, 1, k - 1)
           b == SubSeq(ds, k + 1, Len(ds))
           r == a \o b
<1>1. DOMAIN ds = 1 .. Len(ds) /\ Len(ds) \in Nat /\ k \in 1 .. Len(ds)
  OBVIOUS
<1>2. \A i \in 1 .. Len(ds) : ds[i] \in Device
  BY ElementOfSeq
<1>3. /\ a \in Seq(Device) /\ Len(a) = k - 1
      /\ \A i \in 1 .. k - 1 : a[i] = ds[i]
  BY <1>1, <1>2, SubSeqProperties
<1>4. /\ b \in Seq(Device) /\ Len(b) = Len(ds) - k
      /\ \A i \in 1 .. Len(ds) - k : b[i] = ds[k + i]
  <2>1. /\ b \in Seq(Device)
        /\ Len(b) = IF k + 1 <= Len(ds) THEN Len(ds) - (k + 1) + 1 ELSE 0
        /\ \A i \in 1 .. Len(ds) - (k + 1) + 1 : b[i] = ds[(k + 1) + i - 1]
    <3>1. k + 1 \in Int /\ Len(ds) \in Int
      BY <1>1
    <3>2. \A i \in k + 1 .. Len(ds) : ds[i] \in Device
      BY <1>1, <1>2
    <3> HIDE DEF b
    <3> QED
      BY <3>1, <3>2, SubSeqProperties DEF b
  <2>2. Len(ds) - (k + 1) + 1 = Len(ds) - k
    BY <1>1
  <2>3. \A i \in 1 .. Len(ds) - k : (k + 1) + i - 1 = k + i
    BY <1>1
  <2>4. Len(b) = Len(ds) - k
    BY <1>1, <2>1, <2>2
  <2> HIDE DEF b
  <2>5. \A i \in 1 .. Len(ds) - k : b[i] = ds[k + i]
    BY <2>1, <2>2, <2>3
  <2> QED
    BY <2>1, <2>4, <2>5
<1> HIDE DEF a, b
<1>5. /\ r \in Seq(Device) /\ Len(r) = Len(ds) - 1
      /\ \A i \in 1 .. Len(ds) - 1 :
           r[i] = ds[IF i < k THEN i ELSE i + 1]
  <2>1. /\ r \in Seq(Device) /\ Len(r) = Len(a) + Len(b)
        /\ \A i \in 1 .. Len(a) + Len(b) :
             r[i] = IF i <= Len(a) THEN a[i] ELSE b[i - Len(a)]
    BY <1>3, <1>4, ConcatProperties
  <2>2. ASSUME NEW i \in 1 .. Len(ds) - 1
        PROVE  r[i] = ds[IF i < k THEN i ELSE i + 1]
    <3> HIDE DEF r
    <3>0. i \in 1 .. Len(a) + Len(b) /\ Len(a) = k - 1
      BY <1>1, <1>3, <1>4
    <3>1. CASE i < k
      <4>1. i <= Len(a) /\ i \in 1 .. k - 1
        BY <1>1, <3>0, <3>1
      <4>2. r[i] = a[i]
        BY <2>1, <3>0, <4>1
      <4> QED
        BY <1>3, <3>1, <4>1, <4>2
    <3>2. CASE ~ (i < k)
      <4>1. r[i] = b[i - (k - 1)]
        <5>1. ~ (i <= Len(a))
          BY <1>1, <3>0, <3>2
        <5> QED
          BY <2>1, <3>0, <5>1
      <4>2. i - (k - 1) \in 1 .. Len(ds) - k /\ k + (i - (k - 1)) = i + 1
        BY <1>1, <3>2
      <4> QED
        BY <1>4, <3>2, <4>1, <4>2
    <3> QED
      BY <3>1, <3>2
  <2>3. Len(a) + Len(b) = Len(ds) - 1
    BY <1>1, <1>3, <1>4
  <2> HIDE DEF r
  <2> QED
    BY <2>1, <2>2, <2>3
<1>6. DOMAIN r = 1 .. Len(ds) - 1
  BY <1>5
<1> HIDE DEF r
<1>7. ASSUME NEW i \in DOMAIN r, NEW j \in DOMAIN r, r[i].mac = r[j].mac
      PROVE  i = j
  <2> DEFINE up(n) == IF n < k THEN n ELSE n + 1
  <2>1. up(i) \in DOMAIN ds /\ up(j) \in DOMAIN ds
    BY <1>1, <1>6
  <2>2. ds[up(i)].mac = ds[up(j)].mac
    BY <1>5, <1>6, <1>7
  <2>3. up(i) = up(j)
    BY <2>1, <2>2 DEF DistinctMacs
  <2> QED
    BY <1>1, <1>6, <2>3
<1>8. RemoveAt(ds, k) = r
  BY DEF RemoveAt, r, a, b
<1> QED
  BY <1>5, <1>7, <1>8 DEF DistinctMacs

-----------------------------------------------------------------------------
\* The inductive invariant. A lookup in a merge is safe because the lists have
\* distinct MACs, and a release is safe because of what state_lock holds.
Inv == TypeOK /\ ListsConsistent /\ LockInv

\* What one step of the work of a process may do to the state.
Effect(p) ==
  /\ proc' = [proc EXCEPT ![p] = proc'[p]]
  /\ proc'[p] \in Local /\ LocalInv(proc'[p])
  /\ {proc[p].pc, proc'[p].pc} \cap {"idle", "wait"} = {}
  /\ proc'[p].req.kind \in DeviceKinds <=> proc[p].req.kind \in DeviceKinds
  /\ file' \in Seq(Device) /\ DistinctMacs(file')
  /\ remotes' \in Registry /\ rules' \subseteq Ips /\ left' \in Bounds
  /\ unsaved' \subseteq Ips
  /\ UNCHANGED <<leases, mode, lockQ>>

\* Whatever has only an Effect keeps the invariant.
LEMMA EffectKeepsInv ==
  ASSUME Inv, NEW p \in Everyone, Effect(p)
  PROVE  Inv'
<1> USE DEF Inv
<1>1. proc \in [Everyone -> Local]
  BY DEF TypeOK
<1>2. proc' \in [Everyone -> Local] /\ \A q \in Everyone \ {p} : proc'[q] = proc[q]
  BY <1>1 DEF Effect
<1>3. TypeOK'
  BY <1>2 DEF TypeOK, Effect
<1>4. ListsConsistent'
  BY <1>2 DEF ListsConsistent, Effect
<1>5. LockInv'
  <2>1. lockQ' = lockQ
    BY DEF Effect
  <2>2. ASSUME NEW q \in Procs
        PROVE  /\ At(q, "wait")' <=> At(q, "wait")
               /\ At(q, "idle")' <=> At(q, "idle")
               /\ IsLocked(q)' <=> IsLocked(q)
               /\ proc'[q].pc \notin {"idle", "wait"}
                    <=> proc[q].pc \notin {"idle", "wait"}
    <3>1. q \in Everyone
      BY DEF Everyone
    <3>2. CASE q = p
      BY <3>1, <3>2 DEF Effect, At, IsLocked
    <3>3. CASE q # p
      BY <1>2, <3>1, <3>3 DEF At, IsLocked
    <3> QED
      BY <3>2, <3>3
  <2> QED
    BY <2>1, <2>2 DEF LockInv
<1> QED
  BY <1>3, <1>4, <1>5

\* What every proof of an Effect starts from.
LEMMA LocalFacts ==
  ASSUME Inv, NEW p \in Everyone
  PROVE  /\ proc \in [Everyone -> Local] /\ proc[p] \in Local
         /\ LocalInv(proc[p]) /\ proc[p].devs \in Seq(Device)
         /\ proc[p].pc \in Labels /\ proc[p].req \in Request
         /\ proc[p].byMac \in [Macs -> Nat] /\ proc[p].byIp \in [Ips -> Nat]
         /\ proc[p].todo \in Seq(Lease) /\ proc[p].seen \in Registry
         /\ proc[p].at \in Nat
  BY DEF Inv, TypeOK, ListsConsistent, Local

\* A step that gives p the local state l and writes only what an Effect allows.
LEMMA StepEffect ==
  ASSUME Inv, NEW p \in Everyone, NEW l \in Local, LocalInv(l), Becomes(p, l),
         proc[p].pc \notin {"idle", "wait"}, l.pc \notin {"idle", "wait"},
         l.req.kind \in DeviceKinds <=> proc[p].req.kind \in DeviceKinds,
         file' \in {file, proc[p].devs}, remotes' \in Registry,
         rules' \subseteq Ips, left' \in Bounds, unsaved' \subseteq Ips,
         UNCHANGED <<leases, mode, lockQ>>
  PROVE  Effect(p)
<1>1. proc'[p] = l /\ proc' = [proc EXCEPT ![p] = proc'[p]]
  BY LocalFacts DEF Becomes
<1>2. file' \in Seq(Device) /\ DistinctMacs(file')
  BY LocalFacts DEF LocalInv, Inv, TypeOK, ListsConsistent
<1> QED
  BY <1>1, <1>2 DEF Effect

\* A rule command, worked or failed, leaves a set of addresses.
LEMMA RuleCommandEffect ==
  ASSUME Inv, NEW R, R \subseteq Ips, RuleCommand(R)
  PROVE  rules' \subseteq Ips /\ left' \in Bounds
  BY DEF RuleCommand, Inv, TypeOK, Bounds

\* load_devices takes a copy of the file, whose MACs are distinct.
LEMMA LoadEffect ==
  ASSUME Inv, NEW p \in Everyone, Load(p)
  PROVE  Effect(p)
<1> DEFINE n == CASE proc[p].req.kind \in SyncKinds -> "read"
                  [] proc[p].req.kind = "add" -> "add"
                  [] OTHER -> "purge"
           l == [proc[p] EXCEPT !.devs = file, !.pc = n]
<1>1. n \in {"read", "add", "purge"}
  OBVIOUS
<1>2. Becomes(p, l) /\ At(p, "load")
  BY DEF Load
<1> HIDE DEF n
<1>3. l \in Local
  BY <1>1, LocalFacts DEF Inv, TypeOK, Local, Labels
<1>4. LocalInv(l)
  BY <1>1, LocalFacts DEF LocalInv, Local, Inv, ListsConsistent
<1>5. l.pc = n /\ l.req = proc[p].req
  BY LocalFacts DEF Local
<1> HIDE DEF l
<1> QED
  BY <1>1, <1>2, <1>3, <1>4, <1>5, StepEffect
     DEF Load, Inv, TypeOK, At, store, panel

\* Reading the leases and the remotes changes no list of records.
LEMMA ReadInputsEffect ==
  ASSUME Inv, NEW p \in Everyone, ReadInputs(p)
  PROVE  Effect(p)
<1> DEFINE l == [proc[p] EXCEPT !.todo = leases, !.seen = remotes, !.pc = "filter"]
<1>1. Becomes(p, l) /\ At(p, "read")
  BY DEF ReadInputs
<1>2. leases \in Seq(Lease)
  BY ConstantsAssumption DEF Inv, TypeOK
<1>3. l \in Local
  BY <1>2, LocalFacts DEF Inv, TypeOK, Local, Labels
<1>4. LocalInv(l)
  BY LocalFacts DEF LocalInv, Local
<1>5. l.pc = "filter" /\ l.req = proc[p].req
  BY LocalFacts DEF Local
<1> HIDE DEF l
<1> QED
  BY <1>1, <1>3, <1>4, <1>5, StepEffect
     DEF ReadInputs, Inv, TypeOK, At, store, panel

\* Dropping the record of a remote leaves distinct MACs.
LEMMA DropRemoteEffect ==
  ASSUME Inv, NEW p \in Everyone, DropRemote(p)
  PROVE  Effect(p)
<1>1. PICK i \in DOMAIN proc[p].devs :
         /\ RuleCommand(rules \ {proc[p].devs[i].ip})
         /\ Becomes(p, [proc[p] EXCEPT !.devs = RemoveAt(@, i)])
  BY DEF DropRemote
<1> DEFINE ds == RemoveAt(proc[p].devs, i)
           l == [proc[p] EXCEPT !.devs = ds]
<1>2. ds \in Seq(Device) /\ DistinctMacs(ds)
  BY LocalFacts, RemoveDistinct DEF LocalInv
<1> HIDE DEF ds
<1>3. Becomes(p, l) /\ At(p, "filter")
  BY <1>1 DEF DropRemote, ds
<1>4. l \in Local
  BY <1>2, LocalFacts DEF Local
<1>5. LocalInv(l)
  BY <1>2, <1>3, LocalFacts DEF LocalInv, Local, At
<1>6. l.pc = "filter" /\ l.req = proc[p].req
  BY <1>3, LocalFacts DEF Local, At
<1>7. rules' \subseteq Ips /\ left' \in Bounds
  BY <1>1, RuleCommandEffect DEF Inv, TypeOK
<1> HIDE DEF l
<1> QED
  BY <1>3, <1>4, <1>5, <1>6, <1>7, StepEffect
     DEF DropRemote, Inv, TypeOK, At, store, panel

\* Indexes built from a list with distinct MACs name its records.
LEMMA BuildIndexesEffect ==
  ASSUME Inv, NEW p \in Everyone, BuildIndexes(p)
  PROVE  Effect(p)
<1> DEFINE ds == proc[p].devs
           l == [proc[p] EXCEPT !.byMac = MacIndex(ds), !.byIp = IpIndex(ds),
                                !.pc = "lease"]
<1>1. Becomes(p, l) /\ At(p, "filter")
  BY DEF BuildIndexes
<1>2. /\ MacIndex(ds) \in [Macs -> Nat] /\ IpIndex(ds) \in [Ips -> Nat]
      /\ IndexOK(ds, MacIndex(ds), IpIndex(ds))
  BY LocalFacts, IndexesBuilt DEF LocalInv
<1>3. l \in Local
  BY <1>2, LocalFacts DEF Local, Labels
<1>4. LocalInv(l)
  BY <1>2, LocalFacts DEF LocalInv, Local
<1>5. l.pc = "lease" /\ l.req = proc[p].req
  BY LocalFacts DEF Local
<1> HIDE DEF l
<1> QED
  BY <1>1, <1>3, <1>4, <1>5, StepEffect
     DEF BuildIndexes, Inv, TypeOK, At, store, panel

\* Replacing record i of a list.
LEMMA ReplaceRecord ==
  ASSUME NEW ds \in Seq(Device), NEW i \in DOMAIN ds, NEW d \in Device
  PROVE  LET es == [ds EXCEPT ![i] = d]
         IN  /\ es \in Seq(Device) /\ DOMAIN es = DOMAIN ds /\ Len(es) = Len(ds)
             /\ es[i] = d /\ \A j \in DOMAIN ds \ {i} : es[j] = ds[j]
  BY ExceptSeq

\* A record that follows its lease keeps its MAC, and its index.
LEMMA UpdateKnownEffect ==
  ASSUME Inv, NEW p \in Everyone, NEW r \in Lease, NextLease(p, r),
         UpdateKnown(p, r), UNCHANGED <<store, panel>>
  PROVE  Effect(p)
<1> DEFINE ds == proc[p].devs
           i  == proc[p].byMac[r.mac]
           d  == [mac |-> r.mac, ip |-> r.ip, vpn |-> ds[i].vpn]
           es == [ds EXCEPT ![i] = d]
           tl == Tail(proc[p].todo)
           l  == [proc[p] EXCEPT !.devs = es, !.todo = tl]
<1>1. /\ At(p, "lease") /\ i # 0
      /\ \/ RuleCommand(rules \ {ds[i].ip})
         \/ UNCHANGED <<rules, left>>
      /\ Becomes(p, [proc[p] EXCEPT
           !.devs = [@ EXCEPT ![i].ip = r.ip, ![i].mac = r.mac], !.todo = Tail(@)])
  BY DEF UpdateKnown, NextLease
<1>2. IndexOK(ds, proc[p].byMac, proc[p].byIp) /\ DistinctMacs(ds)
  BY <1>1, LocalFacts DEF LocalInv, At
<1>3. i \in DOMAIN ds /\ r.mac \in Macs /\ r.ip \in Ips
  <2>1. r.mac \in Macs /\ r.ip \in Ips
    BY DEF Lease
  <2>2. i \in 0 .. Len(ds)
    BY <1>2, <2>1 DEF IndexOK
  <2> HIDE DEF i
  <2> QED
    BY <1>1, <2>1, <2>2, LocalFacts
<1>4. ds[i] \in Device /\ d \in Device
  <2>1. ds[i] \in Device
    <3> HIDE DEF i
    <3> QED
      BY <1>3, LocalFacts, ElementOfSeq
  <2> QED
    BY <1>3, <2>1 DEF Device
<1>5. /\ es \in Seq(Device) /\ DOMAIN es = DOMAIN ds /\ Len(es) = Len(ds)
      /\ es[i] = d /\ \A j \in DOMAIN ds \ {i} : es[j] = ds[j]
  <2> HIDE DEF i, d
  <2> QED
    BY <1>3, <1>4, LocalFacts, ReplaceRecord
<1>6. es = [ds EXCEPT ![i].ip = r.ip, ![i].mac = r.mac]
  BY <1>3, <1>4, LocalFacts DEF Device
<1>7. Becomes(p, l)
  BY <1>1, <1>6
<1>8. DistinctMacs(es) /\ IndexOK(es, proc[p].byMac, proc[p].byIp)
  <2>1. \A j \in DOMAIN es : proc[p].byMac[es[j].mac] = j
    <3>1. proc[p].byMac[es[i].mac] = i
      <4>1. d.mac = r.mac
        OBVIOUS
      <4>2. es[i].mac = r.mac
        <5> HIDE DEF es, d, i
        <5> QED
          BY <1>5, <4>1
      <4> HIDE DEF es, d
      <4> QED
        BY <4>2
    <3>2. \A j \in DOMAIN ds \ {i} : proc[p].byMac[es[j].mac] = j
      BY <1>2, <1>5 DEF IndexOK
    <3> QED
      BY <1>5, <3>1, <3>2
  <2>2. DistinctMacs(es)
    BY <2>1 DEF DistinctMacs
  <2> HIDE DEF es
  <2> QED
    BY <1>2, <1>5, <2>1, <2>2 DEF IndexOK
<1>9. tl \in Seq(Lease)
  BY LocalFacts, HeadTailProperties DEF NextLease
<1> HIDE DEF es, tl
<1>10. l \in Local
  <2>1. es \in Seq(Device)
    BY <1>5
  <2> HIDE DEF ds, i, d
  <2> QED
    BY <1>9, <2>1, LocalFacts DEF Local
<1>11. LocalInv(l)
  BY <1>1, <1>8, LocalFacts DEF LocalInv, Local, At
<1>12. l.pc = "lease" /\ l.req = proc[p].req
  BY <1>1, LocalFacts DEF Local, At
<1>13. rules' \subseteq Ips /\ left' \in Bounds
  BY <1>1, RuleCommandEffect DEF Inv, TypeOK
<1> HIDE DEF l
<1> QED
  BY <1>1, <1>7, <1>10, <1>11, <1>12, <1>13, StepEffect
     DEF Inv, TypeOK, At, store, panel

\* A record adopted by address gets a MAC no other record has.
LEMMA AdoptByIpEffect ==
  ASSUME Inv, NEW p \in Everyone, NEW r \in Lease, NextLease(p, r),
         AdoptByIp(p, r), UNCHANGED <<store, panel>>
  PROVE  Effect(p)
<1> DEFINE ds == proc[p].devs
           i  == proc[p].byIp[r.ip]
           d  == [mac |-> r.mac, ip |-> ds[i].ip, vpn |-> ds[i].vpn]
           es == [ds EXCEPT ![i] = d]
           bm == [proc[p].byMac EXCEPT ![r.mac] = i]
           tl == Tail(proc[p].todo)
           l  == [proc[p] EXCEPT !.devs = es, !.byMac = bm, !.todo = tl]
<1>1. /\ At(p, "lease") /\ i # 0 /\ proc[p].byMac[r.mac] = 0
      /\ Becomes(p, [proc[p] EXCEPT !.devs = [@ EXCEPT ![i].mac = r.mac],
                       !.byMac = [@ EXCEPT ![r.mac] = i], !.todo = Tail(@)])
  BY DEF AdoptByIp, NextLease
<1>2. IndexOK(ds, proc[p].byMac, proc[p].byIp) /\ DistinctMacs(ds)
  BY <1>1, LocalFacts DEF LocalInv, At
<1>3. i \in DOMAIN ds /\ r.mac \in Macs /\ r.ip \in Ips
  <2>1. r.mac \in Macs /\ r.ip \in Ips
    BY DEF Lease
  <2>2. i \in 0 .. Len(ds)
    BY <1>2, <2>1 DEF IndexOK
  <2> HIDE DEF i
  <2> QED
    BY <1>1, <2>1, <2>2, LocalFacts
<1>4. ds[i] \in Device /\ d \in Device
  <2>1. ds[i] \in Device
    <3> HIDE DEF i
    <3> QED
      BY <1>3, LocalFacts, ElementOfSeq
  <2> QED
    BY <1>3, <2>1 DEF Device
<1>5. /\ es \in Seq(Device) /\ DOMAIN es = DOMAIN ds /\ Len(es) = Len(ds)
      /\ es[i] = d /\ \A j \in DOMAIN ds \ {i} : es[j] = ds[j]
  <2> HIDE DEF i, d
  <2> QED
    BY <1>3, <1>4, LocalFacts, ReplaceRecord
<1>6. es = [ds EXCEPT ![i].mac = r.mac]
  BY <1>3, <1>4, LocalFacts DEF Device
<1>7. Becomes(p, l)
  BY <1>1, <1>6
<1>8. DistinctMacs(es) /\ IndexOK(es, bm, proc[p].byIp)
  <2>1. \A j \in DOMAIN ds : ds[j] \in Device /\ j # 0
    BY LocalFacts, ElementOfSeq
  <2>2. \A j \in DOMAIN ds : ds[j].mac # r.mac
    BY <1>1, <1>2, <2>1 DEF IndexOK
  <2>3. \A j \in DOMAIN es : bm[es[j].mac] = j
    <3>1. bm[es[i].mac] = i
      BY <1>3, <1>5, LocalFacts
    <3>2. ASSUME NEW j \in DOMAIN ds \ {i}
          PROVE  bm[es[j].mac] = j
      <4>1. es[j] = ds[j] /\ ds[j].mac \in Macs
        BY <1>5, <2>1 DEF Device
      <4> QED
        BY <1>2, <2>2, <4>1, LocalFacts DEF IndexOK
    <3> QED
      BY <1>5, <3>1, <3>2
  <2> HIDE DEF es
  <2>4. DistinctMacs(es)
    BY <2>3 DEF DistinctMacs
  <2>5. \A m \in Macs : bm[m] \in 0 .. Len(es)
    BY <1>2, <1>3, <1>5, LocalFacts DEF IndexOK
  <2> HIDE DEF bm
  <2> QED
    BY <1>2, <1>5, <2>3, <2>4, <2>5 DEF IndexOK
<1>9. tl \in Seq(Lease)
  BY LocalFacts, HeadTailProperties DEF NextLease
<1>10. bm \in [Macs -> Nat]
  BY <1>3, LocalFacts
<1> HIDE DEF es, bm, tl
<1>11. l \in Local
  <2>1. es \in Seq(Device)
    BY <1>5
  <2> HIDE DEF ds, i, d
  <2> QED
    BY <1>9, <1>10, <2>1, LocalFacts DEF Local
<1>12. LocalInv(l)
  BY <1>1, <1>8, LocalFacts DEF LocalInv, Local, At
<1>13. l.pc = "lease" /\ l.req = proc[p].req
  BY <1>1, LocalFacts DEF Local, At
<1>14. UNCHANGED <<rules, left>>
  BY DEF AdoptByIp
<1> HIDE DEF l
<1> QED
  BY <1>1, <1>7, <1>11, <1>12, <1>13, <1>14, StepEffect
     DEF Inv, TypeOK, At, store, panel

\* A record is appended for a MAC that had none only.
LEMMA AppendNewEffect ==
  ASSUME Inv, NEW p \in Everyone, NEW r \in Lease, NextLease(p, r),
         AppendNew(p, r), UNCHANGED <<store, panel>>
  PROVE  Effect(p)
<1> DEFINE ds == proc[p].devs
           n  == Len(ds) + 1
           d  == [mac |-> r.mac, ip |-> r.ip, vpn |-> FALSE]
           es == Append(ds, d)
           bm == [proc[p].byMac EXCEPT ![r.mac] = n]
           bi == [proc[p].byIp EXCEPT ![r.ip] = n]
           tl == Tail(proc[p].todo)
           l  == [proc[p] EXCEPT !.devs = es, !.byMac = bm, !.byIp = bi,
                                 !.todo = tl]
<1>1. /\ At(p, "lease") /\ proc[p].byMac[r.mac] = 0
      /\ Becomes(p, l) /\ UNCHANGED <<rules, left>>
  BY DEF AppendNew, NextLease
<1>2. IndexOK(ds, proc[p].byMac, proc[p].byIp) /\ DistinctMacs(ds)
  BY <1>1, LocalFacts DEF LocalInv, At
<1>3. r.mac \in Macs /\ r.ip \in Ips /\ d \in Device
  BY DEF Lease, Device
<1>4. /\ DOMAIN ds = 1 .. Len(ds) /\ Len(ds) \in Nat
      /\ \A j \in DOMAIN ds : ds[j].mac \in Macs
  <2>1. ds \in Seq(Device) /\ DOMAIN ds = 1 .. Len(ds) /\ Len(ds) \in Nat
    BY LocalFacts
  <2> HIDE DEF ds
  <2>2. \A j \in DOMAIN ds : ds[j] \in Device
    BY <2>1, ElementOfSeq
  <2> QED
    BY <2>1, <2>2 DEF Device
<1>5. \A j \in DOMAIN ds : ds[j].mac # r.mac
  BY <1>1, <1>2, <1>4 DEF IndexOK
<1>6. es \in Seq(Device) /\ DistinctMacs(es)
  <2> HIDE DEF ds
  <2> QED
    BY <1>2, <1>3, <1>5, LocalFacts, AppendDistinct DEF ds
<1>7. /\ Len(es) = n /\ DOMAIN es = 1 .. n /\ es[n] = d
      /\ \A j \in 1 .. Len(ds) : es[j] = ds[j]
  <2>1. ds \in Seq(Device)
    BY LocalFacts
  <2> HIDE DEF ds, d
  <2> QED
    BY <1>3, <2>1, AppendProperties
<1>8. bm \in [Macs -> Nat] /\ bi \in [Ips -> Nat]
  BY <1>3, <1>4, LocalFacts
<1>9. IndexOK(es, bm, bi)
  <2>1. \A m \in Macs : bm[m] \in 0 .. Len(es)
    BY <1>2, <1>3, <1>4, <1>7, LocalFacts DEF IndexOK
  <2>2. \A a \in Ips : bi[a] \in 0 .. Len(es)
    BY <1>2, <1>3, <1>4, <1>7, LocalFacts DEF IndexOK
  <2>3. \A j \in DOMAIN es : bm[es[j].mac] = j
    <3>1. bm[es[n].mac] = n
      BY <1>3, <1>7, LocalFacts
    <3>2. ASSUME NEW j \in 1 .. Len(ds)
          PROVE  bm[es[j].mac] = j
      BY <1>2, <1>4, <1>5, <1>7, LocalFacts DEF IndexOK
    <3> QED
      BY <1>4, <1>7, <3>1, <3>2
  <2> HIDE DEF es, bm, bi
  <2> QED
    BY <2>1, <2>2, <2>3 DEF IndexOK
<1>10. tl \in Seq(Lease)
  BY LocalFacts, HeadTailProperties DEF NextLease
<1> HIDE DEF es, bm, bi, tl, n, d, ds
<1>11. l \in Local
  BY <1>6, <1>8, <1>10, LocalFacts DEF Local
<1>12. LocalInv(l)
  BY <1>1, <1>6, <1>9, LocalFacts DEF LocalInv, Local, At
<1>13. l.pc = "lease" /\ l.req = proc[p].req
  BY <1>1, LocalFacts DEF Local, At
<1> HIDE DEF l
<1> QED
  BY <1>1, <1>11, <1>12, <1>13, StepEffect
     DEF Inv, TypeOK, At, store, panel

\* The lease of a remote is skipped.
LEMMA SkipRemoteLeaseEffect ==
  ASSUME Inv, NEW p \in Everyone, NEW r \in Lease, NextLease(p, r),
         SkipRemoteLease(p, r), UNCHANGED <<store, panel>>
  PROVE  Effect(p)
<1> DEFINE tl == Tail(proc[p].todo)
           l  == [proc[p] EXCEPT !.todo = tl]
<1>1. At(p, "lease") /\ Becomes(p, l) /\ UNCHANGED <<rules, left>>
  BY DEF SkipRemoteLease, NextLease
<1>2. tl \in Seq(Lease)
  BY LocalFacts, HeadTailProperties DEF NextLease
<1> HIDE DEF tl
<1>3. l \in Local
  BY <1>2, LocalFacts DEF Local
<1>4. LocalInv(l)
  BY <1>1, LocalFacts DEF LocalInv, Local, At
<1>5. l.pc = "lease" /\ l.req = proc[p].req
  BY <1>1, LocalFacts DEF Local, At
<1> HIDE DEF l
<1> QED
  BY <1>1, <1>3, <1>4, <1>5, StepEffect DEF Inv, TypeOK, At, store, panel

\* A merge step, in each of its four ways, is an Effect.
LEMMA MergeLeaseEffect ==
  ASSUME Inv, NEW p \in Everyone, MergeLease(p)
  PROVE  Effect(p)
  BY SkipRemoteLeaseEffect, UpdateKnownEffect, AdoptByIpEffect, AppendNewEffect
     DEF MergeLease

\* A sync saves a list whose MACs are distinct.
LEMMA SaveSyncEffect ==
  ASSUME Inv, NEW p \in Everyone, SaveSync(p)
  PROVE  Effect(p)
<1> DEFINE at0 == IF proc[p].req.kind = "apply" THEN 1 ELSE 0
           n == CASE proc[p].req.kind \in {"set", "toggle", "update"} -> "find"
                  [] proc[p].req.kind = "apply" /\ proc[p].devs # <<>> -> "unrule"
                  [] OTHER -> "done"
           l == [proc[p] EXCEPT !.byMac = NoMacs, !.byIp = NoIps, !.seen = Empty,
                                !.at = at0, !.pc = n]
<1>1. /\ n \in {"find", "unrule", "done"} /\ at0 \in Nat
      /\ n = "unrule" => at0 = 1 /\ proc[p].devs # <<>>
  OBVIOUS
<1>2. /\ Becomes(p, l) /\ At(p, "lease") /\ file' = proc[p].devs
      /\ UNCHANGED <<leases, remotes, rules, panel, left>>
  BY DEF SaveSync
<1>3. NoMacs \in [Macs -> Nat] /\ NoIps \in [Ips -> Nat] /\ Empty \in Registry
  BY DEF NoMacs, NoIps, Empty, Registry
<1>4. proc[p].devs # <<>> => 1 \in DOMAIN proc[p].devs
  BY LocalFacts, EmptySeq
<1> HIDE DEF n, at0
<1>5. l \in Local
  BY <1>1, <1>3, LocalFacts DEF Local, Labels
<1>6. LocalInv(l)
  BY <1>1, <1>4, LocalFacts DEF LocalInv, Local
<1>7. l.pc = n /\ l.req = proc[p].req
  BY LocalFacts DEF Local
<1> HIDE DEF l
<1> QED
  BY <1>1, <1>2, <1>5, <1>6, <1>7, StepEffect DEF Inv, TypeOK, At, panel

\* The position that was found for a set exists.
LEMMA FindEffect ==
  ASSUME Inv, NEW p \in Everyone, Find(p)
  PROVE  Effect(p)
<1> DEFINE ds == proc[p].devs
           m  == proc[p].req.mac
           i  == FindDevice(ds, m)
<1>1. At(p, "find") /\ UNCHANGED <<store, rules, panel, left>>
  BY DEF Find
<1>2. i # 0 => i \in DOMAIN ds /\ ds[i] \in Device
  <2>1. ds \in Seq(Device) /\ i \in 0 .. Len(ds)
    BY LocalFacts, FindDeviceFinds
  <2> HIDE DEF i, ds
  <2> QED
    BY <2>1, ElementOfSeq
<1>3. ASSUME NEW n \in {"save", "failed"}, Becomes(p, [proc[p] EXCEPT !.pc = n])
      PROVE  Effect(p)
  <2> DEFINE l == [proc[p] EXCEPT !.pc = n]
  <2>1. l \in Local /\ LocalInv(l)
    BY LocalFacts DEF Local, LocalInv, Labels
  <2>2. l.pc = n /\ l.req = proc[p].req
    BY LocalFacts DEF Local
  <2> HIDE DEF l
  <2> QED
    BY <1>1, <1>3, <2>1, <2>2, StepEffect
       DEF Inv, TypeOK, At, store, panel, l
<1>4. CASE i = 0 /\ Becomes(p, [proc[p] EXCEPT !.pc = "failed"])
  BY <1>3, <1>4
<1>5. CASE /\ i # 0 /\ proc[p].req.kind = "set"
           /\ Becomes(p, [proc[p] EXCEPT !.at = i, !.pc = "unrule",
                            !.devs = [@ EXCEPT ![i].vpn = proc[p].req.vpn]])
  <2> DEFINE d  == [mac |-> ds[i].mac, ip |-> ds[i].ip, vpn |-> proc[p].req.vpn]
             es == [ds EXCEPT ![i] = d]
             l  == [proc[p] EXCEPT !.devs = es, !.at = i, !.pc = "unrule"]
  <2>1. d \in Device
    <3>1. proc[p].req.vpn \in BOOLEAN
      BY LocalFacts DEF Request
    <3> HIDE DEF i, ds
    <3> QED
      BY <1>2, <1>5, <3>1 DEF Device
  <2>2. es = [ds EXCEPT ![i].vpn = proc[p].req.vpn]
    BY <1>2, <1>5, LocalFacts DEF Device
  <2>3. Becomes(p, l)
    BY <1>5, <2>2
  <2>4. /\ es \in Seq(Device) /\ DOMAIN es = DOMAIN ds
        /\ es[i] = d /\ \A j \in DOMAIN ds \ {i} : es[j] = ds[j]
    <3> HIDE DEF i, d
    <3> QED
      BY <1>2, <1>5, <2>1, LocalFacts, ReplaceRecord
  <2>5. DistinctMacs(ds)
    BY LocalFacts DEF LocalInv
  <2>6. DistinctMacs(es)
    <3>1. \A j \in DOMAIN ds : es[j].mac = ds[j].mac
      BY <2>4
    <3> HIDE DEF es
    <3> QED
      BY <2>4, <2>5, <3>1 DEF DistinctMacs
  <2>7. i \in DOMAIN es /\ i \in Nat
    <3>1. i \in Nat
      BY LocalFacts, FindDeviceFinds
    <3> QED
      BY <1>2, <1>5, <2>4, <3>1
  <2>8. es \in Seq(Device)
    BY <2>4
  <2> HIDE DEF es, i, d, ds
  <2>9. l \in Local
    BY <2>7, <2>8, LocalFacts DEF Local, Labels
  <2>10. LocalInv(l)
    BY <2>6, <2>7, LocalFacts DEF LocalInv, Local
  <2>11. l.pc = "unrule" /\ l.req = proc[p].req
    BY LocalFacts DEF Local
  <2> HIDE DEF l
  <2> QED
    BY <1>1, <2>3, <2>9, <2>10, <2>11, StepEffect
       DEF Inv, TypeOK, At, store, panel
<1>6. CASE /\ i # 0 /\ proc[p].req.kind = "toggle"
           /\ Becomes(p, [proc[p] EXCEPT !.pc = "load",
                !.req = [@ EXCEPT !.kind = "set", !.vpn = ~ ds[i].vpn]])
  <2> DEFINE rq == [proc[p].req EXCEPT !.kind = "set", !.vpn = ~ ds[i].vpn]
             l  == [proc[p] EXCEPT !.pc = "load", !.req = rq]
  <2>1. Becomes(p, l)
    BY <1>6
  <2>2. rq \in Request /\ rq.kind = "set"
    <3>1. (~ ds[i].vpn) \in BOOLEAN
      OBVIOUS
    <3> HIDE DEF i, ds
    <3> QED
      BY <3>1, LocalFacts DEF Request, Kinds, DeviceKinds, SyncKinds
  <2> HIDE DEF rq
  <2>3. l \in Local /\ LocalInv(l)
    BY <2>2, LocalFacts DEF Local, LocalInv, Labels
  <2>4. l.pc = "load" /\ l.req = rq
    BY LocalFacts DEF Local
  <2> HIDE DEF l
  <2>5. rq.kind \in DeviceKinds /\ proc[p].req.kind \in DeviceKinds
    BY <1>6, <2>2 DEF DeviceKinds, SyncKinds
  <2> QED
    BY <1>1, <2>1, <2>3, <2>4, <2>5, StepEffect
       DEF Inv, TypeOK, At, store, panel
<1>7. CASE \E n \in {"save", "failed"} : Becomes(p, [proc[p] EXCEPT !.pc = n])
  BY <1>3, <1>7
<1> QED
  BY <1>4, <1>5, <1>6, <1>7 DEF Find

\* What follows the rule of record i is in order, too.
LEMMA AfterRuleLocal ==
  ASSUME Inv, NEW p \in Everyone, proc[p].at \in DOMAIN proc[p].devs
  PROVE  LET l == AfterRule(p, proc[p].at)
         IN  /\ l \in Local /\ LocalInv(l) /\ l.req = proc[p].req
             /\ l.pc \in {"unrule", "save", "done"}
<1> DEFINE i == proc[p].at
<1>1. /\ DOMAIN proc[p].devs = 1 .. Len(proc[p].devs) /\ Len(proc[p].devs) \in Nat
      /\ i \in Nat /\ i + 1 \in Nat
  BY LocalFacts
<1>2. i < Len(proc[p].devs) => i + 1 \in DOMAIN proc[p].devs
  BY <1>1
<1>3. ASSUME NEW n \in {"unrule", "save", "done"}, NEW a \in Nat,
             n = "unrule" => a \in DOMAIN proc[p].devs
      PROVE  LET l == [proc[p] EXCEPT !.pc = n, !.at = a]
             IN  l \in Local /\ LocalInv(l) /\ l.req = proc[p].req /\ l.pc = n
  BY <1>3, LocalFacts DEF Local, LocalInv, Labels
<1> QED
  BY <1>1, <1>2, <1>3 DEF AfterRule

\* An element of a list of devices is a device.
LEMMA RecordAt ==
  ASSUME NEW ds \in Seq(Device), NEW i \in DOMAIN ds
  PROVE  ds[i] \in Device /\ ds[i].mac \in Macs /\ ds[i].ip \in Ips
<1>1. ds[i] \in Device
  BY ElementOfSeq
<1> QED
  BY <1>1 DEF Device

\* A rule pass goes from one position that exists to the next.
LEMMA RuleStepEffect ==
  ASSUME Inv, NEW p \in Everyone, DisableRule(p) \/ AddRule(p)
  PROVE  Effect(p)
<1>1. /\ proc[p].pc \in {"unrule", "rule"} /\ UNCHANGED <<store, panel>>
      /\ \/ Becomes(p, [proc[p] EXCEPT !.pc = "rule"])
         \/ Becomes(p, AfterRule(p, proc[p].at))
  BY DEF DisableRule, AddRule, At
<1>2. proc[p].at \in DOMAIN proc[p].devs
  BY <1>1, LocalFacts DEF LocalInv
<1>3. rules' \subseteq Ips /\ left' \in Bounds
  <2>1. proc[p].devs[proc[p].at].ip \in Ips
    BY <1>2, LocalFacts, RecordAt
  <2>2. /\ rules \ {proc[p].devs[proc[p].at].ip} \subseteq Ips
        /\ rules \cup {proc[p].devs[proc[p].at].ip} \subseteq Ips
    BY <2>1 DEF Inv, TypeOK
  <2> QED
    BY <2>2, RuleCommandEffect DEF DisableRule, AddRule
<1>4. PICK l : /\ Becomes(p, l) /\ l \in Local /\ LocalInv(l)
               /\ l.req = proc[p].req /\ l.pc \in {"unrule", "save", "done", "rule"}
  <2> DEFINE l == [proc[p] EXCEPT !.pc = "rule"]
  <2>1. /\ l \in Local /\ LocalInv(l) /\ l.req = proc[p].req /\ l.pc = "rule"
    BY <1>2, LocalFacts DEF Local, LocalInv, Labels
  <2> QED
    BY <1>1, <1>2, <2>1, AfterRuleLocal
<1> QED
  BY <1>1, <1>3, <1>4, StepEffect DEF Inv, TypeOK, At, store, panel

\* add_device appends only when no record has the MAC.
LEMMA AddDeviceEffect ==
  ASSUME Inv, NEW p \in Everyone, AddDevice(p)
  PROVE  Effect(p)
<1> DEFINE ds == proc[p].devs
           r  == proc[p].req
           i  == FindDevice(ds, r.mac)
           d  == [mac |-> r.mac, ip |-> r.ip, vpn |-> FALSE]
           moved == [mac |-> ds[i].mac, ip |-> r.ip, vpn |-> ds[i].vpn]
<1>1. At(p, "add") /\ UNCHANGED <<store, rules, panel, left>>
  BY DEF AddDevice
<1>2. /\ ds \in Seq(Device) /\ DistinctMacs(ds) /\ r.mac \in Macs /\ r.ip \in Ips
      /\ d \in Device
  BY LocalFacts DEF LocalInv, Request, Device
<1>3. /\ i # 0 => i \in DOMAIN ds
      /\ i = 0 => \A j \in DOMAIN ds : ds[j].mac # r.mac
  <2>1. i \in 0 .. Len(ds) /\ (i = 0 => \A j \in DOMAIN ds : ds[j].mac # r.mac)
    BY <1>2, FindDeviceFinds
  <2> HIDE DEF i, r, ds
  <2> QED
    BY <1>2, <2>1
<1>4. ASSUME NEW es \in Seq(Device), DistinctMacs(es),
             Becomes(p, [proc[p] EXCEPT !.pc = "save", !.devs = es])
      PROVE  Effect(p)
  <2> DEFINE l == [proc[p] EXCEPT !.pc = "save", !.devs = es]
  <2>1. l \in Local /\ LocalInv(l)
    BY <1>4, LocalFacts DEF Local, LocalInv, Labels
  <2>2. l.pc = "save" /\ l.req = proc[p].req
    BY LocalFacts DEF Local
  <2> HIDE DEF l
  <2> QED
    BY <1>1, <1>4, <2>1, <2>2, StepEffect
       DEF Inv, TypeOK, At, store, panel, l
<1>5. CASE Becomes(p, [proc[p] EXCEPT !.pc = "failed"])
  <2> DEFINE l == [proc[p] EXCEPT !.pc = "failed"]
  <2>1. l \in Local /\ LocalInv(l)
    BY LocalFacts DEF Local, LocalInv, Labels
  <2>2. l.pc = "failed" /\ l.req = proc[p].req
    BY LocalFacts DEF Local
  <2> HIDE DEF l
  <2> QED
    BY <1>1, <1>5, <2>1, <2>2, StepEffect
       DEF Inv, TypeOK, At, store, panel, l
<1>6. CASE /\ i # 0
           /\ Becomes(p, [proc[p] EXCEPT !.pc = "save",
                            !.devs = [@ EXCEPT ![i].ip = r.ip]])
  <2> DEFINE es == [ds EXCEPT ![i] = moved]
  <2>1. ds[i] \in Device /\ i \in DOMAIN ds
    <3> HIDE DEF i, ds
    <3> QED
      BY <1>2, <1>3, <1>6, RecordAt
  <2>2. moved \in Device
    <3> HIDE DEF i, r, ds
    <3> QED
      BY <1>2, <2>1 DEF Device
  <2>3. es = [ds EXCEPT ![i].ip = r.ip]
    BY <2>1, LocalFacts DEF Device
  <2>4. /\ es \in Seq(Device) /\ DOMAIN es = DOMAIN ds
        /\ es[i] = moved /\ \A j \in DOMAIN ds \ {i} : es[j] = ds[j]
    <3> HIDE DEF i, moved, ds
    <3> QED
      BY <1>2, <2>1, <2>2, ReplaceRecord
  <2>5. DistinctMacs(es)
    <3>1. \A j \in DOMAIN ds : es[j].mac = ds[j].mac
      BY <2>4
    <3> HIDE DEF es, ds
    <3> QED
      BY <1>2, <2>4, <3>1 DEF DistinctMacs
  <2>6. Becomes(p, [proc[p] EXCEPT !.pc = "save", !.devs = es])
    BY <1>6, <2>3
  <2>7. es \in Seq(Device)
    BY <2>4
  <2> HIDE DEF es
  <2> QED
    BY <1>4, <2>5, <2>6, <2>7
<1>7. CASE i = 0 /\ Becomes(p, [proc[p] EXCEPT !.pc = "save",
                                  !.devs = Append(@, d)])
  <2> DEFINE es == Append(ds, d)
  <2>1. es \in Seq(Device) /\ DistinctMacs(es)
    <3> HIDE DEF ds, i, r
    <3> QED
      BY <1>2, <1>3, <1>7, AppendDistinct
  <2>2. Becomes(p, [proc[p] EXCEPT !.pc = "save", !.devs = es])
    BY <1>7
  <2> HIDE DEF es
  <2> QED
    BY <1>4, <2>1, <2>2
<1> QED
  BY <1>5, <1>6, <1>7 DEF AddDevice

\* Removing a record leaves distinct MACs.
LEMMA PurgeOneEffect ==
  ASSUME Inv, NEW p \in Everyone, PurgeOne(p)
  PROVE  Effect(p)
<1> DEFINE ds == proc[p].devs
           i  == FindDevice(ds, Purged(p))
           es == RemoveAt(ds, i)
           l  == [proc[p] EXCEPT !.devs = es, !.at = 1]
<1>1. /\ At(p, "purge") /\ i # 0 /\ UNCHANGED <<store, panel>>
      /\ RuleCommand(rules \ {ds[i].ip}) /\ Becomes(p, l)
  BY DEF PurgeOne
<1>2. ds \in Seq(Device) /\ DistinctMacs(ds)
  BY LocalFacts DEF LocalInv
<1>3. i \in DOMAIN ds
  <2>1. i \in 0 .. Len(ds)
    BY <1>2, FindDeviceFinds
  <2> HIDE DEF i, ds
  <2> QED
    BY <1>1, <1>2, <2>1
<1>4. es \in Seq(Device) /\ DistinctMacs(es)
  <2> HIDE DEF i, ds
  <2> QED
    BY <1>2, <1>3, RemoveDistinct
<1>5. rules' \subseteq Ips /\ left' \in Bounds
  BY <1>1, RuleCommandEffect DEF Inv, TypeOK
<1> HIDE DEF es
<1>6. l \in Local /\ LocalInv(l)
  BY <1>1, <1>4, LocalFacts DEF Local, LocalInv, At
<1>7. l.pc = "purge" /\ l.req = proc[p].req
  BY <1>1, LocalFacts DEF Local, At
<1> HIDE DEF l
<1> QED
  BY <1>1, <1>5, <1>6, <1>7, StepEffect DEF Inv, TypeOK, At, store, panel

\* The end of a purge changes no list.
LEMMA PurgeEndEffect ==
  ASSUME Inv, NEW p \in Everyone, PurgeEnd(p)
  PROVE  Effect(p)
<1> DEFINE n == IF proc[p].at = 1 THEN "save" ELSE "done"
           l == [proc[p] EXCEPT !.at = 0, !.pc = n]
<1>1. At(p, "purge") /\ Becomes(p, l) /\ UNCHANGED <<store, rules, panel, left>>
  BY DEF PurgeEnd
<1>2. n \in {"save", "done"}
  OBVIOUS
<1> HIDE DEF n
<1>3. l \in Local /\ LocalInv(l)
  BY <1>2, LocalFacts DEF Local, LocalInv, Labels
<1>4. l.pc = n /\ l.req = proc[p].req
  BY LocalFacts DEF Local
<1> HIDE DEF l
<1> QED
  BY <1>1, <1>2, <1>3, <1>4, StepEffect DEF Inv, TypeOK, At, store, panel

\* Saving makes the file one of the lists in flight.
LEMMA SaveEffect ==
  ASSUME Inv, NEW p \in Everyone, Save(p)
  PROVE  Effect(p)
<1> DEFINE l == [proc[p] EXCEPT !.pc = "done"]
<1>1. /\ At(p, "save") /\ Becomes(p, l) /\ file' = proc[p].devs
      /\ UNCHANGED <<leases, remotes, rules, panel, left>>
  BY DEF Save
<1>2. l \in Local /\ LocalInv(l)
  BY LocalFacts DEF Local, LocalInv, Labels
<1>3. l.pc = "done" /\ l.req = proc[p].req
  BY LocalFacts DEF Local
<1> HIDE DEF l
<1> QED
  BY <1>1, <1>2, <1>3, StepEffect DEF Inv, TypeOK, At, panel

\* rule_priority raises: nothing but the process changes.
LEMMA NoPriorityEffect ==
  ASSUME Inv, NEW p \in Everyone, NoPriority(p)
  PROVE  Effect(p)
<1> DEFINE l == [proc[p] EXCEPT !.pc = "failed"]
<1>1. At(p, "rule") /\ Becomes(p, l) /\ UNCHANGED <<store, rules, panel, left>>
  BY DEF NoPriority
<1>2. l \in Local /\ LocalInv(l)
  BY LocalFacts DEF Local, LocalInv, Labels
<1>3. l.pc = "failed" /\ l.req = proc[p].req
  BY LocalFacts DEF Local
<1> HIDE DEF l
<1> QED
  BY <1>1, <1>2, <1>3, StepEffect DEF Inv, TypeOK, At, store, panel

\* The addresses of a list are addresses.
LEMMA RoutedIps ==
  ASSUME NEW ds \in Seq(Device)
  PROVE  Routed(ds) \subseteq Ips
BY RecordAt DEF Routed

\* A save that raises changes no file and no list.
LEMMA SaveFailsEffect ==
  ASSUME Inv, NEW p \in Everyone, SaveFails(p)
  PROVE  Effect(p)
<1> DEFINE l == [proc[p] EXCEPT !.pc = "failed"]
<1>1. /\ proc[p].pc \in {"save", "writeRemotes", "lease"} /\ Becomes(p, l)
      /\ UNCHANGED <<file, leases, remotes, rules, mode, lockQ>>
  BY DEF SaveFails, At, store
<1>2. l \in Local /\ LocalInv(l)
  BY LocalFacts DEF Local, LocalInv, Labels
<1>3. l.pc = "failed" /\ l.req = proc[p].req
  BY LocalFacts DEF Local
<1>4. left' \in Bounds
  BY DEF SaveFails, Bounds, Inv, TypeOK
<1>5. unsaved' \subseteq Ips
  BY LocalFacts, RoutedIps DEF SaveFails, Inv, TypeOK
<1> HIDE DEF l
<1> QED
  BY <1>1, <1>2, <1>3, <1>4, <1>5, StepEffect DEF Inv, TypeOK

\* Reading the registry changes no list of records.
LEMMA ReadRemotesEffect ==
  ASSUME Inv, NEW p \in Everyone, ReadRemotes(p)
  PROVE  Effect(p)
<1> DEFINE l == [proc[p] EXCEPT !.seen = remotes, !.pc = "writeRemotes"]
<1>1. At(p, "readRemotes") /\ Becomes(p, l) /\ UNCHANGED <<store, rules, panel, left>>
  BY DEF ReadRemotes
<1>2. l \in Local /\ LocalInv(l)
  BY LocalFacts DEF Local, LocalInv, Labels, Inv, TypeOK
<1>3. l.pc = "writeRemotes" /\ l.req = proc[p].req
  BY LocalFacts DEF Local
<1> HIDE DEF l
<1> QED
  BY <1>1, <1>2, <1>3, StepEffect DEF Inv, TypeOK, At, store, panel

\* Writing the registry leaves a registry.
LEMMA WriteRemotesEffect ==
  ASSUME Inv, NEW p \in Everyone, WriteRemotes(p)
  PROVE  Effect(p)
<1> DEFINE r == proc[p].req
           copy == CASE r.kind \in {"addRemote", "hello"} ->
                          [proc[p].seen EXCEPT ![r.rid] = r.mac]
                     [] r.kind = "deleteRemote" ->
                          [proc[p].seen EXCEPT ![r.rid] = NoMac]
                     [] OTHER -> proc[p].seen
           n == IF r.kind \in PurgeKinds /\ copy[r.rid] # NoMac
                THEN "load" ELSE "done"
           l == [proc[p] EXCEPT !.seen = copy, !.pc = n]
<1>1. /\ At(p, "writeRemotes") /\ Becomes(p, l) /\ remotes' = copy
      /\ UNCHANGED <<file, leases, rules, panel, left>>
  BY DEF WriteRemotes
<1>2. copy \in Registry
  <2>1. r.rid \in RemoteIds /\ r.mac \in Macs
    BY LocalFacts DEF Request
  <2>2. proc[p].seen \in Registry
    BY LocalFacts
  <2> HIDE DEF r
  <2> QED
    BY <2>1, <2>2 DEF Registry
<1>3. n \in {"load", "done"}
  OBVIOUS
<1> HIDE DEF copy, n
<1>4. l \in Local /\ LocalInv(l)
  BY <1>2, <1>3, LocalFacts DEF Local, LocalInv, Labels
<1>5. l.pc = n /\ l.req = proc[p].req
  BY LocalFacts DEF Local
<1> HIDE DEF l
<1> QED
  BY <1>1, <1>2, <1>3, <1>4, <1>5, StepEffect DEF Inv, TypeOK, At, panel

\* An unknown remote changes nothing.
LEMMA UnknownRemoteEffect ==
  ASSUME Inv, NEW p \in Everyone, UnknownRemote(p)
  PROVE  Effect(p)
<1> DEFINE n == IF proc[p].req.kind = "deleteRemote" THEN "done" ELSE "failed"
           l == [proc[p] EXCEPT !.pc = n]
<1>1. /\ At(p, "writeRemotes") /\ Becomes(p, l)
      /\ UNCHANGED <<store, rules, panel, left>>
  BY DEF UnknownRemote
<1>2. n \in {"failed", "done"}
  OBVIOUS
<1> HIDE DEF n
<1>3. l \in Local /\ LocalInv(l)
  BY <1>2, LocalFacts DEF Local, LocalInv, Labels
<1>4. l.pc = n /\ l.req = proc[p].req
  BY LocalFacts DEF Local
<1> HIDE DEF l
<1> QED
  BY <1>1, <1>2, <1>3, <1>4, StepEffect DEF Inv, TypeOK, At, store, panel

\* So every step of the work of a process has such an effect.
LEMMA WorkEffect ==
  ASSUME Inv, NEW p \in Everyone, Work(p)
  PROVE  Effect(p)
  BY LoadEffect, ReadInputsEffect, DropRemoteEffect, BuildIndexesEffect,
     MergeLeaseEffect, SaveSyncEffect, FindEffect, RuleStepEffect,
     NoPriorityEffect, AddDeviceEffect, PurgeOneEffect, PurgeEndEffect, SaveEffect,
     SaveFailsEffect,
     ReadRemotesEffect, WriteRemotesEffect, UnknownRemoteEffect
     DEF Work

\* An operation that raises half-way keeps its list and request, and changes no file
\* and no rule.
LEMMA RaiseFacts ==
  ASSUME Inv, NEW p \in Everyone, NoPriority(p) \/ SaveFails(p)
  PROVE  /\ proc[p].pc \in {"rule", "save", "lease", "writeRemotes"}
         /\ LET l == proc'[p]
            IN  /\ l.pc = "failed" /\ l.req = proc[p].req /\ l.devs = proc[p].devs
                /\ l.todo = proc[p].todo /\ l.seen = proc[p].seen
         /\ UNCHANGED <<file, leases, remotes, rules, mode, lockQ>>
         /\ left.faults = 0 => left'.faults = 0
<1>1. /\ proc \in [Everyone -> Local] /\ proc[p] \in Local /\ left \in Bounds
      /\ Becomes(p, [proc[p] EXCEPT !.pc = "failed"])
  BY LocalFacts DEF NoPriority, SaveFails, Inv, TypeOK
<1>2. LET l == proc'[p]
      IN  /\ l.pc = "failed" /\ l.req = proc[p].req /\ l.devs = proc[p].devs
          /\ l.todo = proc[p].todo /\ l.seen = proc[p].seen
  BY <1>1 DEF Becomes, Local
<1>3. /\ proc[p].pc \in {"rule", "save", "lease", "writeRemotes"}
      /\ UNCHANGED <<file, leases, remotes, rules, mode, lockQ>>
  BY DEF NoPriority, SaveFails, At, store, panel
<1>4. left.faults = 0 => left'.faults = 0
  BY <1>1 DEF NoPriority, SaveFails, Bounds
<1> QED
  BY <1>2, <1>3, <1>4

\* Only a toggle changes the request of a process: it becomes a set.
LEMMA RequestKept ==
  ASSUME Inv, NEW p \in Everyone, Work(p)
  PROVE  \/ proc'[p].req = proc[p].req
         \/ proc[p].req.kind = "toggle" /\ proc'[p].req.kind = "set"
<1>1. proc \in [Everyone -> Local] /\ proc[p] \in Local /\ proc[p].req \in Request
  BY LocalFacts
<1> USE <1>1 DEF Local, Becomes
<1>2. CASE Load(p) \/ ReadInputs(p)
  BY <1>2 DEF Load, ReadInputs
<1>3. CASE DropRemote(p) \/ BuildIndexes(p)
  BY <1>3 DEF DropRemote, BuildIndexes
<1>4. CASE MergeLease(p)
  <2>1. PICK r \in Lease : SkipRemoteLease(p, r) \/ UpdateKnown(p, r)
                             \/ AdoptByIp(p, r) \/ AppendNew(p, r)
    BY <1>4 DEF MergeLease
  <2>2. CASE SkipRemoteLease(p, r)
    BY <2>2 DEF SkipRemoteLease
  <2>3. CASE UpdateKnown(p, r)
    BY <2>3 DEF UpdateKnown
  <2>4. CASE AdoptByIp(p, r)
    BY <2>4 DEF AdoptByIp
  <2>5. CASE AppendNew(p, r)
    BY <2>5 DEF AppendNew
  <2> QED
    BY <2>1, <2>2, <2>3, <2>4, <2>5
<1>5. CASE SaveSync(p)
  BY <1>5 DEF SaveSync
<1>6. CASE Find(p)
  <2> DEFINE q == [proc[p].req EXCEPT !.kind = "set",
                     !.vpn = ~ proc[p].devs[FindDevice(proc[p].devs, proc[p].req.mac)].vpn]
  <2>1. q.kind = "set"
    BY DEF Request
  <2>2. CASE proc[p].req.kind = "toggle"
    <3>1. CASE proc' = [proc EXCEPT ![p] = [proc[p] EXCEPT !.pc = "load", !.req = q]]
      <4> HIDE DEF q
      <4> QED
        BY <2>1, <2>2, <3>1
    <3>2. CASE proc' = [proc EXCEPT ![p] = [proc[p] EXCEPT !.pc = "failed"]]
      BY <3>2
    <3> QED
      BY <1>6, <2>2, <3>1, <3>2 DEF Find
  <2>3. CASE proc[p].req.kind # "toggle"
    BY <1>6, <2>3 DEF Find
  <2> QED
    BY <2>2, <2>3
<1>7. CASE DisableRule(p) \/ AddRule(p)
  <2>1. AfterRule(p, proc[p].at).req = proc[p].req
    BY DEF AfterRule
  <2>2. [proc[p] EXCEPT !.pc = "rule"].req = proc[p].req
    OBVIOUS
  <2> QED
    BY <1>7, <2>1, <2>2 DEF DisableRule, AddRule
<1>8. CASE AddDevice(p)
  BY <1>8 DEF AddDevice
<1>9. CASE PurgeOne(p) \/ PurgeEnd(p) \/ Save(p) \/ SaveFails(p) \/ NoPriority(p)
  BY <1>9 DEF PurgeOne, PurgeEnd, Save, SaveFails, NoPriority
<1>10. CASE ReadRemotes(p) \/ WriteRemotes(p) \/ UnknownRemote(p)
  BY <1>10 DEF ReadRemotes, WriteRemotes, UnknownRemote
<1> QED
  BY <1>2, <1>3, <1>4, <1>5, <1>6, <1>7, <1>8, <1>9, <1>10 DEF Work

-----------------------------------------------------------------------------
\* Steps of the event loop and of the environment.

\* An idle process, and one the panel starts itself, are in order.
LEMMA OwnLocals ==
  ASSUME NEW k \in Kinds
  PROVE  /\ Idle \in Local /\ LocalInv(Idle) /\ Idle.pc = "idle"
         /\ Started(k) \in Local /\ LocalInv(Started(k))
         /\ Started(k).pc = "load" /\ Started(k).req.kind = k
<1>1. (CHOOSE m \in Macs : TRUE) \in Macs
  BY ConstantsAssumption
<1>2. (CHOOSE i \in Ips : TRUE) \in Ips
  BY ConstantsAssumption
<1>3. (CHOOSE r \in RemoteIds : TRUE) \in RemoteIds
  BY ConstantsAssumption
<1>4. \A c \in Kinds : Own(c) \in Request /\ Own(c).kind = c
  BY <1>1, <1>2, <1>3 DEF Own, Request
<1>5. "list" \in Kinds
  BY DEF Kinds, DeviceKinds, SyncKinds
<1>6. NoMacs \in [Macs -> Nat] /\ NoIps \in [Ips -> Nat] /\ Empty \in Registry
  BY DEF NoMacs, NoIps, Empty, Registry
<1>7. <<>> \in Seq(Device) /\ <<>> \in Seq(Lease) /\ DistinctMacs(<<>>)
  BY DEF DistinctMacs
<1>8. Idle \in Local
  BY <1>4, <1>5, <1>6, <1>7 DEF Idle, Local, Labels
<1>9. LocalInv(Idle) /\ Idle.pc = "idle"
  BY <1>7 DEF Idle, LocalInv
<1>10. Started(k) \in Local /\ Started(k).pc = "load" /\ Started(k).req.kind = k
  BY <1>4, <1>8 DEF Started, Local, Labels
<1>11. LocalInv(Started(k))
  BY <1>7 DEF Started, Idle, LocalInv
<1> QED
  BY <1>8, <1>9, <1>10, <1>11

\* The panel starts with files that satisfy the invariant and nothing running.
LEMMA InitInv == Init => Inv
<1> SUFFICES ASSUME Init PROVE Inv
  OBVIOUS
<1>1. Idle \in Local /\ LocalInv(Idle) /\ Idle.pc = "idle"
  BY OwnLocals DEF Kinds, DeviceKinds, SyncKinds
<1>2. \A p \in Everyone : proc[p] = Idle
  BY DEF Init
<1>3. file \in Seq(Device) /\ DistinctMacs(file)
  BY ConstantsAssumption DEF Init, DistinctMacs
<1>4. TypeOK
  <2>1. remotes \in Registry
    BY DEF Init, Empty, Registry
  <2>2. proc \in [Everyone -> Local]
    BY <1>1 DEF Init
  <2>3. /\ leases \in LeaseFiles /\ rules \subseteq Ips /\ mode = "down"
        /\ unsaved \subseteq Ips
    BY DEF Init
  <2>4. lockQ \in Seq(Procs)
    BY DEF Init
  <2>5. left \in Bounds
    BY ConstantsAssumption DEF Init
  <2> QED
    BY <1>3, <2>1, <2>2, <2>3, <2>4, <2>5 DEF TypeOK
<1>5. ListsConsistent
  BY <1>1, <1>2, <1>3 DEF ListsConsistent
<1>6. LockInv
  <2>1. lockQ = <<>> /\ DOMAIN lockQ = {}
    BY DEF Init
  <2>2. \A p \in Procs : At(p, "idle")
    BY <1>1, <1>2 DEF At, Everyone
  <2> QED
    BY <2>1, <2>2 DEF LockInv, IsInjective, At
<1> QED
  BY <1>4, <1>5, <1>6 DEF Inv

\* A request is queued once: it was idle, so it was not in the queue.
LEMMA AcceptKeepsInv ==
  ASSUME Inv, NEW p \in Procs, NEW r \in Requests, Accept(p, r)
  PROVE  Inv'
<1> DEFINE n == CASE r.kind \in DeviceKinds -> "wait"
                  [] r.kind \in RemoteKinds -> "readRemotes"
                  [] OTHER -> "done"
           l == [Idle EXCEPT !.req = r, !.pc = n]
<1>1. /\ At(p, "idle") /\ left.requests > 0
      /\ left' = [left EXCEPT !.requests = @ - 1]
      /\ lockQ' = IF r.kind \in DeviceKinds THEN Append(lockQ, p) ELSE lockQ
      /\ Becomes(p, l) /\ UNCHANGED <<store, rules, mode, unsaved>>
  BY DEF Accept
<1>2. r \in Request
  BY ConstantsAssumption
<1>3. n \in {"wait", "readRemotes", "done"} /\ (n = "wait" <=> r.kind \in DeviceKinds)
  BY DEF DeviceKinds, SyncKinds, RemoteKinds, PurgeKinds
<1> HIDE DEF n
<1>4. Idle \in Local /\ LocalInv(Idle)
  BY OwnLocals DEF Kinds, DeviceKinds, SyncKinds
<1>5. l \in Local /\ LocalInv(l) /\ l.pc = n /\ l.req = r
  BY <1>2, <1>3, <1>4 DEF Local, LocalInv, Labels
<1> HIDE DEF l
<1>6. p \in Everyone /\ proc \in [Everyone -> Local] /\ lockQ \in Seq(Procs)
  BY DEF Everyone, Inv, TypeOK
<1>7. /\ proc' \in [Everyone -> Local] /\ proc'[p] = l
      /\ \A q \in Everyone \ {p} : proc'[q] = proc[q]
  BY <1>1, <1>5, <1>6 DEF Becomes
<1>8. lockQ' \in Seq(Procs)
  BY <1>1, <1>6, AppendProperties
<1>9. left' \in Bounds
  <2>1. left \in Bounds /\ left.requests - 1 \in Nat
    BY <1>1 DEF Bounds, Inv, TypeOK
  <2> QED
    BY <1>1, <2>1 DEF Bounds
<1>10. TypeOK'
  BY <1>1, <1>7, <1>8, <1>9 DEF Inv, TypeOK, store
<1>11. ListsConsistent'
  BY <1>1, <1>5, <1>7 DEF Inv, ListsConsistent, store
<1>12. LockInv'
  <2>1. \A q \in Procs : q # p => proc'[q] = proc[q]
    BY <1>7 DEF Everyone
  <2>2. CASE r.kind \in DeviceKinds
    <3>1. /\ DOMAIN lockQ = 1 .. Len(lockQ) /\ Len(lockQ) \in Nat
          /\ DOMAIN lockQ' = 1 .. Len(lockQ) + 1
          /\ lockQ'[Len(lockQ) + 1] = p
          /\ \A i \in DOMAIN lockQ : lockQ'[i] = lockQ[i]
      BY <1>1, <1>6, <2>2, AppendProperties
    <3>2. \A i \in DOMAIN lockQ : lockQ[i] # p /\ lockQ[i] \in Procs
      BY <1>1, <1>6 DEF Inv, LockInv, At
    <3>3. IsInjective(lockQ')
      BY <3>1, <3>2 DEF IsInjective, Inv, LockInv
    <3>4. IsLocked(p)' /\ At(p, "wait")'
      BY <1>3, <1>5, <1>7, <2>2 DEF IsLocked, At
    <3>5. \A q \in Procs : (\E i \in DOMAIN lockQ' : lockQ'[i] = q)
                               <=> q = p \/ \E i \in DOMAIN lockQ : lockQ[i] = q
      BY <3>1
    <3>6. \A q \in Procs : (\E i \in DOMAIN lockQ : lockQ[i] = q) => lockQ'[1] = lockQ[1]
      BY <3>1
    <3>7. ASSUME NEW q \in Procs
          PROVE  /\ At(q, "wait")' => IsLocked(q)'
                 /\ (\E i \in DOMAIN lockQ' : lockQ'[i] = q)
                       <=> (~ At(q, "idle") /\ IsLocked(q))'
                 /\ (IsLocked(q) /\ proc[q].pc \notin {"idle", "wait"})'
                       => lockQ'[1] = q
      <4>1. CASE q = p
        BY <3>4, <3>5, <4>1 DEF At
      <4>2. CASE q # p
        <5>1. proc'[q] = proc[q]
          BY <2>1, <4>2
        <5> QED
          BY <3>5, <3>6, <4>2, <5>1 DEF Inv, LockInv, At, IsLocked
      <4> QED
        BY <4>1, <4>2
    <3> QED
      BY <3>3, <3>7 DEF LockInv
  <2>3. CASE r.kind \notin DeviceKinds
    <3>1. ~ IsLocked(p)' /\ ~ At(p, "wait")' /\ ~ IsLocked(p)'
      BY <1>3, <1>5, <1>7, <2>3 DEF IsLocked, At
    <3>2. lockQ' = lockQ /\ ~ \E i \in DOMAIN lockQ : lockQ[i] = p
      BY <1>1, <2>3 DEF Inv, LockInv, At
    <3> QED
      BY <2>1, <3>1, <3>2 DEF Inv, LockInv, At, IsLocked
  <2> QED
    BY <2>2, <2>3
<1> QED
  BY <1>10, <1>11, <1>12 DEF Inv

\* The first of the queue gets past the wait.
LEMMA DispatchKeepsInv ==
  ASSUME Inv, NEW p \in Procs, Dispatch(p)
  PROVE  Inv'
<1> DEFINE l == [proc[p] EXCEPT !.pc = "load"]
<1>1. /\ At(p, "wait") /\ Head(lockQ) = p /\ Becomes(p, l)
      /\ UNCHANGED <<store, rules, panel, left>>
  BY DEF Dispatch
<1>2. p \in Everyone /\ proc \in [Everyone -> Local] /\ lockQ \in Seq(Procs)
  BY DEF Everyone, Inv, TypeOK
<1>3. l \in Local /\ LocalInv(l) /\ l.pc = "load" /\ l.req = proc[p].req
  BY <1>2, LocalFacts DEF Local, LocalInv, Labels
<1> HIDE DEF l
<1>4. /\ proc' \in [Everyone -> Local] /\ proc'[p] = l
      /\ \A q \in Everyone \ {p} : proc'[q] = proc[q]
  BY <1>1, <1>2, <1>3 DEF Becomes
<1>5. TypeOK'
  BY <1>1, <1>4 DEF Inv, TypeOK, store, panel
<1>6. ListsConsistent'
  BY <1>1, <1>3, <1>4 DEF Inv, ListsConsistent, store
<1>7. lockQ' = lockQ
  BY <1>1 DEF panel
<1>8. lockQ[1] = p
  BY <1>1
<1>9. \A q \in Procs : /\ IsLocked(q)' <=> IsLocked(q)
                       /\ At(q, "idle")' <=> At(q, "idle")
                       /\ q # p => proc'[q] = proc[q]
  <2> SUFFICES ASSUME NEW q \in Procs
               PROVE  /\ IsLocked(q)' <=> IsLocked(q)
                      /\ At(q, "idle")' <=> At(q, "idle")
                      /\ q # p => proc'[q] = proc[q]
    OBVIOUS
  <2>1. q \in Everyone
    BY DEF Everyone
  <2> QED
    BY <1>1, <1>3, <1>4, <2>1 DEF IsLocked, At
<1>10. proc'[p].pc = "load"
  BY <1>3, <1>4
<1>11. LockInv'
  BY <1>7, <1>8, <1>9, <1>10 DEF Inv, LockInv, At
<1> QED
  BY <1>5, <1>6, <1>11 DEF Inv

\* What is left of the queue when its head goes.
LEMMA QueueTail ==
  ASSUME NEW s \in Seq(Procs), IsInjective(s), s # <<>>
  PROVE  /\ Tail(s) \in Seq(Procs) /\ IsInjective(Tail(s))
         /\ \A q \in Procs : (\E i \in DOMAIN Tail(s) : Tail(s)[i] = q)
                                 <=> q # s[1] /\ \E i \in DOMAIN s : s[i] = q
<1>1. /\ Tail(s) \in Seq(Procs) /\ Len(Tail(s)) = Len(s) - 1
      /\ \A i \in 1 .. Len(Tail(s)) : Tail(s)[i] = s[i + 1]
  BY HeadTailProperties
<1>2. /\ Len(s) \in Nat /\ Len(s) # 0 /\ DOMAIN s = 1 .. Len(s)
      /\ DOMAIN Tail(s) = 1 .. Len(s) - 1
  BY <1>1, EmptySeq
<1>3. \A i, j \in 1 .. Len(s) : s[i] = s[j] => i = j
  BY <1>2 DEF IsInjective
<1>4. \A i \in 1 .. Len(s) - 1 : Tail(s)[i] = s[i + 1] /\ i + 1 \in 1 .. Len(s)
  BY <1>1, <1>2
<1> DEFINE t == Tail(s)
<1> HIDE DEF t
<1>5. \A i \in 1 .. Len(s) - 1 : t[i] = s[i + 1]
  BY <1>4 DEF t
<1>6. IsInjective(t)
  <2> SUFFICES ASSUME NEW i \in 1 .. Len(s) - 1, NEW j \in 1 .. Len(s) - 1,
                      t[i] = t[j]
               PROVE  i = j
    BY <1>2 DEF IsInjective, t
  <2>1. s[i + 1] = s[j + 1] /\ i + 1 \in 1 .. Len(s) /\ j + 1 \in 1 .. Len(s)
    BY <1>2, <1>5
  <2>2. i + 1 = j + 1
    BY <1>3, <2>1
  <2> QED
    BY <1>2, <2>2
<1>7. ASSUME NEW q \in Procs
      PROVE  (\E i \in 1 .. Len(s) - 1 : t[i] = q)
                 <=> q # s[1] /\ \E i \in 1 .. Len(s) : s[i] = q
  <2>1. ASSUME NEW i \in 1 .. Len(s) - 1, t[i] = q
        PROVE  q # s[1] /\ \E k \in 1 .. Len(s) : s[k] = q
    <3>1. s[i + 1] = q /\ i + 1 \in 1 .. Len(s) /\ i + 1 # 1 /\ 1 \in 1 .. Len(s)
      BY <1>2, <1>5, <2>1
    <3> QED
      BY <1>3, <3>1
  <2>2. ASSUME NEW i \in 1 .. Len(s), s[i] = q, q # s[1]
        PROVE  \E k \in 1 .. Len(s) - 1 : t[k] = q
    <3>1. i # 1
      BY <2>2
    <3>2. i - 1 \in 1 .. Len(s) - 1 /\ (i - 1) + 1 = i
      BY <1>2, <3>1
    <3>3. t[i - 1] = q
      BY <1>5, <2>2, <3>2
    <3> QED
      BY <3>2, <3>3
  <2> QED
    BY <2>1, <2>2
<1> QED
  BY <1>1, <1>2, <1>6, <1>7 DEF t

\* A process that ends leaves the queue if it was in it: it was its head.
LEMMA FinishKeepsInv ==
  ASSUME Inv, NEW p \in Procs, Finish(p)
  PROVE  Inv'
<1>1. /\ proc[p].pc \in {"done", "failed"}
      /\ UNCHANGED <<store, rules, mode, unsaved, left>>
  BY DEF Finish
<1>2. lockQ' = IF IsLocked(p) THEN Tail(lockQ) ELSE lockQ
  BY DEF Finish
<1>3. p \in Everyone /\ Main \in Everyone /\ Main # p /\ proc \in [Everyone -> Local]
  BY ConstantsAssumption DEF Everyone, Inv, TypeOK
<1>4. \A k \in Kinds : Idle \in Local /\ LocalInv(Idle) /\ Idle.pc = "idle"
                       /\ Started(k) \in Local /\ LocalInv(Started(k))
  BY OwnLocals
<1>5. "sync" \in Kinds
  BY DEF Kinds, DeviceKinds, SyncKinds
<1>6. /\ proc'[p] = Idle /\ proc'[Main] \in {Started("sync"), proc[Main]}
      /\ \A q \in Everyone \ {p, Main} : proc'[q] = proc[q]
      /\ DOMAIN proc' = Everyone
  BY <1>3 DEF Finish
<1>7. proc' \in [Everyone -> Local] /\ \A q \in Everyone : LocalInv(proc'[q])
  <2>1. ASSUME NEW q \in Everyone PROVE proc'[q] \in Local /\ LocalInv(proc'[q])
    <3>1. proc'[q] \in {Idle, Started("sync"), proc[q]}
      BY <1>6
    <3> QED
      BY <1>4, <1>5, <3>1, LocalFacts
  <2>2. proc' = [q \in Everyone |-> proc'[q]]
    BY <1>3 DEF Finish
  <2> QED
    BY <2>1, <2>2
<1>8. lockQ \in Seq(Procs) /\ IsInjective(lockQ)
  BY DEF Inv, TypeOK, LockInv
<1>9. IsLocked(p) => lockQ # <<>> /\ lockQ[1] = p
  <2>1. SUFFICES ASSUME IsLocked(p) PROVE lockQ # <<>> /\ lockQ[1] = p
    OBVIOUS
  <2>2. lockQ[1] = p /\ \E i \in DOMAIN lockQ : lockQ[i] = p
    BY <1>1, <2>1 DEF Inv, LockInv, At
  <2> QED
    BY <2>2
<1>10. lockQ' \in Seq(Procs) /\ IsInjective(lockQ')
  BY <1>2, <1>8, <1>9, QueueTail
<1>11. TypeOK'
  BY <1>1, <1>7, <1>10 DEF Inv, TypeOK, store
<1>12. ListsConsistent'
  BY <1>1, <1>7 DEF Inv, ListsConsistent, store
<1>13. ASSUME NEW q \in Procs
       PROVE  (\E i \in DOMAIN lockQ' : lockQ'[i] = q)
                  <=> q # p /\ \E i \in DOMAIN lockQ : lockQ[i] = q
  <2>1. CASE IsLocked(p)
    BY <1>2, <1>8, <1>9, <2>1, QueueTail
  <2>2. CASE ~ IsLocked(p)
    BY <1>2, <2>2 DEF Inv, LockInv
  <2> QED
    BY <2>1, <2>2
<1>14. ASSUME NEW q \in Procs, q # p
       PROVE  proc'[q] = proc[q]
  BY <1>6, <1>14, ConstantsAssumption DEF Everyone
<1>15. LockInv'
  <2> SUFFICES ASSUME NEW q \in Procs
               PROVE  /\ At(q, "wait")' => IsLocked(q)'
                      /\ (\E i \in DOMAIN lockQ' : lockQ'[i] = q)
                            <=> (~ At(q, "idle") /\ IsLocked(q))'
                      /\ (IsLocked(q) /\ proc[q].pc \notin {"idle", "wait"})'
                            => lockQ'[1] = q
    BY <1>10 DEF LockInv
  <2>1. CASE q = p
    BY <1>4, <1>5, <1>6, <1>13, <2>1 DEF At
  <2>2. CASE q # p
    <3>1. proc'[q] = proc[q]
      BY <1>14, <2>2
    <3>2. ~ IsLocked(p) => lockQ' = lockQ
      BY <1>2
    <3>3. IsLocked(p) => ~ (IsLocked(q) /\ proc[q].pc \notin {"idle", "wait"})
      BY <1>9, <2>2 DEF Inv, LockInv
    <3> QED
      BY <1>13, <2>2, <3>1, <3>2, <3>3 DEF Inv, LockInv, At, IsLocked
  <2> QED
    BY <2>1, <2>2
<1> QED
  BY <1>11, <1>12, <1>15 DEF Inv

\* What Main does on the loop touches neither the queue nor a request.
LEMMA MainKeepsInv ==
  ASSUME Inv, FinishMain \/ Restart
  PROVE  Inv'
<1>1. \A k \in Kinds : Idle \in Local /\ LocalInv(Idle)
                       /\ Started(k) \in Local /\ LocalInv(Started(k))
  BY OwnLocals
<1>2. "apply" \in Kinds /\ Main \in Everyone /\ proc \in [Everyone -> Local]
  BY DEF Kinds, DeviceKinds, SyncKinds, Everyone, Inv, TypeOK
<1>3. PICK l \in {Idle, Started("apply")} : Becomes(Main, l)
  BY DEF FinishMain, Restart
<1>4. /\ UNCHANGED <<file, leases, remotes, rules, lockQ, left>>
      /\ mode' \in {"down", "starting", "serving"} /\ unsaved' \in {{}, unsaved}
  BY DEF FinishMain, Restart, store
<1>5. /\ proc' \in [Everyone -> Local] /\ \A q \in Everyone : LocalInv(proc'[q])
      /\ \A q \in Everyone \ {Main} : proc'[q] = proc[q]
  BY <1>1, <1>2, <1>3, LocalFacts DEF Becomes
<1>6. TypeOK'
  BY <1>4, <1>5 DEF Inv, TypeOK
<1>7. ListsConsistent'
  BY <1>4, <1>5 DEF Inv, ListsConsistent
<1>8. \A q \in Procs : proc'[q] = proc[q]
  BY <1>5, ConstantsAssumption DEF Everyone
<1>9. LockInv'
  BY <1>4, <1>8 DEF Inv, LockInv, At, IsLocked
<1> QED
  BY <1>6, <1>7, <1>9 DEF Inv

\* A change of the leases keeps the invariant.
LEMMA DhcpKeepsInv ==
  ASSUME Inv, DhcpChange
  PROVE  Inv'
<1>1. /\ leases' \in LeaseFiles /\ left' = [left EXCEPT !.dhcp = @ - 1]
      /\ UNCHANGED <<file, remotes, rules, mode, lockQ, proc, unsaved>>
  BY DEF DhcpChange, panel
<1>2. left' \in Bounds
  <2>1. left \in Bounds /\ left.dhcp - 1 \in Nat
    BY DEF DhcpChange, Bounds, Inv, TypeOK
  <2> QED
    BY <1>1, <2>1 DEF Bounds
<1>3. TypeOK'
  BY <1>1, <1>2 DEF Inv, TypeOK
<1> QED
  BY <1>1, <1>3 DEF Inv, ListsConsistent, LockInv, At, IsLocked

\* A crash forgets every process and the queue together.
LEMMA CrashKeepsInv ==
  ASSUME Inv, Crash
  PROVE  Inv'
<1>1. /\ left' = [left EXCEPT !.crashes = @ - 1] /\ mode' = "down"
      /\ lockQ' = <<>> /\ proc' = [q \in Everyone |-> Idle]
      /\ rules' \in {rules, {}} /\ UNCHANGED <<file, leases, remotes, unsaved>>
  BY DEF Crash, store
<1>2. Idle \in Local /\ LocalInv(Idle) /\ Idle.pc = "idle"
  BY OwnLocals DEF Kinds, DeviceKinds, SyncKinds
<1>3. left' \in Bounds
  <2>1. left \in Bounds /\ left.crashes - 1 \in Nat
    BY DEF Crash, Bounds, Inv, TypeOK
  <2> QED
    BY <1>1, <2>1 DEF Bounds
<1>4. proc' \in [Everyone -> Local] /\ \A q \in Everyone : proc'[q] = Idle
  BY <1>1, <1>2
<1>5. lockQ' \in Seq(Procs) /\ DOMAIN lockQ' = {}
  BY <1>1
<1>6. TypeOK'
  BY <1>1, <1>3, <1>4, <1>5 DEF Inv, TypeOK
<1>7. ListsConsistent'
  BY <1>1, <1>2, <1>4 DEF Inv, ListsConsistent
<1>8. \A q \in Procs : At(q, "idle")'
  BY <1>2, <1>4 DEF At, Everyone
<1>9. LockInv'
  BY <1>5, <1>8 DEF LockInv, IsInjective, At
<1> QED
  BY <1>6, <1>7, <1>9 DEF Inv

\* Every step keeps the invariant.
LEMMA StepKeepsInv == Inv /\ [Next]_vars => Inv'
<1> SUFFICES ASSUME Inv, [Next]_vars PROVE Inv'
  OBVIOUS
<1>1. CASE \E p \in Procs : \E r \in Requests : Accept(p, r)
  BY <1>1, AcceptKeepsInv
<1>2. CASE \E p \in Procs : Dispatch(p) \/ Finish(p)
  BY <1>2, DispatchKeepsInv, FinishKeepsInv
<1>3. CASE \E p \in Everyone : Work(p)
  BY <1>3, WorkEffect, EffectKeepsInv
<1>4. CASE FinishMain \/ Restart
  BY <1>4, MainKeepsInv
<1>5. CASE DhcpChange
  BY <1>5, DhcpKeepsInv
<1>6. CASE Crash
  BY <1>6, CrashKeepsInv
<1>7. CASE UNCHANGED vars
  BY <1>7 DEF Inv, TypeOK, ListsConsistent, LockInv, At, IsLocked, vars
<1> QED
  BY <1>1, <1>2, <1>3, <1>4, <1>5, <1>6, <1>7 DEF Next

-----------------------------------------------------------------------------
\* The theorems.

\* The invariant holds of every execution.
THEOREM Invariant == Spec => []Inv
<1>1. Init => Inv
  BY InitInv
<1>2. Inv /\ [Next]_vars => Inv'
  BY StepKeepsInv
<1> QED
  BY <1>1, <1>2, PTL DEF Spec

\* Every variable and every process keeps the shape the code gives it.
THEOREM TypeCorrect == Spec => []TypeOK
<1>1. Inv => TypeOK
  BY DEF Inv
<1> QED
  BY <1>1, Invariant, PTL

\* The lists of store.py keep one record per MAC, and sync never follows an
\* index to a position that is not there, whatever requests, remotes, lease
\* files and crashes interleave: also when two operations run at once.
THEOREM ListsStayConsistent == Spec => []ListsConsistent
<1>1. Inv => ListsConsistent
  BY DEF Inv
<1> QED
  BY <1>1, Invariant, PTL

\* state_lock queues every device request once, first come first served, and
\* only its holder has got past the wait.
THEOREM LockHolds == Spec => []LockInv
<1>1. Inv => LockInv
  BY DEF Inv
<1> QED
  BY <1>1, Invariant, PTL

-----------------------------------------------------------------------------
\* Device operations run one at a time. Remote requests are left out: they run
\* without state_lock. The sync of sync_and_broadcast_all takes no lock either,
\* and is kept apart from the others by the loop alone: it starts when the
\* holder ends, before anyone else is past the wait.
OneInv ==
  /\ Inv
  /\ \A p \in Procs : ~ At(p, "idle") => IsLocked(p)
  /\ ~ At(Main, "idle") => \A p \in Procs : proc[p].pc \in {"idle", "wait"}
  /\ mode = "down" => \A p \in Everyone : At(p, "idle")
  /\ mode = "starting" => \A p \in Procs : At(p, "idle")

\* Nothing is at work at first.
LEMMA OneInvInit == Init => OneInv
<1> SUFFICES ASSUME Init PROVE OneInv
  OBVIOUS
<1>1. Idle.pc = "idle"
  BY OwnLocals DEF Kinds, DeviceKinds, SyncKinds
<1>2. \A p \in Everyone : At(p, "idle")
  BY <1>1 DEF Init, At
<1> QED
  BY <1>2, InitInv DEF OneInv, Everyone

\* When every request is a device operation, every step keeps one process at work.
LEMMA OneInvStep ==
  ASSUME \A r \in Requests : r.kind \in DeviceKinds, OneInv, [Next]_vars
  PROVE  OneInv'
<1>1. Inv /\ Inv'
  BY StepKeepsInv DEF OneInv
<1>2. /\ proc \in [Everyone -> Local] /\ Main \in Everyone /\ Main \notin Procs
      /\ \A p \in Procs : p \in Everyone
  BY <1>1, ConstantsAssumption DEF Inv, TypeOK, Everyone
<1>3. Idle.pc = "idle" /\ \A k \in Kinds : Started(k).pc = "load"
  BY OwnLocals DEF Kinds, DeviceKinds, SyncKinds
<1>4. CASE \E p \in Procs : \E r \in Requests : Accept(p, r)
  <2>1. PICK p \in Procs, r \in Requests : Accept(p, r)
    BY <1>4
  <2>2. r \in Request /\ r.kind \in DeviceKinds
    BY ConstantsAssumption
  <2> DEFINE l == [Idle EXCEPT !.req = r, !.pc = "wait"]
  <2> DEFINE n == CASE r.kind \in DeviceKinds -> "wait"
                    [] r.kind \in RemoteKinds -> "readRemotes"
                    [] OTHER -> "done"
  <2>3. n = "wait"
    BY <2>2 DEF DeviceKinds, SyncKinds, RemoteKinds, PurgeKinds
  <2>4. Becomes(p, [Idle EXCEPT !.req = r, !.pc = n])
    BY <2>1 DEF Accept
  <2> HIDE DEF n
  <2>5. Becomes(p, l) /\ At(Main, "idle") /\ mode = "serving" /\ mode' = "serving"
    BY <2>1, <2>3, <2>4 DEF Accept
  <2>6. l.pc = "wait" /\ l.req = r
    BY DEF Idle
  <2> HIDE DEF l
  <2>7. proc'[p] = l /\ \A q \in Everyone \ {p} : proc'[q] = proc[q]
    BY <1>2, <2>5 DEF Becomes
  <2>8. At(Main, "idle")'
    BY <1>2, <2>5, <2>7 DEF At
  <2>9. IsLocked(p)'
    BY <2>2, <2>6, <2>7 DEF IsLocked
  <2>10. \A q \in Procs : ~ At(q, "idle")' => IsLocked(q)'
    BY <1>2, <2>7, <2>9 DEF OneInv, At, IsLocked
  <2> QED
    BY <1>1, <2>5, <2>8, <2>10 DEF OneInv
<1>5. CASE \E p \in Procs : Dispatch(p)
  <2>1. PICK p \in Procs : Dispatch(p)
    BY <1>5
  <2> DEFINE l == [proc[p] EXCEPT !.pc = "load"]
  <2>2. Becomes(p, l) /\ At(Main, "idle") /\ mode' = mode /\ At(p, "wait")
    BY <2>1 DEF Dispatch, panel
  <2>3. l.req = proc[p].req
    BY <1>2 DEF Local
  <2> HIDE DEF l
  <2>4. proc'[p] = l /\ \A q \in Everyone \ {p} : proc'[q] = proc[q]
    BY <1>2, <2>2 DEF Becomes
  <2>5. At(Main, "idle")'
    BY <1>2, <2>2, <2>4 DEF At
  <2>6. mode \notin {"down", "starting"}
    BY <1>2, <2>2 DEF OneInv, At
  <2>7. IsLocked(p)'
    BY <2>2, <2>3, <2>4 DEF OneInv, At, IsLocked
  <2>8. \A q \in Procs : ~ At(q, "idle")' => IsLocked(q)'
    BY <1>2, <2>4, <2>7 DEF OneInv, At, IsLocked
  <2> QED
    BY <1>1, <2>2, <2>5, <2>6, <2>8 DEF OneInv
<1>6. CASE \E p \in Procs : Finish(p)
  <2>1. PICK p \in Procs : Finish(p)
    BY <1>6
  <2>2. proc[p].pc \in {"done", "failed"} /\ mode' = mode
    BY <2>1 DEF Finish
  <2>3. proc'[p] = Idle /\ \A q \in Everyone \ {p, Main} : proc'[q] = proc[q]
    BY <1>2, <2>1 DEF Finish
  <2>4. IsLocked(p) /\ mode \notin {"down", "starting"}
    BY <1>2, <2>2 DEF OneInv, At
  <2>5. \A q \in Procs \ {p} : proc[q].pc \in {"idle", "wait"}
    BY <1>1, <2>2, <2>4 DEF OneInv, Inv, LockInv, At
  <2>6. \A q \in Procs \ {p} : proc'[q] = proc[q]
    BY <1>2, <2>3
  <2>7. \A q \in Procs : proc'[q].pc \in {"idle", "wait"}
    BY <1>3, <2>3, <2>5, <2>6
  <2>8. \A q \in Procs : ~ At(q, "idle")' => IsLocked(q)'
    BY <1>3, <2>3, <2>6 DEF OneInv, At, IsLocked
  <2> QED
    BY <1>1, <2>2, <2>4, <2>7, <2>8 DEF OneInv
<1>7. CASE \E p \in Everyone : Work(p)
  <2>1. PICK p \in Everyone : Effect(p)
    BY <1>1, <1>7, WorkEffect
  <2>2. \A q \in Everyone \ {p} : proc'[q] = proc[q]
    BY <1>2, <2>1 DEF Effect
  <2>3. \A q \in Procs : ~ At(q, "idle")' => IsLocked(q)'
    BY <1>2, <2>1, <2>2 DEF Effect, OneInv, At, IsLocked
  <2>4. At(Main, "idle") <=> At(Main, "idle")'
    BY <1>2, <2>1, <2>2 DEF Effect, At
  <2>5. \A q \in Procs : proc[q].pc \in {"idle", "wait"}
                            => proc'[q].pc \in {"idle", "wait"}
    BY <1>2, <2>1, <2>2 DEF Effect
  <2>6. mode' = mode /\ mode # "down"
    BY <2>1 DEF Effect, OneInv, At
  <2>7. \A q \in Procs : At(q, "idle") => At(q, "idle")'
    BY <1>2, <2>1, <2>2 DEF Effect, At
  <2> QED
    BY <1>1, <2>3, <2>4, <2>5, <2>6, <2>7 DEF OneInv
<1>8. CASE FinishMain \/ Restart
  <2>1. PICK l \in {Idle, Started("apply")} : Becomes(Main, l)
    BY <1>8 DEF FinishMain, Restart
  <2>2. \A q \in Procs : proc'[q] = proc[q]
    BY <1>2, <2>1 DEF Becomes
  <2>3. CASE FinishMain
    <3>1. proc'[Main].pc = "idle" /\ proc[Main].pc # "idle"
      BY <1>2, <1>3, <2>3 DEF FinishMain, Becomes
    <3>2. CASE mode = "starting"
      <4>1. \A q \in Everyone : At(q, "idle")'
        BY <2>2, <3>1, <3>2 DEF OneInv, At, Everyone
      <4> QED
        BY <1>1, <1>2, <4>1 DEF OneInv
    <3>3. CASE mode # "starting"
      <4>1. mode' = "serving"
        BY <2>3, <3>3 DEF FinishMain
      <4> QED
        BY <1>1, <2>2, <3>1, <4>1 DEF OneInv, At, IsLocked
    <3> QED
      BY <3>2, <3>3
  <2>4. CASE Restart
    <3>1. mode' = "starting" /\ \A q \in Procs : At(q, "idle")
      BY <1>2, <2>4 DEF Restart, OneInv
    <3>2. \A q \in Procs : At(q, "idle")'
      BY <2>2, <3>1 DEF At
    <3> QED
      BY <1>1, <3>1, <3>2 DEF OneInv, At
  <2> QED
    BY <1>8, <2>3, <2>4
<1>9. CASE DhcpChange
  BY <1>1, <1>9 DEF DhcpChange, panel, OneInv, At, IsLocked
<1>10. CASE Crash
  <2>1. \A q \in Everyone : At(q, "idle")'
    BY <1>3, <1>10 DEF Crash, At
  <2> QED
    BY <1>1, <1>2, <2>1 DEF OneInv
<1>11. CASE UNCHANGED vars
  BY <1>1, <1>11 DEF vars, OneInv, At, IsLocked
<1> QED
  BY <1>4, <1>5, <1>6, <1>7, <1>8, <1>9, <1>10, <1>11 DEF Next

\* Then at most one process works.
LEMMA OneInvOne == OneInv => OneAtATime
<1> SUFFICES ASSUME OneInv, NEW p \in Everyone, NEW q \in Everyone,
                    Working(p), Working(q)
             PROVE  p = q
  BY DEF OneAtATime
<1>1. CASE p \in Procs /\ q \in Procs
  <2>1. \A o \in {p, q} : IsLocked(o) /\ proc[o].pc \notin {"idle", "wait"}
    BY <1>1 DEF OneInv, Working, At
  <2> QED
    BY <1>1, <2>1 DEF OneInv, Inv, LockInv
<1>2. CASE p = Main \/ q = Main
  <2>1. ~ At(Main, "idle")
    BY <1>2 DEF Working, At
  <2>2. \A o \in Procs : ~ Working(o)
    BY <2>1 DEF OneInv, Working
  <2> QED
    BY <2>2 DEF Everyone
<1> QED
  BY <1>1, <1>2 DEF Everyone

\* The mutual exclusion of device operations, for any number of requests.
THEOREM DeviceOperationsExclusive ==
  ASSUME \A r \in Requests : r.kind \in DeviceKinds
  PROVE  Spec => []OneAtATime
<1>1. Init => OneInv
  BY OneInvInit
<1>2. OneInv /\ [Next]_vars => OneInv'
  BY OneInvStep
<1>3. OneInv => OneAtATime
  BY OneInvOne
<1> QED
  BY <1>1, <1>2, <1>3, PTL DEF Spec

=============================================================================
