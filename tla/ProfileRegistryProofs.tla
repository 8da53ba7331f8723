----------------------- MODULE ProfileRegistryProofs -----------------------
(***************************************************************************)
(* Theorems about ProfileRegistry for every number of requests and runs of *)
(* the tool, any profiles, texts and peers, and every bound on the         *)
(* environment.                                                            *)
(***************************************************************************)
EXTENDS ProfileRegistry, ConfigNamesProofs, TLAPS

-----------------------------------------------------------------------------
\* The inductive invariant.

Fields == {"pc", "req", "peer", "peers", "next", "list", "changed", "answer", "stale",
           "disturbed"}

Job(j) == /\ j = [f \in Fields |-> j[f]]
          /\ j.pc \in Labels /\ j.stale \in BOOLEAN /\ j.disturbed \in BOOLEAN

\* A profile has its four fields and no other.
Formed(F) == \A q \in F : q = [key |-> q.key, ip |-> q.ip, name |-> q.name, mode |-> q.mode]

\* What differs between the file F and a list, by the jobs it may come from.
Changed(F, L) == (F \ Unlisted(L)) \cup (Unlisted(L) \ F)

\* A list has no two profiles alike, and unless the tool and the panel overlapped
\* it differs from the file only in what the job is about.
ListGood(j, F) ==
  j.pc \in {"merge", "save"} =>
    /\ Unique(j.list)
    /\ j.pc = "merge" => j.req.op # "patch"
    /\ ~ j.stale => \A q \in Changed(F, j.list) : About(j, q)

\* A request is in the queue of state_lock until it ends, and first in it while
\* it works.  The tool is never in the queue.
LockGood(p, j, Q) ==
  /\ p \in Callers => /\ j.pc # "idle" => \E i \in 1..Len(Q) : Q[i] = p
                      /\ j.pc \notin {"idle", "wait"} => Q # <<>> /\ Q[1] = p
  /\ p \in Tools => j.pc # "release"

Good(p, j, F, Q) == Job(j) /\ ListGood(j, F) /\ LockGood(p, j, Q)

RegistryInv ==
  /\ jobs = [p \in Processes |-> jobs[p]]
  /\ lockQ \in Seq(Callers)
  /\ Formed(file) /\ Unique(file) /\ readable \in BOOLEAN
  /\ \A p \in Processes : Good(p, jobs[p], file, lockQ)

-----------------------------------------------------------------------------
\* The lists.

\* Listing profiles and taking the places away again keeps them apart.
LEMMA ListedUnique ==
  ASSUME NEW F, Unique(F), Formed(F)
  PROVE  Unique(Listed(F)) /\ Unlisted(Listed(F)) = F
<1>1. Unique(Listed(F))
  <2>1. SUFFICES ASSUME NEW a \in Listed(F), NEW b \in Listed(F), Alike(a, b) PROVE a = b
    BY DEF Unique
  <2>2. PICK p \in F : a = [key |-> p.key, ip |-> p.ip, name |-> p.name, mode |-> p.mode, new |-> 0]
    BY DEF Listed
  <2>3. PICK q \in F : b = [key |-> q.key, ip |-> q.ip, name |-> q.name, mode |-> q.mode, new |-> 0]
    BY DEF Listed
  <2>4. Alike(p, q)
    BY <2>1, <2>2, <2>3 DEF Alike
  <2>5. p = q
    BY <2>4 DEF Unique
  <2>. QED BY <2>2, <2>3, <2>5
<1>2. ASSUME NEW q \in F PROVE q \in Unlisted(Listed(F))
  <2>. DEFINE e == [key |-> q.key, ip |-> q.ip, name |-> q.name, mode |-> q.mode, new |-> 0]
  <2>1. e \in Listed(F)
    BY DEF Listed
  <2>2. q = [key |-> e.key, ip |-> e.ip, name |-> e.name, mode |-> e.mode]
    BY DEF Formed
  <2>. QED BY <2>1, <2>2 DEF Unlisted
<1>3. \A q \in Unlisted(Listed(F)) : q \in F
  BY DEF Formed, Listed, Unlisted
<1>. QED BY <1>1, <1>2, <1>3

LEMMA UnlistedUnique ==
  ASSUME NEW L, Unique(L)
  PROVE  Unique(Unlisted(L)) /\ Formed(Unlisted(L))
BY DEF Unique, Unlisted, Alike, Formed

\* Putting a profile in keeps profiles apart and touches only those like it.
LEMMA PutUnique ==
  ASSUME NEW L, NEW e, Unique(L)
  PROVE  Unique(Put(L, e))
BY DEF Unique, Put, Alike

LEMMA PutChanges ==
  ASSUME NEW L, NEW e, NEW F, NEW q \in Changed(F, Put(L, e))
  PROVE  q \in Changed(F, L) \/ Alike(q, e)
<1>1. \A x \in Put(L, e) : x \in L \/ x = e
  BY DEF Put
<1>2. \A x \in L : x \in Put(L, e) \/ Alike(x, e)
  BY DEF Put
<1>. DEFINE U(x) == [key |-> x.key, ip |-> x.ip, name |-> x.name, mode |-> x.mode]
<1>3. CASE q \in F /\ q \notin Unlisted(Put(L, e))
  <2>1. SUFFICES ASSUME q \in Unlisted(L) PROVE Alike(q, e)
    BY <1>3 DEF Changed
  <2>2. PICK x \in L : q = U(x)
    BY <2>1 DEF Unlisted
  <2>3. x \notin Put(L, e)
    BY <1>3, <2>2 DEF Unlisted
  <2>4. Alike(x, e)
    BY <1>2, <2>3
  <2>. QED BY <2>2, <2>4 DEF Alike
<1>4. CASE q \in Unlisted(Put(L, e)) /\ q \notin F
  <2>1. PICK x \in Put(L, e) : q = U(x)
    BY <1>4 DEF Unlisted
  <2>2. CASE x \in L
    <3>1. q \in Unlisted(L)
      BY <2>1, <2>2 DEF Unlisted
    <3>. QED BY <3>1, <1>4 DEF Changed
  <2>3. CASE x = e
    BY <2>1, <2>3 DEF Alike
  <2>. QED BY <1>1, <2>1, <2>2, <2>3
<1>. QED BY <1>3, <1>4 DEF Changed

-----------------------------------------------------------------------------
\* What a step of one process does to the jobs.

LEMMA IdleGood ==
  ASSUME NEW p, NEW F, NEW Q
  PROVE  Good(p, Idle, F, Q)
BY DEF Good, Job, ListGood, LockGood, Idle, Fields, Labels

\* A job that is being worked on may end at any time.
LEMMA EndedGood ==
  ASSUME RegistryInv, NEW p \in Processes, NEW j, Job(j),
         jobs[p].pc \notin {"idle", "wait"}
  PROVE  Good(p, Ended(p, j), file, lockQ)
<1>1. CASE p \in Callers
  <2>1. Job([j EXCEPT !.pc = "release"]) /\ [j EXCEPT !.pc = "release"].pc = "release"
    BY DEF Job, Fields, Labels
  <2>2. Good(p, jobs[p], file, lockQ)
    BY DEF RegistryInv
  <2>3. p \notin Tools
    BY <1>1, RegistryAssumption
  <2>. QED BY <1>1, <2>1, <2>2, <2>3 DEF Good, Ended, ListGood, LockGood
<1>2. CASE p \notin Callers
  BY <1>2, IdleGood DEF Ended
<1>. QED BY <1>1, <1>2

\* What is good of the new values is good in the next state.
LEMMA GoodNext ==
  ASSUME \A q \in Processes : Good(q, jobs'[q], file', lockQ')
  PROVE  \A q \in Processes : Good(q, jobs[q], file, lockQ)'
BY DEF Good, Job, ListGood, LockGood, Changed, Unlisted, About, Named

\* A step that leaves the file and the lock alone.
LEMMA LocalStep ==
  ASSUME RegistryInv, NEW p \in Processes, NEW j, Good(p, j, file, lockQ), Becomes(p, j),
         UNCHANGED <<file, readable, lockQ>>
  PROVE  RegistryInv'
<1>1. /\ jobs' = [q \in Processes |-> jobs'[q]] /\ jobs'[p] = j
      /\ \A q \in Processes \ {p} : jobs'[q] = jobs[q]
  BY DEF RegistryInv, Becomes
<1>2. \A q \in Processes : Good(q, jobs'[q], file, lockQ)
  BY <1>1 DEF RegistryInv
<1>3. \A q \in Processes : Good(q, jobs[q], file, lockQ)'
  BY <1>2 DEF Good, Job, ListGood, LockGood, Changed, Unlisted, About, Named
<1>. QED BY <1>1, <1>3 DEF RegistryInv, Formed, Unique

LEMMA RaiseGood ==
  ASSUME RegistryInv, NEW p \in Processes, Raise(p), jobs[p].pc \notin {"idle", "wait"}
  PROVE  RegistryInv'
<1>1. Good(p, Ended(p, jobs[p]), file, lockQ)
  BY EndedGood DEF RegistryInv, Good
<1>. QED BY <1>1, LocalStep DEF Raise

\* A step that moves the program counter of p and changes nothing its list and
\* its place in the queue depend on.
LEMMA MoveGood ==
  ASSUME RegistryInv, NEW p \in Processes, NEW j, Job(j), jobs[p].pc \notin {"idle", "wait"},
         j.pc \notin {"merge", "save", "release"}
  PROVE  Good(p, j, file, lockQ)
<1>1. Good(p, jobs[p], file, lockQ)
  BY DEF RegistryInv
<1>. QED BY <1>1 DEF Good, ListGood, LockGood

-----------------------------------------------------------------------------
\* The invariant holds at the start and every step keeps it.

LEMMA InitGood == Init => RegistryInv
<1>. SUFFICES ASSUME Init PROVE RegistryInv
  OBVIOUS
<1>1. file \subseteq Profile /\ Unique(file)
  BY RegistryAssumption DEF Init, Start
<1>2. Formed(file)
  BY <1>1 DEF Formed, Profile
<1>3. \A p \in Processes : jobs[p] = Idle
  BY DEF Init
<1>4. \A p \in Processes : Good(p, jobs[p], file, lockQ)
  BY <1>3, IdleGood
<1>. QED BY <1>1, <1>2, <1>4 DEF Init, RegistryInv

LEMMA AskGood ==
  ASSUME RegistryInv, NEW p \in Processes, Ask(p)
  PROVE  RegistryInv'
<1>1. PICK r \in Requests : Becomes(p, [Idle EXCEPT !.pc = "wait", !.req = r])
  BY DEF Ask
<1>. DEFINE j == [Idle EXCEPT !.pc = "wait", !.req = r]
<1>2. /\ jobs' = [q \in Processes |-> jobs'[q]] /\ jobs'[p] = j
      /\ \A q \in Processes \ {p} : jobs'[q] = jobs[q]
  BY <1>1 DEF RegistryInv, Becomes
<1>3. p \in Callers /\ lockQ' = Append(lockQ, p) /\ file' = file /\ readable' = readable
  BY DEF Ask
<1>4. /\ lockQ' \in Seq(Callers) /\ lockQ'[Len(lockQ) + 1] = p /\ Len(lockQ') = Len(lockQ) + 1
      /\ \A i \in 1..Len(lockQ) : lockQ'[i] = lockQ[i]
      /\ Len(lockQ) \in Nat /\ lockQ' # <<>>
      /\ lockQ # <<>> => lockQ'[1] = lockQ[1]
  BY <1>3 DEF RegistryInv
<1>5. Good(p, j, file, lockQ')
  <2>1. Job(j) /\ j.pc = "wait"
    BY DEF Job, Idle, Fields, Labels
  <2>2. \E i \in 1..Len(lockQ') : lockQ'[i] = p
    BY <1>4
  <2>. QED BY <2>1, <2>2 DEF Good, ListGood, LockGood
<1>6. ASSUME NEW q \in Processes \ {p} PROVE Good(q, jobs[q], file, lockQ')
  <2>1. Good(q, jobs[q], file, lockQ)
    BY DEF RegistryInv
  <2>2. \A i \in 1..Len(lockQ) : i \in 1..Len(lockQ')
    BY <1>4
  <2>. QED BY <1>4, <2>1, <2>2 DEF Good, LockGood
<1>7. \A q \in Processes : Good(q, jobs'[q], file, lockQ')
  BY <1>2, <1>5, <1>6
<1>8. \A q \in Processes : Good(q, jobs[q], file, lockQ)'
  BY <1>3, <1>7 DEF Good, Job, ListGood, LockGood, Changed, Unlisted, About, Named
<1>. QED BY <1>2, <1>3, <1>4, <1>8 DEF RegistryInv, Formed, Unique

LEMMA EnterGood ==
  ASSUME RegistryInv, NEW p \in Processes, Enter(p)
  PROVE  RegistryInv'
<1>. DEFINE j == [jobs[p] EXCEPT !.pc = IF jobs[p].req.op = "patch" THEN "status" ELSE "conf"]
<1>1. Good(p, jobs[p], file, lockQ) /\ jobs[p].pc = "wait" /\ Head(lockQ) = p
  BY DEF RegistryInv, Enter, At
<1>2. Job(j) /\ j.pc \in {"status", "conf"}
  BY <1>1 DEF Good, Job, Fields, Labels
<1>3. p \in Callers => lockQ # <<>> /\ lockQ[1] = p
  BY <1>1 DEF Good, LockGood, RegistryInv
<1>4. Good(p, j, file, lockQ)
  BY <1>1, <1>2, <1>3 DEF Good, ListGood, LockGood
<1>. QED BY <1>4, LocalStep DEF Enter

LEMMA RunToolGood ==
  ASSUME RegistryInv, NEW p \in Processes, RunTool(p)
  PROVE  RegistryInv'
<1>1. PICK r \in Arguments : Becomes(p, [Idle EXCEPT !.pc = "show", !.req = r])
  BY DEF RunTool
<1>2. Job([Idle EXCEPT !.pc = "show", !.req = r]) /\ [Idle EXCEPT !.pc = "show", !.req = r].pc = "show"
  BY DEF Job, Idle, Fields, Labels
<1>3. p \notin Callers
  BY RegistryAssumption DEF RunTool
<1>4. Good(p, [Idle EXCEPT !.pc = "show", !.req = r], file, lockQ)
  BY <1>2, <1>3 DEF Good, ListGood, LockGood
<1>. QED BY <1>1, <1>4, LocalStep DEF RunTool

LEMMA ListStepGood ==
  ASSUME RegistryInv, NEW p \in Processes, List(p)
  PROVE  RegistryInv'
<1>1. Job(jobs[p]) /\ jobs[p].pc = "show"
  BY DEF RegistryInv, Good, List, At
<1>2. Job([jobs[p] EXCEPT !.pc = "conf"]) /\ [jobs[p] EXCEPT !.pc = "conf"].pc = "conf"
  BY <1>1 DEF Job, Fields, Labels
<1>3. CASE Raise(p)
  BY <1>1, <1>3, RaiseGood
<1>4. CASE Becomes(p, Idle) /\ UNCHANGED <<file, readable, lockQ>>
  BY <1>4, IdleGood, LocalStep
<1>5. CASE Becomes(p, [jobs[p] EXCEPT !.pc = "conf"]) /\ UNCHANGED <<file, readable, lockQ>>
  <2>1. Good(p, [jobs[p] EXCEPT !.pc = "conf"], file, lockQ)
    BY <1>1, <1>2, MoveGood
  <2>. QED BY <1>5, <2>1, LocalStep
<1>. QED BY <1>3, <1>4, <1>5 DEF List

LEMMA FindPeerGood ==
  ASSUME RegistryInv, NEW p \in Processes, FindPeer(p)
  PROVE  RegistryInv'
<1>1. Job(jobs[p]) /\ jobs[p].pc = "status"
  BY DEF RegistryInv, Good, FindPeer, At
<1>2. CASE Raise(p)
  BY <1>1, <1>2, RaiseGood
<1>3. CASE Becomes(p, Ended(p, jobs[p])) /\ UNCHANGED <<file, readable, lockQ>>
  BY <1>1, <1>3, EndedGood, LocalStep
<1>4. ASSUME NEW peer \in live, UNCHANGED <<file, readable, lockQ>>,
             Becomes(p, [jobs[p] EXCEPT !.pc = IF jobs[p].req.mode # None THEN "route" ELSE "load",
                                        !.peer = Shown(peer), !.disturbed = ~ readable])
      PROVE  RegistryInv'
  <2>. DEFINE j == [jobs[p] EXCEPT !.pc = IF jobs[p].req.mode # None THEN "route" ELSE "load",
                                   !.peer = Shown(peer), !.disturbed = ~ readable]
  <2>1. Job(j) /\ j.pc \in {"route", "load"}
    BY <1>1 DEF Job, Fields, Labels
  <2>2. Good(p, j, file, lockQ)
    BY <1>1, <2>1, MoveGood
  <2>. QED BY <1>4, <2>2, LocalStep
<1>. QED BY <1>2, <1>3, <1>4 DEF FindPeer

LEMMA ApplyModeGood ==
  ASSUME RegistryInv, NEW p \in Processes, ApplyMode(p)
  PROVE  RegistryInv'
<1>1. Job(jobs[p]) /\ jobs[p].pc = "route"
  BY DEF RegistryInv, Good, ApplyMode, At
<1>2. Job([jobs[p] EXCEPT !.pc = "load"]) /\ [jobs[p] EXCEPT !.pc = "load"].pc = "load"
  BY <1>1 DEF Job, Fields, Labels
<1>3. Good(p, [jobs[p] EXCEPT !.pc = "load"], file, lockQ)
  BY <1>1, <1>2, MoveGood
<1>. QED BY <1>1, <1>3, LocalStep, RaiseGood DEF ApplyMode

LEMMA ReadConfigGood ==
  ASSUME RegistryInv, NEW p \in Processes, ReadConfig(p)
  PROVE  RegistryInv'
<1>. DEFINE j == [jobs[p] EXCEPT !.pc = "load", !.peers = Parsed(text)]
<1>1. Job(jobs[p]) /\ jobs[p].pc = "conf"
  BY DEF RegistryInv, Good, ReadConfig, At
<1>2. Job(j) /\ j.pc = "load"
  BY <1>1 DEF Job, Fields, Labels
<1>3. Good(p, j, file, lockQ)
  BY <1>1, <1>2, MoveGood
<1>. QED BY <1>1, <1>3, LocalStep, RaiseGood DEF ReadConfig

LEMMA LoadGood ==
  ASSUME RegistryInv, NEW p \in Processes, Load(p)
  PROVE  RegistryInv'
<1>1. Job(jobs[p]) /\ jobs[p].pc = "load" /\ Good(p, jobs[p], file, lockQ)
  BY DEF RegistryInv, Good, Load, At
<1>2. Formed(Loaded) /\ Unique(Loaded) /\ readable \in BOOLEAN
  BY DEF RegistryInv, Loaded, Formed, Unique
<1>3. Unique(Listed(Loaded)) /\ Unlisted(Listed(Loaded)) = Loaded
  BY <1>2, ListedUnique
<1>4. CASE jobs[p].req.op = "patch"
  <2>. DEFINE j == [jobs[p] EXCEPT !.pc = "save", !.list = Upserted(Loaded, jobs[p]),
                                   !.stale = ~ readable]
  <2>1. /\ Job(j) /\ j.pc = "save" /\ j.list = Upserted(Loaded, jobs[p])
        /\ j.req = jobs[p].req /\ j.peer = jobs[p].peer /\ j.stale = ~ readable
    BY <1>1 DEF Job, Fields, Labels
  <2>2. PICK e : /\ j.list = Put(Listed(Loaded), e)
                 /\ e.key = jobs[p].peer.key /\ e.ip = jobs[p].peer.ip
    <3>. DEFINE x == Existing(Loaded, jobs[p].peer.key, jobs[p].peer.ip)
                e == [key |-> jobs[p].peer.key, ip |-> jobs[p].peer.ip,
                      name |-> IF jobs[p].req.name # None THEN jobs[p].req.name ELSE x.name,
                      mode |-> IF jobs[p].req.mode # None THEN jobs[p].req.mode ELSE x.mode,
                      new |-> 1]
    <3>1. Upserted(Loaded, jobs[p]) = Put(Listed(Loaded), e)
      BY DEF Upserted
    <3>2. e.key = jobs[p].peer.key /\ e.ip = jobs[p].peer.ip
      OBVIOUS
    <3>. QED BY <2>1, <3>1, <3>2
  <2>3. Unique(j.list)
    BY <1>3, <2>2, PutUnique
  <2>4. ASSUME ~ j.stale, NEW q \in Changed(file, j.list) PROVE About(j, q)
    <3>1. Loaded = file
      BY <1>2, <2>1, <2>4 DEF Loaded
    <3>2. Changed(file, Listed(Loaded)) = {}
      BY <1>3, <3>1 DEF Changed
    <3>3. q \in Changed(file, Put(Listed(Loaded), e))
      BY <2>2, <2>4
    <3>4. Alike(q, e)
      BY <3>2, <3>3, PutChanges
    <3>. QED BY <1>4, <2>1, <2>2, <3>4 DEF About, Alike
  <2>5. Good(p, j, file, lockQ)
    BY <1>1, <2>1, <2>3, <2>4 DEF Good, ListGood, LockGood
  <2>. QED BY <1>4, <2>5, LocalStep DEF Load
<1>5. CASE jobs[p].req.op # "patch"
  <2>. DEFINE j == [jobs[p] EXCEPT !.pc = "merge", !.list = Listed(Loaded), !.stale = ~ readable]
  <2>1. /\ Job(j) /\ j.pc = "merge" /\ j.list = Listed(Loaded)
        /\ j.req = jobs[p].req /\ j.stale = ~ readable
    BY <1>1 DEF Job, Fields, Labels
  <2>2. ~ j.stale => Changed(file, j.list) = {}
    BY <1>2, <1>3, <2>1 DEF Loaded, Changed
  <2>3. Good(p, j, file, lockQ)
    BY <1>1, <1>3, <1>5, <2>1, <2>2 DEF Good, ListGood, LockGood
  <2>. QED BY <1>5, <2>3, LocalStep DEF Load
<1>. QED BY <1>4, <1>5

LEMMA ImportGood ==
  ASSUME RegistryInv, NEW p \in Processes, Import(p)
  PROVE  RegistryInv'
<1>1. Job(jobs[p]) /\ jobs[p].pc = "merge" /\ Good(p, jobs[p], file, lockQ)
  BY DEF RegistryInv, Good, Import, At
<1>. DEFINE c == jobs[p].peers[jobs[p].next]
            here == jobs[p].next \in DOMAIN jobs[p].peers
<1>2. UNCHANGED <<file, readable, lockQ>>
  BY DEF Import
<1>3. CASE Becomes(p, [jobs[p] EXCEPT !.pc = "save"])
  <2>1. LET j == [jobs[p] EXCEPT !.pc = "save"] IN
        /\ Job(j) /\ j.pc = "save" /\ j.list = jobs[p].list /\ j.stale = jobs[p].stale
        /\ j.req = jobs[p].req /\ j.peers = jobs[p].peers /\ j.peer = jobs[p].peer
    BY <1>1 DEF Job, Fields, Labels
  <2>2. Good(p, [jobs[p] EXCEPT !.pc = "save"], file, lockQ)
    BY <1>1, <2>1 DEF Good, ListGood, LockGood, About, Named
  <2>. QED BY <1>2, <1>3, <2>2, LocalStep
<1>4. CASE Becomes(p, Ended(p, jobs[p]))
  BY <1>1, <1>2, <1>4, EndedGood, LocalStep
<1>5. CASE Becomes(p, [jobs[p] EXCEPT !.next = @ + 1])
  <2>1. LET j == [jobs[p] EXCEPT !.next = @ + 1] IN
        /\ Job(j) /\ j.pc = "merge" /\ j.list = jobs[p].list /\ j.stale = jobs[p].stale
        /\ j.req = jobs[p].req /\ j.peers = jobs[p].peers /\ j.peer = jobs[p].peer
    BY <1>1 DEF Job, Fields, Labels
  <2>2. Good(p, [jobs[p] EXCEPT !.next = @ + 1], file, lockQ)
    BY <1>1, <2>1 DEF Good, ListGood, LockGood, About, Named
  <2>. QED BY <1>2, <1>5, <2>2, LocalStep
<1>6. CASE /\ here /\ c.name # None
           /\ Becomes(p, [jobs[p] EXCEPT !.next = @ + 1, !.changed = TRUE,
                                         !.list = Imported(@, c, jobs[p].next)])
  <2>. DEFINE j == [jobs[p] EXCEPT !.next = @ + 1, !.changed = TRUE,
                                   !.list = Imported(@, c, jobs[p].next)]
  <2>1. /\ Job(j) /\ j.pc = "merge" /\ j.list = Imported(jobs[p].list, c, jobs[p].next)
        /\ j.req = jobs[p].req /\ j.peers = jobs[p].peers /\ j.stale = jobs[p].stale
    BY <1>1 DEF Job, Fields, Labels
  <2>2. PICK e : j.list = Put(jobs[p].list, e) /\ e.key = c.key /\ e.ip = c.ip
    BY <2>1 DEF Imported
  <2>3. Unique(j.list)
    BY <1>1, <2>2, PutUnique DEF Good, ListGood
  <2>4. ASSUME ~ j.stale, NEW q \in Changed(file, j.list) PROVE About(j, q)
    <3>1. q \in Changed(file, jobs[p].list) \/ Alike(q, e)
      BY <2>2, <2>4, PutChanges
    <3>2. jobs[p].req.op # "patch"
      BY <1>1 DEF Good, ListGood
    <3>3. CASE q \in Changed(file, jobs[p].list)
      BY <1>1, <2>1, <2>4, <3>3 DEF Good, ListGood, About, Named
    <3>4. CASE Alike(q, e)
      <4>1. jobs[p].next \in Named(j) /\ Alike(q, j.peers[jobs[p].next])
        BY <1>6, <2>1, <2>2, <3>4 DEF Named, Alike
      <4>. QED BY <2>1, <3>2, <4>1 DEF About
    <3>. QED BY <3>1, <3>3, <3>4
  <2>5. Good(p, j, file, lockQ)
    BY <1>1, <2>1, <2>3, <2>4 DEF Good, ListGood, LockGood
  <2>. QED BY <1>2, <1>6, <2>5, LocalStep
<1>. QED BY <1>3, <1>4, <1>5, <1>6 DEF Import

\* Whoever saves tells the processes its save matters to.
LEMMA SavedFlags ==
  ASSUME RegistryInv, NEW p \in Processes, NEW j, SavedBy(p, j), NEW q \in Processes \ {p}
  PROVE  /\ Job(jobs'[q]) /\ jobs'[q].pc = jobs[q].pc /\ jobs'[q].list = jobs[q].list
         /\ jobs'[q].req = jobs[q].req /\ jobs'[q].peer = jobs[q].peer
         /\ jobs'[q].peers = jobs[q].peers /\ jobs'[q].next = jobs[q].next
         /\ jobs'[q].answer = jobs[q].answer
         /\ ~ jobs'[q].stale => ~ jobs[q].stale /\ ~ Across(p, q)
         /\ ~ jobs'[q].disturbed => ~ jobs[q].disturbed /\ ~ Across(p, q)
<1>1. Job(jobs[q])
  BY DEF RegistryInv, Good
<1>2. jobs'[q] = [jobs[q] EXCEPT !.stale = @ \/ Across(p, q), !.disturbed = @ \/ Across(p, q)]
  BY DEF SavedBy
<1>3. Across(p, q) \in BOOLEAN
  BY DEF Across
<1>. HIDE DEF Across
<1>. QED BY <1>1, <1>2, <1>3 DEF Job, Fields, Labels

\* Two requests are never both at work.
LEMMA OneInLock ==
  ASSUME RegistryInv, NEW p \in Callers, NEW q \in Callers,
         jobs[p].pc \notin {"idle", "wait"}, jobs[q].pc \notin {"idle", "wait"}
  PROVE  p = q
<1>1. LockGood(p, jobs[p], lockQ) /\ LockGood(q, jobs[q], lockQ)
  BY DEF RegistryInv, Good, Processes
<1>. QED BY <1>1 DEF LockGood

LEMMA WriteGood ==
  ASSUME RegistryInv, NEW p \in Processes, jobs[p].pc = "save", NEW j,
         Good(p, j, file, lockQ), j.pc \notin {"merge", "save"}, SavedBy(p, j),
         file' = Unlisted(jobs[p].list), readable' = TRUE, lockQ' = lockQ
  PROVE  RegistryInv'
<1>1. Unique(file') /\ Formed(file')
  <2>1. Unique(jobs[p].list)
    BY DEF RegistryInv, Good, ListGood
  <2>. QED BY <2>1, UnlistedUnique
<1>2. jobs' = [q \in Processes |-> jobs'[q]] /\ jobs'[p] = j
  BY DEF SavedBy
<1>3. Good(p, jobs'[p], file', lockQ')
  BY <1>2 DEF Good, ListGood, LockGood
<1>4. ASSUME NEW q \in Processes \ {p} PROVE Good(q, jobs'[q], file', lockQ')
  <2>1. /\ Job(jobs'[q]) /\ jobs'[q].pc = jobs[q].pc /\ jobs'[q].list = jobs[q].list
        /\ jobs'[q].req = jobs[q].req
        /\ ~ jobs'[q].stale => ~ jobs[q].stale /\ ~ Across(p, q)
    BY SavedFlags
  <2>2. Good(q, jobs[q], file, lockQ)
    BY DEF RegistryInv
  <2>3. CASE jobs[q].pc \in {"merge", "save"}
    <3>1. jobs'[q].stale
      <4>1. SUFFICES ASSUME ~ jobs'[q].stale PROVE FALSE
        OBVIOUS
      <4>2. p \in Callers /\ q \in Callers
        BY <2>1, <4>1 DEF Across, Processes
      <4>3. p = q
        BY <2>3, <4>2, OneInLock
      <4>. QED BY <4>3
    <3>. QED BY <2>1, <2>2, <3>1 DEF Good, ListGood, LockGood
  <2>4. CASE jobs[q].pc \notin {"merge", "save"}
    BY <2>1, <2>2, <2>4 DEF Good, ListGood, LockGood
  <2>. QED BY <2>3, <2>4
<1>5. \A q \in Processes : Good(q, jobs'[q], file', lockQ')
  BY <1>3, <1>4
<1>6. \A q \in Processes : Good(q, jobs[q], file, lockQ)'
  BY <1>5, GoodNext
<1>7. Unique(file)' /\ Formed(file)'
  BY <1>1 DEF Unique, Formed, Alike
<1>. QED BY <1>2, <1>6, <1>7 DEF RegistryInv

LEMMA SaveGood ==
  ASSUME RegistryInv, NEW p \in Processes, Save(p)
  PROVE  RegistryInv'
<1>1. Job(jobs[p]) /\ jobs[p].pc = "save"
  BY DEF RegistryInv, Good, Save, At
<1>2. CASE Raise(p)
  BY <1>1, <1>2, RaiseGood
<1>3. CASE ~ Raise(p)
  <2>1. file' = Unlisted(jobs[p].list) /\ readable' = TRUE /\ lockQ' = lockQ
    BY <1>3 DEF Save
  <2>2. CASE jobs[p].req.op = "patch"
    <3>. DEFINE j == [jobs[p] EXCEPT !.pc = "refresh"]
    <3>1. Job(j) /\ j.pc = "refresh"
      BY <1>1 DEF Job, Fields, Labels
    <3>2. Good(p, j, file, lockQ)
      BY <1>1, <3>1, MoveGood
    <3>3. SavedBy(p, j)
      BY <1>3, <2>2 DEF Save
    <3>. HIDE DEF j
    <3>. QED BY <1>1, <2>1, <3>1, <3>2, <3>3, WriteGood
  <2>3. CASE jobs[p].req.op # "patch"
    <3>. DEFINE j == Ended(p, jobs[p])
    <3>1. Good(p, j, file, lockQ)
      BY <1>1, EndedGood
    <3>2. j.pc \notin {"merge", "save"}
      BY <1>1 DEF Ended, Idle, Job, Fields
    <3>3. SavedBy(p, j)
      BY <1>3, <2>3 DEF Save
    <3>. HIDE DEF j
    <3>. QED BY <1>1, <2>1, <3>1, <3>2, <3>3, WriteGood
  <2>. QED BY <2>2, <2>3
<1>. QED BY <1>2, <1>3

LEMMA RefreshGood ==
  ASSUME RegistryInv, NEW p \in Processes, Refresh(p)
  PROVE  RegistryInv'
<1>1. Job(jobs[p]) /\ jobs[p].pc = "refresh"
  BY DEF RegistryInv, Good, Refresh, At
<1>2. CASE Raise(p)
  BY <1>1, <1>2, RaiseGood
<1>3. CASE Becomes(p, Ended(p, jobs[p])) /\ UNCHANGED <<file, readable, lockQ>>
  BY <1>1, <1>3, EndedGood, LocalStep
<1>4. ASSUME NEW peer, UNCHANGED <<file, readable, lockQ>>,
             Becomes(p, Ended(p, [jobs[p] EXCEPT !.answer = Shown(peer)]))
      PROVE  RegistryInv'
  <2>1. Job([jobs[p] EXCEPT !.answer = Shown(peer)])
    BY <1>1 DEF Job, Fields, Labels
  <2>. QED BY <1>1, <1>4, <2>1, EndedGood, LocalStep
<1>. QED BY <1>2, <1>3, <1>4 DEF Refresh

LEMMA ReleaseGood ==
  ASSUME RegistryInv, NEW p \in Processes, Release(p)
  PROVE  RegistryInv'
<1>1. /\ jobs[p].pc = "release" /\ p \in Callers /\ p \notin Tools
      /\ lockQ # <<>> /\ lockQ[1] = p /\ lockQ' = Tail(lockQ)
      /\ file' = file /\ readable' = readable
  BY RegistryAssumption DEF RegistryInv, Good, LockGood, Release, At, Processes
<1>2. /\ jobs' = [q \in Processes |-> jobs'[q]] /\ jobs'[p] = Idle
      /\ \A q \in Processes \ {p} : jobs'[q] = jobs[q]
  BY DEF RegistryInv, Release, Becomes
<1>3. /\ lockQ' \in Seq(Callers) /\ Len(lockQ') = Len(lockQ) - 1 /\ Len(lockQ) \in Nat
      /\ \A i \in 1..Len(lockQ') : lockQ'[i] = lockQ[i + 1]
  BY <1>1 DEF RegistryInv
<1>4. ASSUME NEW q \in Processes \ {p} PROVE Good(q, jobs'[q], file, lockQ')
  <2>1. Good(q, jobs[q], file, lockQ) /\ jobs'[q] = jobs[q]
    BY <1>2 DEF RegistryInv
  <2>2. CASE q \in Callers /\ jobs[q].pc # "idle"
    <3>1. jobs[q].pc = "wait"
      BY <1>1, <2>1, <2>2 DEF Good, LockGood
    <3>2. PICK i \in 1..Len(lockQ) : lockQ[i] = q
      BY <2>1, <2>2 DEF Good, LockGood
    <3>3. i - 1 \in 1..Len(lockQ') /\ lockQ'[i - 1] = q
      BY <1>1, <1>3, <3>2
    <3>. QED BY <2>1, <3>1, <3>3 DEF Good, LockGood
  <2>3. CASE ~ (q \in Callers /\ jobs[q].pc # "idle")
    BY <2>1, <2>3 DEF Good, LockGood
  <2>. QED BY <2>2, <2>3
<1>5. \A q \in Processes : Good(q, jobs'[q], file, lockQ')
  BY <1>2, <1>4, IdleGood
<1>6. \A q \in Processes : Good(q, jobs[q], file, lockQ)'
  BY <1>1, <1>5 DEF Good, Job, ListGood, LockGood, Changed, Unlisted, About, Named
<1>. QED BY <1>1, <1>2, <1>3, <1>6 DEF RegistryInv, Formed, Unique

\* What the environment does reaches the jobs through one flag.
LEMMA DisturbGood ==
  ASSUME RegistryInv, jobs' = [q \in Processes |-> [jobs[q] EXCEPT !.disturbed = TRUE]],
         UNCHANGED <<file, lockQ>>, readable' \in BOOLEAN
  PROVE  RegistryInv'
<1>1. ASSUME NEW q \in Processes PROVE Good(q, jobs'[q], file, lockQ)
  <2>1. Good(q, jobs[q], file, lockQ)
    BY DEF RegistryInv
  <2>2. jobs'[q] = [jobs[q] EXCEPT !.disturbed = TRUE]
    OBVIOUS
  <2>3. /\ Job(jobs'[q]) /\ jobs'[q].pc = jobs[q].pc /\ jobs'[q].list = jobs[q].list
        /\ jobs'[q].stale = jobs[q].stale /\ jobs'[q].req = jobs[q].req
        /\ jobs'[q].peer = jobs[q].peer /\ jobs'[q].peers = jobs[q].peers
    BY <2>1, <2>2 DEF Good, Job, Fields, Labels
  <2>. QED BY <2>1, <2>3 DEF Good, ListGood, LockGood, About, Named
<1>2. \A q \in Processes : Good(q, jobs'[q], file, lockQ)
  BY <1>1
<1>3. \A q \in Processes : Good(q, jobs'[q], file', lockQ')
  BY <1>2
<1>4. \A q \in Processes : Good(q, jobs[q], file, lockQ)'
  BY <1>3, GoodNext
<1>5. jobs' = [q \in Processes |-> jobs'[q]]
  OBVIOUS
<1>6. Formed(file)' /\ Unique(file)' /\ lockQ' \in Seq(Callers)
  BY DEF RegistryInv, Formed, Unique
<1>. QED BY <1>4, <1>5, <1>6 DEF RegistryInv

LEMMA NextGood == RegistryInv /\ [Next]_vars => RegistryInv'
<1>. SUFFICES ASSUME RegistryInv, [Next]_vars PROVE RegistryInv'
  OBVIOUS
<1>1. ASSUME NEW p \in Processes, Ask(p) \/ RunTool(p) \/ Step(p) PROVE RegistryInv'
  BY <1>1, AskGood, RunToolGood, EnterGood, ListStepGood, FindPeerGood, ApplyModeGood,
     ReadConfigGood, LoadGood, ImportGood, SaveGood, RefreshGood, ReleaseGood DEF Step
<1>2. ASSUME UNCHANGED <<file, readable, jobs, lockQ>> PROVE RegistryInv'
  <2>1. \A q \in Processes : Good(q, jobs[q], file, lockQ)'
    BY <1>2 DEF RegistryInv, Good, Job, ListGood, LockGood, Changed, Unlisted, About, Named
  <2>. QED BY <1>2, <2>1 DEF RegistryInv, Formed, Unique
<1>3. CASE EditConfig
  BY <1>2, <1>3 DEF EditConfig
<1>4. CASE ChangePeers
  BY <1>4, DisturbGood DEF ChangePeers, RegistryInv
<1>5. CASE Spoil
  BY <1>5, DisturbGood DEF Spoil
<1>6. CASE UNCHANGED vars
  BY <1>2, <1>6 DEF vars
<1>. QED BY <1>1, <1>3, <1>4, <1>5, <1>6 DEF Next

-----------------------------------------------------------------------------
\* The theorems.

\* The invariant holds in every reachable state.
THEOREM RegistryInvariant == Spec => []RegistryInv
BY InitGood, NextGood, PTL DEF Spec

\* No two profiles of the file have a key or an address in common, however many
\* requests and runs of the tool overlap.
THEOREM ProfilesStayUnique == Spec => []UniqueProfiles
<1>1. RegistryInv => UniqueProfiles
  BY DEF RegistryInv, UniqueProfiles
<1>. QED BY <1>1, RegistryInvariant, PTL

\* Only Save writes the file.
LEMMA OnlySaveWrites ==
  ASSUME RegistryInv, [Next]_vars, file' # file
  PROVE  \E p \in Processes : Save(p) /\ ~ Raise(p)
<1>1. \A p \in Processes :
        (Ask(p) \/ RunTool(p) \/ Raise(p) \/ Enter(p) \/ List(p) \/ FindPeer(p) \/ ApplyMode(p)
         \/ ReadConfig(p) \/ Load(p) \/ Import(p) \/ Refresh(p) \/ Release(p)) => file' = file
  BY DEF Ask, RunTool, Raise, Enter, List, FindPeer, ApplyMode, ReadConfig, Load, Import,
         Refresh, Release
<1>2. EditConfig \/ ChangePeers \/ Spoil \/ UNCHANGED vars => file' = file
  BY DEF EditConfig, ChangePeers, Spoil, vars
<1>. QED BY <1>1, <1>2 DEF Next, Step

\* A save that changes the file writes the list of whoever saves.
LEMMA SavesItsList ==
  ASSUME RegistryInv, [Next]_vars, file' # file, NEW p \in Processes, Saves(p)
  PROVE  file' = Unlisted(jobs[p].list) /\ jobs[p].pc = "save"
<1>1. PICK r \in Processes : Save(r) /\ ~ Raise(r)
  BY OnlySaveWrites
<1>2. r = p
  <2>1. SUFFICES ASSUME r # p PROVE FALSE
    OBVIOUS
  <2>2. PICK j : SavedBy(r, j)
    BY <1>1 DEF Save
  <2>3. jobs'[p].pc = jobs[p].pc
    BY <2>1, <2>2, SavedFlags
  <2>. QED BY <2>3 DEF Saves, At
<1>. QED BY <1>1, <1>2 DEF Save, At

\* A save changes the profile of a client it is not about only if the tool and
\* the panel overlapped, or the file was unreadable.
THEOREM OthersAreKept == Spec => OthersLostOnlyToTool
<1>. DEFINE A == \A p \in Processes :
                   Saves(p) /\ ~ jobs[p].stale =>
                     \A q \in (file \ file') \cup (file' \ file) : About(jobs[p], q)
<1>1. RegistryInv /\ [Next]_vars => [A]_vars
  <2>. SUFFICES ASSUME RegistryInv, [Next]_vars, NEW p \in Processes, Saves(p),
                       ~ jobs[p].stale, NEW q \in (file \ file') \cup (file' \ file)
                PROVE  About(jobs[p], q)
    OBVIOUS
  <2>1. file' = Unlisted(jobs[p].list) /\ jobs[p].pc = "save"
    BY SavesItsList
  <2>. QED BY <2>1 DEF RegistryInv, Good, ListGood, Changed
<1>. QED BY <1>1, RegistryInvariant, PTL DEF Spec, OthersLostOnlyToTool

-----------------------------------------------------------------------------
\* The answers of the PATCH.

\* A name and a mode are what was asked for, or what the status showed before.
Agree(j, name, mode) ==
  /\ name = IF j.req.name # None THEN j.req.name ELSE j.peer.name
  /\ mode = IF j.req.mode # None THEN j.req.mode ELSE j.peer.mode

\* What an undisturbed PATCH knows at each label: the peer it found is there, the
\* file says of it what the status showed, then the list and the file say what
\* it will answer.
Knows(j, F, L, r) ==
  /\ r = TRUE
  /\ \E x \in L : x.ip = j.req.ip /\ x.key = j.peer.key /\ x.ip = j.peer.ip
  /\ j.pc \in {"route", "load"} =>
       LET q == ProfileOf(F, j.peer.key, j.peer.ip)
       IN  j.peer.name = q.name /\ j.peer.mode = q.mode
  /\ j.pc = "save" => \E e \in j.list : e.key = j.peer.key /\ Agree(j, e.name, e.mode)
  /\ j.pc = "refresh" => \E e \in F : e.key = j.peer.key /\ Agree(j, e.name, e.mode)

AnswerGood(j, F, L, r) ==
  /\ j.pc # "idle" => j.req \in Requests
  /\ j.pc # "release" => j.answer = None
  /\ /\ j.pc \in {"route", "load", "save", "refresh"} /\ ~ j.disturbed
     /\ j.req.op = "patch"
     => Knows(j, F, L, r)
  /\ j.pc \in {"status", "route", "refresh"} => j.req.op = "patch"
  /\ j.pc \in {"show", "conf", "merge"} => j.req.op # "patch"
  /\ j.pc = "release" /\ j.answer # None /\ ~ j.disturbed =>
       j.answer.key = j.peer.key /\ Agree(j, j.answer.name, j.answer.mode)

AnswerInv ==
  /\ live \in PeerSets
  /\ \A p \in Callers : AnswerGood(jobs[p], file, live, readable)

LEMMA IdleAnswers == ASSUME NEW F, NEW L, NEW r PROVE AnswerGood(Idle, F, L, r)
BY DEF AnswerGood, Idle

\* A request that raises answers nothing.
LEMMA EndedAnswers ==
  ASSUME NEW p \in Callers, NEW j, Job(j), j.pc # "idle", j.pc # "release", NEW F, NEW L, NEW r,
         AnswerGood(j, F, L, r)
  PROVE  AnswerGood(Ended(p, j), F, L, r)
<1>1. LET k == Ended(p, j) IN k.pc = "release" /\ k.answer = None /\ k.req = j.req
  BY DEF Ended, Job, Fields, AnswerGood
<1>. HIDE DEF Ended
<1>. QED BY <1>1 DEF AnswerGood

\* A profile with a key is the one the status and upsert take for that key.
LEMMA ProfileOfKey ==
  ASSUME NEW F, Unique(F), NEW e \in F, NEW ip
  PROVE  ProfileOf(F, e.key, ip) = e
<1>. DEFINE ofKey == {p \in F : p.key = e.key}
<1>1. \A p \in ofKey : p = e
  BY DEF Unique, Alike
<1>2. ofKey = {e}
  BY <1>1
<1>3. (CHOOSE p \in ofKey : TRUE) = e
  BY <1>2
<1>. QED BY <1>2, <1>3 DEF ProfileOf

\* The step of p itself.
LEMMA OwnAnswers ==
  ASSUME RegistryInv, AnswerInv, NEW p \in Callers, Step(p)
  PROVE  AnswerGood(jobs'[p], file', live', readable')
<1>. DEFINE j == jobs[p]
<1>1. /\ p \in Processes /\ p \notin Tools /\ Job(j) /\ AnswerGood(j, file, live, readable)
      /\ j.answer = j.answer
  BY RegistryAssumption DEF RegistryInv, Good, AnswerInv, Processes
<1>2. \A k : Becomes(p, k) => jobs'[p] = k
  BY <1>1 DEF RegistryInv, Becomes
<1>3. CASE Raise(p) /\ j.pc # "idle" /\ j.pc # "release"
  BY <1>1, <1>2, <1>3, EndedAnswers DEF Raise, environment
<1>4. CASE Enter(p)
  <2>. DEFINE k == [j EXCEPT !.pc = IF j.req.op = "patch" THEN "status" ELSE "conf"]
  <2>1. jobs'[p] = k /\ j.pc = "wait"
    BY <1>2, <1>4 DEF Enter, At
  <2>2. /\ k.pc = IF j.req.op = "patch" THEN "status" ELSE "conf"
        /\ k.req = j.req /\ k.answer = j.answer
    BY <1>1 DEF Job, Fields
  <2>. HIDE DEF k
  <2>. QED BY <1>1, <2>1, <2>2 DEF AnswerGood
<1>5. CASE List(p) /\ ~ Raise(p)
  <2>1. j.pc = "show" /\ (jobs'[p] = Idle \/ jobs'[p] = [j EXCEPT !.pc = "conf"])
    BY <1>2, <1>5 DEF List, At
  <2>2. LET k == [j EXCEPT !.pc = "conf"] IN k.pc = "conf" /\ k.req = j.req /\ k.answer = j.answer
    BY <1>1 DEF Job, Fields
  <2>3. AnswerGood([j EXCEPT !.pc = "conf"], file', live', readable')
    BY <1>1, <2>1, <2>2 DEF AnswerGood
  <2>. QED BY <2>1, <2>3, IdleAnswers
<1>6. CASE FindPeer(p) /\ ~ Raise(p)
  <2>1. j.pc = "status" /\ UNCHANGED <<file, readable, live>>
    BY <1>6 DEF FindPeer, At, environment
  <2>2. CASE Becomes(p, Ended(p, j))
    BY <1>1, <1>2, <2>1, <2>2, EndedAnswers
  <2>3. CASE ~ Becomes(p, Ended(p, j))
    <3>1. PICK x \in live :
            /\ x.ip = j.req.ip
            /\ Becomes(p, [j EXCEPT !.pc = IF j.req.mode # None THEN "route" ELSE "load",
                                    !.peer = Shown(x), !.disturbed = ~ readable])
      BY <1>6, <2>3 DEF FindPeer
    <3>. DEFINE k == [j EXCEPT !.pc = IF j.req.mode # None THEN "route" ELSE "load",
                               !.peer = Shown(x), !.disturbed = ~ readable]
                q == ProfileOf(Loaded, x.key, x.ip)
    <3>2. /\ k.pc \in {"route", "load"} /\ k.req = j.req /\ k.answer = j.answer
          /\ k.peer = Shown(x) /\ k.disturbed = ~ readable
      BY <1>1 DEF Job, Fields
    <3>3. jobs'[p] = k
      BY <1>2, <3>1
    <3>. HIDE DEF k
    <3>4. k.peer.key = x.key /\ k.peer.ip = x.ip /\ k.peer.name = q.name /\ k.peer.mode = q.mode
      BY <3>2 DEF Shown
    <3>5. readable \in BOOLEAN /\ (~ k.disturbed => readable = TRUE /\ Loaded = file)
      BY <3>2 DEF RegistryInv, Loaded
    <3>6. ~ k.disturbed => Knows(k, file, live, readable)
      BY <3>1, <3>2, <3>4, <3>5 DEF Knows
    <3>7. AnswerGood(k, file, live, readable)
      BY <1>1, <2>1, <3>2, <3>6 DEF AnswerGood
    <3>. QED BY <2>1, <3>3, <3>7
  <2>. QED BY <2>2, <2>3
<1>7. CASE ApplyMode(p) /\ ~ Raise(p)
  <2>. DEFINE k == [j EXCEPT !.pc = "load"]
  <2>1. j.pc = "route" /\ UNCHANGED <<file, readable, live>> /\ jobs'[p] = k
    BY <1>2, <1>7 DEF ApplyMode, At, environment
  <2>2. /\ k.pc = "load" /\ k.req = j.req /\ k.answer = j.answer
        /\ k.peer = j.peer /\ k.disturbed = j.disturbed
    BY <1>1 DEF Job, Fields
  <2>. HIDE DEF k
  <2>3. AnswerGood(k, file, live, readable)
    BY <1>1, <2>1, <2>2 DEF AnswerGood, Knows
  <2>. QED BY <2>1, <2>3
<1>8. CASE ReadConfig(p) /\ ~ Raise(p)
  <2>. DEFINE k == [j EXCEPT !.pc = "load", !.peers = Parsed(text)]
  <2>1. j.pc = "conf" /\ UNCHANGED <<file, readable, live>> /\ jobs'[p] = k
    BY <1>2, <1>8 DEF ReadConfig, At, environment
  <2>2. k.pc = "load" /\ k.req = j.req /\ k.answer = j.answer
    BY <1>1 DEF Job, Fields
  <2>. HIDE DEF k
  <2>3. AnswerGood(k, file, live, readable)
    BY <1>1, <2>1, <2>2 DEF AnswerGood
  <2>. QED BY <2>1, <2>3
<1>9. CASE Load(p)
  <2>1. j.pc = "load" /\ UNCHANGED <<file, readable, live>>
    BY <1>9 DEF Load, At, environment
  <2>2. CASE j.req.op = "patch"
    <3>. DEFINE k == [j EXCEPT !.pc = "save", !.list = Upserted(Loaded, j), !.stale = ~ readable]
                x == Existing(Loaded, j.peer.key, j.peer.ip)
                e == [key |-> j.peer.key, ip |-> j.peer.ip,
                      name |-> IF j.req.name # None THEN j.req.name ELSE x.name,
                      mode |-> IF j.req.mode # None THEN j.req.mode ELSE x.mode,
                      new |-> 1]
    <3>1. /\ k.pc = "save" /\ k.req = j.req /\ k.answer = j.answer /\ k.peer = j.peer
          /\ k.list = Upserted(Loaded, j) /\ k.disturbed = j.disturbed
      BY <1>1 DEF Job, Fields
    <3>2. jobs'[p] = k
      BY <1>2, <1>9, <2>2 DEF Load
    <3>3. e \in Upserted(Loaded, j)
      BY DEF Upserted, Put
    <3>. HIDE DEF k
    <3>4. ASSUME ~ j.disturbed PROVE Knows(k, file, live, readable)
      <4>1. Knows(j, file, live, readable)
        BY <1>1, <2>1, <2>2, <3>4 DEF AnswerGood
      <4>2. Loaded = file
        BY <4>1 DEF Knows, Loaded
      <4>3. x.name = j.peer.name /\ x.mode = j.peer.mode
        BY <2>1, <4>1, <4>2 DEF Knows, Existing
      <4>4. e.key = j.peer.key /\ Agree(j, e.name, e.mode)
        BY <4>3 DEF Agree
      <4>5. e \in k.list /\ e.key = k.peer.key /\ Agree(k, e.name, e.mode)
        BY <3>1, <3>3, <4>4 DEF Agree
      <4>. HIDE DEF e
      <4>. QED BY <3>1, <4>1, <4>5 DEF Knows
    <3>5. AnswerGood(k, file, live, readable)
      BY <1>1, <2>1, <3>1, <3>4 DEF AnswerGood
    <3>. QED BY <2>1, <3>2, <3>5
  <2>3. CASE j.req.op # "patch"
    <3>. DEFINE k == [j EXCEPT !.pc = "merge", !.list = Listed(Loaded), !.stale = ~ readable]
    <3>1. jobs'[p] = k
      BY <1>2, <1>9, <2>3 DEF Load
    <3>2. k.pc = "merge" /\ k.req = j.req /\ k.answer = j.answer
      BY <1>1 DEF Job, Fields
    <3>. HIDE DEF k
    <3>3. AnswerGood(k, file, live, readable)
      BY <1>1, <2>1, <2>3, <3>2 DEF AnswerGood
    <3>. QED BY <2>1, <3>1, <3>3
  <2>. QED BY <2>2, <2>3
<1>10. CASE Import(p)
  <2>1. j.pc = "merge" /\ j.req.op # "patch" /\ UNCHANGED <<file, readable, live>>
    BY <1>1, <1>10 DEF Import, At, environment, AnswerGood
  <2>2. CASE Becomes(p, Ended(p, j))
    BY <1>1, <1>2, <2>1, <2>2, EndedAnswers
  <2>3. CASE ~ Becomes(p, Ended(p, j))
    <3>1. PICK k : /\ Becomes(p, k) /\ k.pc \in {"merge", "save"} /\ k.req = j.req
                   /\ k.answer = j.answer
      <4>. DEFINE c == j.peers[j.next]
                  k1 == [j EXCEPT !.pc = "save"]
                  k2 == [j EXCEPT !.next = @ + 1]
                  k3 == [j EXCEPT !.next = @ + 1, !.changed = TRUE, !.list = Imported(@, c, j.next)]
      <4>1. Becomes(p, k1) \/ Becomes(p, k2) \/ Becomes(p, k3)
        BY <1>10, <2>3 DEF Import
      <4>2. k1.pc = "save" /\ k1.req = j.req /\ k1.answer = j.answer
        BY <1>1 DEF Job, Fields
      <4>3. k2.pc = "merge" /\ k2.req = j.req /\ k2.answer = j.answer
        BY <1>1, <2>1 DEF Job, Fields
      <4>4. k3.pc = "merge" /\ k3.req = j.req /\ k3.answer = j.answer
        BY <1>1, <2>1 DEF Job, Fields
      <4>. HIDE DEF k1, k2, k3
      <4>. QED BY <4>1, <4>2, <4>3, <4>4
    <3>2. AnswerGood(k, file, live, readable)
      BY <1>1, <2>1, <3>1 DEF AnswerGood
    <3>. QED BY <1>2, <2>1, <3>1, <3>2
  <2>. QED BY <2>2, <2>3
<1>11. CASE Save(p) /\ ~ Raise(p)
  <2>1. /\ j.pc = "save" /\ live' = live /\ readable' = TRUE /\ file' = Unlisted(j.list)
        /\ SavedBy(p, IF j.req.op = "patch" THEN [j EXCEPT !.pc = "refresh"] ELSE Ended(p, j))
    BY <1>11 DEF Save, At, environment
  <2>2. CASE j.req.op = "patch"
    <3>. DEFINE k == [j EXCEPT !.pc = "refresh"]
    <3>1. jobs'[p] = k
      BY <1>1, <2>1, <2>2 DEF SavedBy
    <3>2. /\ k.pc = "refresh" /\ k.req = j.req /\ k.answer = j.answer /\ k.peer = j.peer
          /\ k.disturbed = j.disturbed
      BY <1>1 DEF Job, Fields
    <3>. HIDE DEF k
    <3>3. ASSUME ~ j.disturbed PROVE Knows(k, file', live', readable')
      <4>1. Knows(j, file, live, readable)
        BY <1>1, <2>1, <2>2, <3>3 DEF AnswerGood
      <4>2. PICK e \in j.list : e.key = j.peer.key /\ Agree(j, e.name, e.mode)
        BY <2>1, <4>1 DEF Knows
      <4>. DEFINE q == [key |-> e.key, ip |-> e.ip, name |-> e.name, mode |-> e.mode]
      <4>3. q \in file' /\ q.key = k.peer.key /\ Agree(k, q.name, q.mode)
        BY <2>1, <3>2, <4>2 DEF Unlisted, Agree
      <4>. HIDE DEF q
      <4>. QED BY <2>1, <3>2, <4>1, <4>3 DEF Knows
    <3>. QED BY <1>1, <2>1, <2>2, <3>1, <3>2, <3>3 DEF AnswerGood
  <2>3. CASE j.req.op # "patch"
    <3>1. jobs'[p] = Ended(p, j)
      BY <1>1, <2>1, <2>3 DEF SavedBy
    <3>2. AnswerGood(j, file', live', readable')
      BY <1>1, <2>1, <2>3 DEF AnswerGood
    <3>. QED BY <1>1, <2>1, <3>1, <3>2, EndedAnswers
  <2>. QED BY <2>2, <2>3
<1>12. CASE Refresh(p) /\ ~ Raise(p)
  <2>1. j.pc = "refresh" /\ j.req.op = "patch" /\ UNCHANGED <<file, readable, live>>
    BY <1>1, <1>12 DEF Refresh, At, environment, AnswerGood
  <2>2. CASE Becomes(p, Ended(p, j))
    BY <1>1, <1>2, <2>1, <2>2, EndedAnswers
  <2>3. CASE ~ Becomes(p, Ended(p, j))
    <3>1. PICK x \in live : /\ x.ip = j.req.ip
                            /\ Becomes(p, Ended(p, [j EXCEPT !.answer = Shown(x)]))
      BY <1>12, <2>3 DEF Refresh
    <3>. DEFINE k == Ended(p, [j EXCEPT !.answer = Shown(x)])
    <3>2. /\ k.pc = "release" /\ k.req = j.req /\ k.answer = Shown(x) /\ k.peer = j.peer
          /\ k.disturbed = j.disturbed
      BY <1>1 DEF Job, Fields, Ended
    <3>3. jobs'[p] = k
      BY <1>2, <3>1
    <3>. HIDE DEF k
    <3>4. ASSUME ~ j.disturbed
          PROVE  k.answer.key = k.peer.key /\ Agree(k, k.answer.name, k.answer.mode)
      <4>1. Knows(j, file, live, readable)
        BY <1>1, <2>1, <3>4 DEF AnswerGood
      <4>2. j.req.ip # None
        BY <1>1, <2>1, RegistryAssumption DEF AnswerGood
      <4>3. x.key = j.peer.key
        BY <3>1, <4>1, <4>2 DEF Knows, AnswerInv, PeerSets
      <4>4. PICK e \in file : e.key = j.peer.key /\ Agree(j, e.name, e.mode)
        BY <2>1, <4>1 DEF Knows
      <4>5. Loaded = file /\ Unique(file)
        BY <4>1 DEF Knows, Loaded, RegistryInv
      <4>6. ProfileOf(Loaded, x.key, x.ip) = e
        BY <4>3, <4>4, <4>5, ProfileOfKey
      <4>7. Shown(x).key = x.key /\ Shown(x).name = e.name /\ Shown(x).mode = e.mode
        BY <4>6 DEF Shown
      <4>. QED BY <3>2, <4>3, <4>4, <4>7 DEF Agree
    <3>5. AnswerGood(k, file, live, readable)
      BY <1>1, <2>1, <3>2, <3>4 DEF AnswerGood
    <3>. QED BY <2>1, <3>3, <3>5
  <2>. QED BY <2>2, <2>3
<1>13. CASE Release(p)
  BY <1>2, <1>13, IdleAnswers DEF Release
<1>14. Raise(p) /\ (List(p) \/ FindPeer(p) \/ ApplyMode(p) \/ ReadConfig(p) \/ Save(p) \/ Refresh(p))
       => j.pc # "idle" /\ j.pc # "release"
  BY DEF List, FindPeer, ApplyMode, ReadConfig, Save, Refresh, At
<1>. QED BY <1>3, <1>4, <1>5, <1>6, <1>7, <1>8, <1>9, <1>10, <1>11, <1>12, <1>13, <1>14 DEF Step

\* A job that changes at most by being told of the others keeps what it knows, if
\* it is not disturbed and nothing it looks at has changed.
LEMMA ToldAnswers ==
  ASSUME NEW j, NEW k, NEW F, NEW L, NEW r, NEW G, NEW M, NEW s,
         AnswerGood(j, F, L, r),
         k.pc = j.pc, k.req = j.req, k.peer = j.peer, k.list = j.list, k.answer = j.answer,
         ~ k.disturbed => ~ j.disturbed,
         ~ k.disturbed /\ k.pc \in {"route", "load", "save", "refresh"} =>
           G = F /\ M = L /\ s = r
  PROVE  AnswerGood(k, G, M, s)
<1>1. Agree(j, k.answer.name, k.answer.mode) => Agree(k, k.answer.name, k.answer.mode)
  BY DEF Agree
<1>2. ASSUME Knows(j, F, L, r) PROVE Knows(k, F, L, r)
  BY <1>2 DEF Knows, Agree
<1>3. k.pc \in {"route", "load", "save", "refresh"} /\ ~ k.disturbed /\ k.req.op = "patch"
      => Knows(k, G, M, s)
  BY <1>2 DEF AnswerGood
<1>. QED BY <1>1, <1>3 DEF AnswerGood

\* The step of another process.
LEMMA OtherAnswers ==
  ASSUME RegistryInv, AnswerInv, NEW p \in Callers, NEW q \in Processes \ {p},
         Ask(q) \/ RunTool(q) \/ Step(q)
  PROVE  AnswerGood(jobs'[p], file', live', readable')
<1>1. p \in Processes /\ AnswerGood(jobs[p], file, live, readable)
  BY DEF AnswerInv, Processes
<1>2. ASSUME NEW j, Becomes(q, j) PROVE jobs'[p] = jobs[p]
  BY <1>1, <1>2 DEF RegistryInv, Becomes
<1>3. CASE Save(q) /\ ~ Raise(q)
  <2>1. /\ jobs[q].pc = "save" /\ live' = live
        /\ \E j : SavedBy(q, j)
    BY <1>3 DEF Save, At, environment
  <2>2. /\ jobs'[p].pc = jobs[p].pc /\ jobs'[p].list = jobs[p].list
        /\ jobs'[p].req = jobs[p].req /\ jobs'[p].peer = jobs[p].peer
        /\ jobs'[p].answer = jobs[p].answer
        /\ ~ jobs'[p].disturbed => ~ jobs[p].disturbed /\ ~ Across(q, p)
    BY <1>1, <2>1, SavedFlags
  <2>3. jobs'[p].disturbed \/ jobs[p].pc \notin {"route", "load", "save", "refresh"}
    <3>1. SUFFICES ASSUME ~ jobs'[p].disturbed, jobs[p].pc \in {"route", "load", "save", "refresh"}
                   PROVE  FALSE
      OBVIOUS
    <3>2. q \in Callers
      BY <2>2, <3>1 DEF Across, Processes
    <3>3. p = q
      BY <2>1, <3>1, <3>2, OneInLock
    <3>. QED BY <3>3
  <2>. QED BY <1>1, <2>2, <2>3, ToldAnswers
<1>4. CASE Raise(q)
  BY <1>1, <1>2, <1>4 DEF Raise, environment
<1>5. CASE ~ Save(q) /\ ~ Raise(q)
  <2>1. UNCHANGED <<file, readable, live>> /\ \E j : Becomes(q, j)
    <3>1. CASE Ask(q) \/ RunTool(q) \/ Enter(q) \/ Load(q) \/ Import(q) \/ Release(q)
      BY <3>1 DEF Ask, RunTool, Enter, Load, Import, Release, environment
    <3>2. CASE List(q) \/ FindPeer(q) \/ ApplyMode(q) \/ ReadConfig(q) \/ Refresh(q)
      BY <1>5, <3>2 DEF List, FindPeer, ApplyMode, ReadConfig, Refresh, environment
    <3>. QED BY <1>5, <3>1, <3>2 DEF Step
  <2>. QED BY <1>1, <1>2, <2>1
<1>. QED BY <1>3, <1>4, <1>5

LEMMA AnswersNext == RegistryInv /\ AnswerInv /\ [Next]_vars => AnswerInv'
<1>. SUFFICES ASSUME RegistryInv, AnswerInv, [Next]_vars PROVE AnswerInv'
  OBVIOUS
<1>1. live' \in PeerSets
  <2>1. \A p \in Processes : Ask(p) \/ RunTool(p) \/ Raise(p) \/ Step(p) => live' = live
    BY DEF Ask, RunTool, Raise, Step, Enter, List, FindPeer, ApplyMode, ReadConfig, Load,
           Import, Save, Refresh, Release, environment
  <2>. QED BY <2>1, RegistryAssumption DEF AnswerInv, Next, EditConfig, ChangePeers, Spoil,
              environment, vars
<1>2. ASSUME NEW p \in Callers PROVE AnswerGood(jobs'[p], file', live', readable')
  <2>1. /\ p \in Processes /\ p \notin Tools /\ AnswerGood(jobs[p], file, live, readable)
        /\ Job(jobs[p])
    BY RegistryAssumption DEF AnswerInv, Processes, RegistryInv, Good
  <2>2. ASSUME NEW q \in Processes, Ask(q) \/ RunTool(q) \/ Step(q), q # p
        PROVE  AnswerGood(jobs'[p], file', live', readable')
    BY <2>2, OtherAnswers
  <2>3. CASE Step(p)
    BY <2>3, OwnAnswers
  <2>4. CASE Ask(p)
    <3>1. PICK r \in Requests : jobs'[p] = [Idle EXCEPT !.pc = "wait", !.req = r]
      BY <2>1, <2>4 DEF Ask, Becomes, RegistryInv
    <3>. QED BY <3>1 DEF AnswerGood, Idle
  <2>5. ASSUME jobs' = [q \in Processes |-> [jobs[q] EXCEPT !.disturbed = TRUE]]
        PROVE  AnswerGood(jobs'[p], file', live', readable')
    <3>. DEFINE k == [jobs[p] EXCEPT !.disturbed = TRUE]
    <3>1. jobs'[p] = k
      BY <2>1, <2>5
    <3>2. /\ k.pc = jobs[p].pc /\ k.req = jobs[p].req /\ k.peer = jobs[p].peer
          /\ k.list = jobs[p].list /\ k.answer = jobs[p].answer /\ k.disturbed = TRUE
      BY <2>1 DEF Job, Fields
    <3>. HIDE DEF k
    <3>. QED BY <2>1, <3>1, <3>2, ToldAnswers
  <2>6. CASE EditConfig \/ UNCHANGED vars
    BY <2>1, <2>6 DEF EditConfig, vars
  <2>7. CASE ChangePeers \/ Spoil
    BY <2>5, <2>7 DEF ChangePeers, Spoil
  <2>8. ~ RunTool(p)
    BY <2>1 DEF RunTool
  <2>. QED BY <2>2, <2>3, <2>4, <2>6, <2>7, <2>8 DEF Next
<1>3. \A p \in Callers : AnswerGood(jobs[p], file, live, readable)'
  BY <1>2 DEF AnswerGood, Knows, Agree, ProfileOf
<1>. QED BY <1>1, <1>3 DEF AnswerInv, PeerSets

\* A PATCH answers with what it was asked to set and, for the rest, with what the
\* status showed before it, unless it was disturbed.
THEOREM PatchesAnswerRight == Spec => []PatchAnswers
<1>1. Init => AnswerInv
  <2>. SUFFICES ASSUME Init PROVE AnswerInv
    OBVIOUS
  <2>1. live \in PeerSets
    BY RegistryAssumption DEF Init, Start
  <2>2. \A p \in Callers : jobs[p] = Idle
    BY DEF Init, Processes
  <2>. QED BY <2>1, <2>2, IdleAnswers DEF AnswerInv
<1>2. AnswerInv => PatchAnswers
  BY DEF AnswerInv, AnswerGood, PatchAnswers, At, Agree
<1>. QED BY <1>1, <1>2, AnswersNext, RegistryInvariant, PTL DEF Spec

-----------------------------------------------------------------------------
\* Types.

\* The types of a job and what its label says of its request: who lists or reads
\* wg0.conf is not a PATCH, and whoever has not come to the merge is at the first
\* peer.  A PATCH that writes has found a peer with an address.
JobTyped(j) ==
  /\ j.pc \in Labels /\ j.req \in Request \cup {None}
  /\ j.pc # "idle" => /\ j.req \in Request
                      /\ j.req.op = "patch" => j.req.ip # None
  /\ j.pc = "status" => j.req.op = "patch"
  /\ j.pc \in {"show", "conf", "merge"} => j.req.op # "patch"
  /\ j.peer # None => j.peer.key \in Keys /\ j.peer.mode \in Modes
  /\ j.pc \in {"route", "load"} /\ j.req.op = "patch" => j.peer \in Profile
  /\ j.peers \in Seq(ConfigPeer) /\ j.next \in 1..(Len(j.peers) + 1)
  /\ j.pc \in {"wait", "status", "route", "show", "conf", "load"} => j.next = 1
  /\ j.list \subseteq Entry
  /\ j.changed \in BOOLEAN /\ j.stale \in BOOLEAN /\ j.disturbed \in BOOLEAN

TypeInv ==
  /\ file \subseteq Profile /\ text \in Seq(Lines) /\ live \in PeerSets /\ left \in Bounds
  /\ \A p \in Processes : JobTyped(jobs[p])

LEMMA IdleTyped == JobTyped(Idle)
<1>1. <<>> \in Seq(ConfigPeer) /\ Len(<<>>) = 0
  OBVIOUS
<1>. QED BY <1>1 DEF JobTyped, Idle, Labels

LEMMA EndedTyped ==
  ASSUME NEW p, NEW j, Job(j), JobTyped(j), j.pc # "idle"
  PROVE  JobTyped(Ended(p, j))
<1>1. LET k == [j EXCEPT !.pc = "release"] IN
      /\ k.pc = "release" /\ k.req = j.req /\ k.peer = j.peer /\ k.peers = j.peers
      /\ k.next = j.next /\ k.list = j.list /\ k.changed = j.changed /\ k.stale = j.stale
      /\ k.disturbed = j.disturbed
  BY DEF Job, Fields
<1>2. JobTyped([j EXCEPT !.pc = "release"])
  BY <1>1 DEF JobTyped, Labels
<1>. QED BY <1>2, IdleTyped DEF Ended

\* The profile of a peer, and the lists made of profiles.
LEMMA ProfileOfTyped ==
  ASSUME NEW F \in SUBSET Profile, NEW key \in Keys, NEW ip \in Ips
  PROVE  ProfileOf(F, key, ip) \in Profile
<1>1. [key |-> key, ip |-> ip, name |-> None, mode |-> "auto"] \in Profile
  BY RegistryAssumption DEF Profile
<1>2. \A S \in SUBSET F : S # {} => (CHOOSE p \in S : TRUE) \in Profile
  OBVIOUS
<1>. QED BY <1>1, <1>2 DEF ProfileOf

LEMMA ListsTyped ==
  /\ \A F \in SUBSET Profile : Listed(F) \subseteq Entry
  /\ \A L \in SUBSET Entry : Unlisted(L) \subseteq Profile
  /\ \A L \in SUBSET Entry, e \in Entry : Put(L, e) \subseteq Entry
<1>1. \A F \in SUBSET Profile : Listed(F) \subseteq Entry
  BY DEF Listed, Profile, Entry
<1>2. \A L \in SUBSET Entry : Unlisted(L) \subseteq Profile
  BY DEF Unlisted, Profile, Entry
<1>3. \A L \in SUBSET Entry, e \in Entry : Put(L, e) \subseteq Entry
  BY DEF Put
<1>. QED BY <1>1, <1>2, <1>3

\* A list that is not empty has a first entry.
LEMMA FirstIsFirst ==
  ASSUME NEW L \in SUBSET Entry, L # {}
  PROVE  FirstOf(L) \in L /\ \A f \in L : Before(FirstOf(L), f)
<1>. DEFINE N == {e.new : e \in L}
<1>1. \A e \in L : e.new \in Nat /\ e.ip \in Nat
  BY NamesAssumption DEF Entry
<1>2. PICK n \in N : \A m \in N : n <= m
  <2>1. N \subseteq Nat /\ N # {}
    BY <1>1
  <2>. HIDE DEF N
  <2>. QED BY <2>1, SmallestOf
<1>. DEFINE A == {e \in L : e.new = n}
            I == {e.ip : e \in A}
<1>3. PICK i \in I : \A m \in I : i <= m
  <2>1. I \subseteq Nat /\ I # {}
    BY <1>1, <1>2
  <2>. HIDE DEF I
  <2>. QED BY <2>1, SmallestOf
<1>4. PICK e \in A : e.ip = i
  BY <1>3
<1>5. e \in L /\ \A f \in L : Before(e, f)
  BY <1>1, <1>2, <1>3, <1>4 DEF Before
<1>. QED BY <1>5 DEF FirstOf

\* What an import puts in the list.
LEMMA ImportedTyped ==
  ASSUME NEW L \in SUBSET Entry, NEW c \in ConfigPeer, NEW n \in Nat
  PROVE  ImportMode(L, c) \in Modes /\ Imported(L, c, n) \subseteq Entry
<1>1. ImportMode(L, c) \in Modes
  <2>1. Matching(L, c) \in SUBSET Entry
    BY DEF Matching
  <2>2. Matching(L, c) # {} => FirstOf(Matching(L, c)) \in Entry
    BY <2>1, FirstIsFirst
  <2>. QED BY <2>2, RegistryAssumption DEF ImportMode, Entry
<1>2. [key |-> c.key, ip |-> c.ip, name |-> c.name, mode |-> ImportMode(L, c), new |-> n] \in Entry
  BY <1>1 DEF ConfigPeer, Entry
<1>. QED BY <1>1, <1>2, ListsTyped DEF Imported

\* The step of p itself.
LEMMA OwnTyped ==
  ASSUME RegistryInv, TypeInv, NEW p \in Processes, Ask(p) \/ RunTool(p) \/ Step(p)
  PROVE  JobTyped(jobs'[p])
<1>. DEFINE j == jobs[p]
<1>1. Job(j) /\ JobTyped(j)
  BY DEF RegistryInv, Good, TypeInv
<1>2. \A k : Becomes(p, k) => jobs'[p] = k
  BY DEF RegistryInv, Becomes
<1>3. j.pc # "idle" => JobTyped(Ended(p, j))
  BY <1>1, EndedTyped
<1>4. CASE Ask(p)
  <2>1. PICK r \in Requests : jobs'[p] = [Idle EXCEPT !.pc = "wait", !.req = r]
    BY <1>2, <1>4 DEF Ask
  <2>. DEFINE k == [Idle EXCEPT !.pc = "wait", !.req = r]
  <2>2. r \in Request /\ (r.op = "patch" => r.ip # None)
    BY RegistryAssumption
  <2>3. /\ k.pc = "wait" /\ k.req = r /\ k.peer = None /\ k.peers = <<>> /\ k.next = 1
        /\ k.list = {} /\ k.changed = FALSE /\ k.stale = FALSE /\ k.disturbed = FALSE
    BY DEF Idle
  <2>. HIDE DEF k
  <2>4. k.peers \in Seq(ConfigPeer) /\ k.next \in 1..(Len(k.peers) + 1) /\ k.list \subseteq Entry
    BY <2>3
  <2>5. JobTyped(k)
    BY <2>2, <2>3, <2>4 DEF JobTyped, Labels
  <2>. QED BY <2>1, <2>5 DEF k
<1>5. CASE RunTool(p)
  <2>1. PICK r \in Arguments : jobs'[p] = [Idle EXCEPT !.pc = "show", !.req = r]
    BY <1>2, <1>5 DEF RunTool
  <2>. DEFINE k == [Idle EXCEPT !.pc = "show", !.req = r]
  <2>2. r \in Request /\ r.op # "patch"
    BY RegistryAssumption
  <2>3. /\ k.pc = "show" /\ k.req = r /\ k.peer = None /\ k.peers = <<>> /\ k.next = 1
        /\ k.list = {} /\ k.changed = FALSE /\ k.stale = FALSE /\ k.disturbed = FALSE
    BY DEF Idle
  <2>. HIDE DEF k
  <2>4. k.peers \in Seq(ConfigPeer) /\ k.next \in 1..(Len(k.peers) + 1) /\ k.list \subseteq Entry
    BY <2>3
  <2>5. JobTyped(k)
    BY <2>2, <2>3, <2>4 DEF JobTyped, Labels
  <2>. QED BY <2>1, <2>5 DEF k
<1>6. CASE Enter(p)
  <2>. DEFINE k == [j EXCEPT !.pc = IF j.req.op = "patch" THEN "status" ELSE "conf"]
  <2>1. jobs'[p] = k /\ j.pc = "wait"
    BY <1>2, <1>6 DEF Enter, At
  <2>2. /\ k.pc = (IF j.req.op = "patch" THEN "status" ELSE "conf") /\ k.req = j.req
        /\ k.peer = j.peer /\ k.peers = j.peers /\ k.next = j.next /\ k.list = j.list
        /\ k.changed = j.changed /\ k.stale = j.stale /\ k.disturbed = j.disturbed
    BY <1>1 DEF Job, Fields
  <2>. HIDE DEF k
  <2>3. JobTyped(k)
    BY <1>1, <2>1, <2>2 DEF JobTyped, Labels
  <2>. QED BY <2>1, <2>3
<1>7. CASE Raise(p) /\ j.pc # "idle"
  BY <1>2, <1>3, <1>7 DEF Raise
<1>8. CASE List(p) /\ ~ Raise(p)
  <2>. DEFINE k == [j EXCEPT !.pc = "conf"]
  <2>1. (jobs'[p] = k \/ jobs'[p] = Idle) /\ j.pc = "show"
    BY <1>2, <1>8 DEF List, At
  <2>2. /\ k.pc = "conf" /\ k.req = j.req
        /\ k.peer = j.peer /\ k.peers = j.peers /\ k.next = j.next /\ k.list = j.list
        /\ k.changed = j.changed /\ k.stale = j.stale /\ k.disturbed = j.disturbed
    BY <1>1 DEF Job, Fields
  <2>. HIDE DEF k
  <2>3. JobTyped(k)
    BY <1>1, <2>1, <2>2 DEF JobTyped, Labels
  <2>. QED BY <2>1, <2>3, IdleTyped
<1>9. CASE FindPeer(p) /\ ~ Raise(p)
  <2>1. j.pc = "status"
    BY <1>9 DEF FindPeer, At
  <2>2. CASE Becomes(p, Ended(p, j))
    BY <1>2, <1>3, <2>1, <2>2
  <2>3. CASE ~ Becomes(p, Ended(p, j))
    <3>1. PICK x \in live :
            /\ x.ip = j.req.ip
            /\ Becomes(p, [j EXCEPT !.pc = IF j.req.mode # None THEN "route" ELSE "load",
                                    !.peer = Shown(x), !.disturbed = ~ readable])
      BY <1>9, <2>3 DEF FindPeer
    <3>. DEFINE k == [j EXCEPT !.pc = IF j.req.mode # None THEN "route" ELSE "load",
                               !.peer = Shown(x), !.disturbed = ~ readable]
    <3>2. /\ k.pc \in {"route", "load"} /\ k.req = j.req /\ k.peer = Shown(x)
          /\ k.peers = j.peers /\ k.next = j.next /\ k.list = j.list
          /\ k.changed = j.changed /\ k.stale = j.stale /\ k.disturbed = ~ readable
      BY <1>1 DEF Job, Fields
    <3>3. jobs'[p] = k
      BY <1>2, <3>1
    <3>. HIDE DEF k
    <3>4. x.key \in Keys /\ x.ip \in Ips \cup {None}
      BY DEF TypeInv, PeerSets, Peer
    <3>5. Loaded \in SUBSET Profile /\ readable \in BOOLEAN
      BY DEF TypeInv, Loaded, RegistryInv
    <3>6. CASE j.req.op = "patch"
      <4>1. x.ip \in Ips
        BY <1>1, <2>1, <3>1, <3>4, <3>6 DEF JobTyped
      <4>2. ProfileOf(Loaded, x.key, x.ip) \in Profile
        BY <3>4, <3>5, <4>1, ProfileOfTyped
      <4>3. Shown(x) \in Profile
        BY <3>4, <4>1, <4>2 DEF Shown, Profile
      <4>4. Shown(x).key \in Keys /\ Shown(x).mode \in Modes
        BY <4>3 DEF Profile
      <4>5. JobTyped(k)
        BY <1>1, <2>1, <3>2, <3>5, <4>3, <4>4 DEF JobTyped, Labels
      <4>. QED BY <3>3, <4>5
    <3>. QED BY <2>1, <3>6, <1>1 DEF JobTyped
  <2>. QED BY <2>2, <2>3
<1>10. CASE ApplyMode(p) /\ ~ Raise(p)
  <2>. DEFINE k == [j EXCEPT !.pc = "load"]
  <2>1. jobs'[p] = k /\ j.pc = "route"
    BY <1>2, <1>10 DEF ApplyMode, At
  <2>2. /\ k.pc = "load" /\ k.req = j.req
        /\ k.peer = j.peer /\ k.peers = j.peers /\ k.next = j.next /\ k.list = j.list
        /\ k.changed = j.changed /\ k.stale = j.stale /\ k.disturbed = j.disturbed
    BY <1>1 DEF Job, Fields
  <2>. HIDE DEF k
  <2>3. JobTyped(k)
    BY <1>1, <2>1, <2>2 DEF JobTyped, Labels
  <2>. QED BY <2>1, <2>3
<1>11. CASE ReadConfig(p) /\ ~ Raise(p)
  <2>. DEFINE k == [j EXCEPT !.pc = "load", !.peers = Parsed(text)]
  <2>1. jobs'[p] = k /\ j.pc = "conf"
    BY <1>2, <1>11 DEF ReadConfig, At
  <2>2. /\ k.pc = "load" /\ k.req = j.req /\ k.peer = j.peer /\ k.peers = Parsed(text)
        /\ k.next = j.next /\ k.list = j.list
        /\ k.changed = j.changed /\ k.stale = j.stale /\ k.disturbed = j.disturbed
    BY <1>1 DEF Job, Fields
  <2>. HIDE DEF k
  <2>3. Parsed(text) \in Seq(ConfigPeer)
    BY ParsedPeers DEF TypeInv
  <2>4. j.next = 1 /\ 1 \in 1..(Len(Parsed(text)) + 1)
    BY <1>1, <2>1, <2>3 DEF JobTyped
  <2>5. JobTyped(k)
    BY <1>1, <2>1, <2>2, <2>3, <2>4 DEF JobTyped, Labels
  <2>. QED BY <2>1, <2>5
<1>12. CASE Load(p)
  <2>1. j.pc = "load"
    BY <1>12 DEF Load, At
  <2>2. Loaded \in SUBSET Profile /\ Listed(Loaded) \in SUBSET Entry /\ readable \in BOOLEAN
    BY ListsTyped DEF TypeInv, Loaded, RegistryInv
  <2>3. CASE j.req.op = "patch"
    <3>. DEFINE k == [j EXCEPT !.pc = "save", !.list = Upserted(Loaded, j), !.stale = ~ readable]
                x == Existing(Loaded, j.peer.key, j.peer.ip)
                e == [key |-> j.peer.key, ip |-> j.peer.ip,
                      name |-> IF j.req.name # None THEN j.req.name ELSE x.name,
                      mode |-> IF j.req.mode # None THEN j.req.mode ELSE x.mode,
                      new |-> 1]
    <3>1. jobs'[p] = k
      BY <1>2, <1>12, <2>3 DEF Load
    <3>2. /\ k.pc = "save" /\ k.req = j.req /\ k.peer = j.peer /\ k.peers = j.peers
          /\ k.next = j.next /\ k.list = Upserted(Loaded, j)
          /\ k.changed = j.changed /\ k.stale = ~ readable /\ k.disturbed = j.disturbed
      BY <1>1 DEF Job, Fields
    <3>3. j.peer \in Profile /\ j.req \in Request
      BY <1>1, <2>1, <2>3 DEF JobTyped
    <3>4. x \in Profile
      BY <2>2, <3>3, ProfileOfTyped DEF Existing, Profile
    <3>5. e \in Entry
      <4>. HIDE DEF x
      <4>1. j.peer.key \in Keys /\ j.peer.ip \in Ips /\ x.name \in Names \cup {None} /\ x.mode \in Modes
        BY <3>3, <3>4 DEF Profile
      <4>2. j.req.name \in Names \cup {None} /\ j.req.mode \in Modes \cup {None}
        BY <3>3 DEF Request
      <4>. QED BY <4>1, <4>2 DEF Entry
    <3>6. Upserted(Loaded, j) = Put(Listed(Loaded), e)
      BY DEF Upserted
    <3>. HIDE DEF k, e
    <3>7. Upserted(Loaded, j) \subseteq Entry
      BY <2>2, <3>5, <3>6, ListsTyped
    <3>8. JobTyped(k)
      BY <1>1, <2>1, <2>2, <3>2, <3>7 DEF JobTyped, Labels
    <3>. QED BY <3>1, <3>8
  <2>4. CASE j.req.op # "patch"
    <3>. DEFINE k == [j EXCEPT !.pc = "merge", !.list = Listed(Loaded), !.stale = ~ readable]
    <3>1. jobs'[p] = k
      BY <1>2, <1>12, <2>4 DEF Load
    <3>2. /\ k.pc = "merge" /\ k.req = j.req /\ k.peer = j.peer /\ k.peers = j.peers
          /\ k.next = j.next /\ k.list = Listed(Loaded)
          /\ k.changed = j.changed /\ k.stale = ~ readable /\ k.disturbed = j.disturbed
      BY <1>1 DEF Job, Fields
    <3>. HIDE DEF k
    <3>3. JobTyped(k)
      BY <1>1, <2>1, <2>2, <2>4, <3>2 DEF JobTyped, Labels
    <3>. QED BY <3>1, <3>3
  <2>. QED BY <2>3, <2>4
<1>13. CASE Import(p)
  <2>. DEFINE c == j.peers[j.next]
  <2>1. j.pc = "merge" /\ j.peers \in Seq(ConfigPeer) /\ j.next \in 1..(Len(j.peers) + 1)
    BY <1>1, <1>13 DEF Import, At, JobTyped
  <2>2. CASE j.next \notin DOMAIN j.peers
    <3>. DEFINE k == [j EXCEPT !.pc = "save"]
    <3>1. jobs'[p] = k \/ jobs'[p] = Ended(p, j)
      BY <1>2, <1>13, <2>2 DEF Import
    <3>2. /\ k.pc = "save" /\ k.req = j.req /\ k.peer = j.peer /\ k.peers = j.peers
          /\ k.next = j.next /\ k.list = j.list
          /\ k.changed = j.changed /\ k.stale = j.stale /\ k.disturbed = j.disturbed
      BY <1>1 DEF Job, Fields
    <3>. HIDE DEF k
    <3>3. JobTyped(k)
      BY <1>1, <2>1, <3>2 DEF JobTyped, Labels
    <3>. QED BY <1>3, <2>1, <3>1, <3>3
  <2>3. CASE j.next \in DOMAIN j.peers
    <3>. DEFINE k2 == [j EXCEPT !.next = @ + 1]
                k3 == [j EXCEPT !.next = @ + 1, !.changed = TRUE, !.list = Imported(@, c, j.next)]
    <3>1. jobs'[p] = k2 \/ jobs'[p] = k3
      BY <1>2, <1>13, <2>3 DEF Import
    <3>2. c \in ConfigPeer /\ j.next \in Nat /\ j.next + 1 \in 1..(Len(j.peers) + 1)
      BY <2>1, <2>3
    <3>3. Imported(j.list, c, j.next) \subseteq Entry
      BY <1>1, <3>2, ImportedTyped DEF JobTyped
    <3>4. /\ k2.pc = "merge" /\ k2.req = j.req /\ k2.peer = j.peer /\ k2.peers = j.peers
          /\ k2.next = j.next + 1 /\ k2.list = j.list
          /\ k2.changed = j.changed /\ k2.stale = j.stale /\ k2.disturbed = j.disturbed
      BY <1>1, <2>1 DEF Job, Fields
    <3>5. /\ k3.pc = "merge" /\ k3.req = j.req /\ k3.peer = j.peer /\ k3.peers = j.peers
          /\ k3.next = j.next + 1 /\ k3.list = Imported(j.list, c, j.next)
          /\ k3.changed = TRUE /\ k3.stale = j.stale /\ k3.disturbed = j.disturbed
      BY <1>1, <2>1 DEF Job, Fields
    <3>. HIDE DEF c, k2, k3
    <3>6. JobTyped(k2)
      BY <1>1, <2>1, <3>2, <3>4 DEF JobTyped, Labels
    <3>7. JobTyped(k3)
      BY <1>1, <2>1, <3>2, <3>3, <3>5 DEF JobTyped, Labels
    <3>. QED BY <3>1, <3>6, <3>7
  <2>. QED BY <2>2, <2>3
<1>14. CASE Save(p) /\ ~ Raise(p)
  <2>. DEFINE k == [j EXCEPT !.pc = "refresh"]
  <2>1. (jobs'[p] = k \/ jobs'[p] = Ended(p, j)) /\ j.pc = "save"
    BY <1>14 DEF Save, At, SavedBy
  <2>2. /\ k.pc = "refresh" /\ k.req = j.req
        /\ k.peer = j.peer /\ k.peers = j.peers /\ k.next = j.next /\ k.list = j.list
        /\ k.changed = j.changed /\ k.stale = j.stale /\ k.disturbed = j.disturbed
    BY <1>1 DEF Job, Fields
  <2>. HIDE DEF k
  <2>3. JobTyped(k)
    BY <1>1, <2>1, <2>2 DEF JobTyped, Labels
  <2>. QED BY <1>3, <2>1, <2>3
<1>15. CASE Refresh(p) /\ ~ Raise(p)
  <2>1. j.pc = "refresh"
    BY <1>15 DEF Refresh, At
  <2>2. CASE Becomes(p, Ended(p, j))
    BY <1>2, <1>3, <2>1, <2>2
  <2>3. CASE ~ Becomes(p, Ended(p, j))
    <3>1. PICK x \in live : Becomes(p, Ended(p, [j EXCEPT !.answer = Shown(x)]))
      BY <1>15, <2>3 DEF Refresh
    <3>. DEFINE k == [j EXCEPT !.answer = Shown(x)]
    <3>2. /\ k.pc = j.pc /\ k.req = j.req
          /\ k.peer = j.peer /\ k.peers = j.peers /\ k.next = j.next /\ k.list = j.list
          /\ k.changed = j.changed /\ k.stale = j.stale /\ k.disturbed = j.disturbed
          /\ Job(k)
      BY <1>1 DEF Job, Fields, Labels
    <3>3. jobs'[p] = Ended(p, k)
      BY <1>2, <3>1
    <3>. HIDE DEF k
    <3>4. JobTyped(k)
      BY <1>1, <3>2 DEF JobTyped
    <3>. QED BY <2>1, <3>2, <3>3, <3>4, EndedTyped
  <2>. QED BY <2>2, <2>3
<1>16. CASE Release(p)
  BY <1>2, <1>16, IdleTyped DEF Release
<1>17. Raise(p) /\ (List(p) \/ FindPeer(p) \/ ApplyMode(p) \/ ReadConfig(p) \/ Save(p) \/ Refresh(p))
       => j.pc # "idle"
  BY DEF List, FindPeer, ApplyMode, ReadConfig, Save, Refresh, At
<1>. QED BY <1>4, <1>5, <1>6, <1>7, <1>8, <1>9, <1>10, <1>11, <1>12, <1>13, <1>14, <1>15,
            <1>16, <1>17 DEF Step

\* The step of another process reaches a job through two flags at most.
LEMMA OtherTyped ==
  ASSUME RegistryInv, TypeInv, NEW p \in Processes, NEW q \in Processes \ {p},
         Ask(q) \/ RunTool(q) \/ Step(q)
  PROVE  JobTyped(jobs'[p])
<1>1. Job(jobs[p]) /\ JobTyped(jobs[p])
  BY DEF RegistryInv, Good, TypeInv
<1>2. CASE \E j : Becomes(q, j)
  BY <1>1, <1>2 DEF RegistryInv, Becomes
<1>3. CASE \E j : SavedBy(q, j)
  <2>1. jobs'[p] = [jobs[p] EXCEPT !.stale = @ \/ Across(q, p), !.disturbed = @ \/ Across(q, p)]
    BY <1>3 DEF SavedBy
  <2>2. Across(q, p) \in BOOLEAN
    BY DEF Across
  <2>. HIDE DEF Across
  <2>3. LET j == jobs[p]
            k == jobs'[p] IN
        /\ k.pc = j.pc /\ k.req = j.req /\ k.peer = j.peer /\ k.peers = j.peers
        /\ k.next = j.next /\ k.list = j.list /\ k.changed = j.changed
        /\ k.stale \in BOOLEAN /\ k.disturbed \in BOOLEAN
    BY <1>1, <2>1, <2>2 DEF Job, Fields
  <2>. QED BY <1>1, <2>3 DEF JobTyped
<1>4. (\E j : Becomes(q, j)) \/ (\E j : SavedBy(q, j))
  <2>1. CASE Ask(q) \/ RunTool(q) \/ Enter(q) \/ Load(q) \/ Import(q) \/ Release(q) \/ Raise(q)
    BY <2>1 DEF Ask, RunTool, Enter, Load, Import, Release, Raise
  <2>2. CASE (List(q) \/ FindPeer(q) \/ ApplyMode(q) \/ ReadConfig(q) \/ Refresh(q)) /\ ~ Raise(q)
    BY <2>2 DEF List, FindPeer, ApplyMode, ReadConfig, Refresh
  <2>3. CASE Save(q) /\ ~ Raise(q)
    BY <2>3 DEF Save
  <2>. QED BY <2>1, <2>2, <2>3 DEF Step
<1>. QED BY <1>2, <1>3, <1>4

\* The file, the texts and the peers.
LEMMA WorldTyped ==
  ASSUME RegistryInv, TypeInv, [Next]_vars
  PROVE  /\ file' \subseteq Profile /\ text' \in Seq(Lines) /\ live' \in PeerSets
         /\ left' \in Bounds
<1>1. file' \subseteq Profile
  <2>1. SUFFICES ASSUME file' # file PROVE file' \subseteq Profile
    BY DEF TypeInv
  <2>2. PICK p \in Processes : Save(p) /\ ~ Raise(p)
    BY <2>1, OnlySaveWrites
  <2>3. file' = Unlisted(jobs[p].list) /\ jobs[p].list \subseteq Entry
    BY <2>2 DEF Save, TypeInv, JobTyped
  <2>. QED BY <2>3, ListsTyped
<1>2. \A w \in {"requests", "tools", "changes", "trouble"} : Spend(w) => left' \in Bounds
  BY DEF Spend, TypeInv, Bounds
<1>3. ASSUME NEW p \in Processes, Ask(p) \/ RunTool(p) \/ Step(p)
      PROVE  text' = text /\ live' = live /\ left' \in Bounds
  <2>1. CASE Ask(p) \/ RunTool(p) \/ Raise(p)
    BY <1>2, <2>1 DEF Ask, RunTool, Raise, environment
  <2>2. CASE Enter(p) \/ Load(p) \/ Import(p) \/ Release(p)
    BY <2>2 DEF Enter, Load, Import, Release, environment, TypeInv
  <2>3. CASE (List(p) \/ FindPeer(p) \/ ApplyMode(p) \/ ReadConfig(p) \/ Save(p) \/ Refresh(p))
             /\ ~ Raise(p)
    BY <2>3 DEF List, FindPeer, ApplyMode, ReadConfig, Save, Refresh, environment, TypeInv
  <2>. QED BY <1>3, <2>1, <2>2, <2>3 DEF Step
<1>4. CASE EditConfig
  BY <1>2, <1>4, RegistryAssumption DEF EditConfig, TypeInv
<1>5. CASE ChangePeers
  BY <1>2, <1>5, RegistryAssumption DEF ChangePeers, TypeInv
<1>6. CASE Spoil
  BY <1>2, <1>6 DEF Spoil, environment, TypeInv
<1>7. CASE UNCHANGED vars
  BY <1>7 DEF vars, TypeInv
<1>. QED BY <1>1, <1>3, <1>4, <1>5, <1>6, <1>7 DEF Next, TypeInv

LEMMA InitTyped == Init => TypeInv
<1>. SUFFICES ASSUME Init PROVE TypeInv
  OBVIOUS
<1>1. /\ file \subseteq Profile /\ text \in Seq(Lines) /\ live \in PeerSets /\ left \in Bounds
  BY RegistryAssumption DEF Init, Start
<1>2. \A p \in Processes : jobs[p] = Idle
  BY DEF Init
<1>. QED BY <1>1, <1>2, IdleTyped DEF TypeInv

LEMMA TypesNext == RegistryInv /\ TypeInv /\ [Next]_vars => TypeInv'
<1>. SUFFICES ASSUME RegistryInv, TypeInv, [Next]_vars PROVE TypeInv'
  OBVIOUS
<1>1. ASSUME NEW p \in Processes PROVE JobTyped(jobs'[p])
  <2>1. Job(jobs[p]) /\ JobTyped(jobs[p])
    BY DEF RegistryInv, Good, TypeInv
  <2>2. CASE \E q \in Processes : Ask(q) \/ RunTool(q) \/ Step(q)
    BY <2>2, OwnTyped, OtherTyped
  <2>3. CASE jobs' = [q \in Processes |-> [jobs[q] EXCEPT !.disturbed = TRUE]]
    <3>. DEFINE k == [jobs[p] EXCEPT !.disturbed = TRUE]
    <3>1. jobs'[p] = k
      BY <2>3
    <3>2. /\ k.pc = jobs[p].pc /\ k.req = jobs[p].req /\ k.peer = jobs[p].peer
          /\ k.peers = jobs[p].peers /\ k.next = jobs[p].next /\ k.list = jobs[p].list
          /\ k.changed = jobs[p].changed /\ k.stale = jobs[p].stale /\ k.disturbed = TRUE
      BY <2>1 DEF Job, Fields
    <3>. HIDE DEF k
    <3>3. JobTyped(k)
      BY <2>1, <3>2 DEF JobTyped
    <3>. QED BY <3>1, <3>3
  <2>. QED BY <2>1, <2>2, <2>3 DEF Next, EditConfig, ChangePeers, Spoil, vars
<1>2. \A p \in Processes : JobTyped(jobs[p])'
  BY <1>1 DEF JobTyped
<1>. QED BY <1>2, WorldTyped DEF TypeInv

\* The profiles, requests, lists and peers of wg0.conf that the processes work on
\* are always of their types: a mode is one of the modes, whatever was imported.
THEOREM RegistryTypes == Spec => []TypeOK
<1>1. Init => TypeInv
  BY InitTyped
<1>2. RegistryInv /\ TypeInv /\ [Next]_vars => TypeInv'
  BY TypesNext
<1>3. RegistryInv /\ TypeInv => TypeOK
  BY DEF RegistryInv, TypeInv, TypeOK, JobTyped
<1>. QED BY <1>1, <1>2, <1>3, RegistryInvariant, PTL DEF Spec

-----------------------------------------------------------------------------
\* What an import keeps.

\* The profile q as an entry of the list it was read into.
Entered(q) == [key |-> q.key, ip |-> q.ip, name |-> q.name, mode |-> q.mode, new |-> 0]

\* The named peers of wg0.conf an import is through with.
Done(j) == {n \in Named(j) : n < j.next}

\* No two named peers of wg0.conf have a key or an address in common.
Apart(j) == \A m, n \in Named(j) : Alike(j.peers[m], j.peers[n]) => m = n

\* A profile without a name that comes before q, and a peer alike both.
Outdone(j, F, q) ==
  \E r \in F, n \in Named(j) : /\ r.name = None /\ r.ip < q.ip
                               /\ Alike(r, j.peers[n]) /\ Alike(q, j.peers[n])

\* During an import that nothing overlapped every entry of the list is from the
\* file or one of the peers done; a profile of the file is in the list unless one
\* of them is alike, a profile with a name unless it was outdone or names are
\* overwritten; and where a key has its address in both it has its mode in both,
\* if the named peers are apart.
ListKept(j, F) ==
  j.pc \in {"merge", "save"} /\ j.req.op # "patch" /\ ~ j.stale =>
    /\ \A e \in j.list :
         \/ \E q \in F : e = Entered(q)
         \/ /\ e.new \in Done(j) /\ e.name # None
            /\ e.key = j.peers[e.new].key /\ e.ip = j.peers[e.new].ip
    /\ \A q \in F : Entered(q) \in j.list \/ \E n \in Done(j) : Alike(q, j.peers[n])
    /\ ~ j.req.overwrite =>
         \A q \in F : q.name # None => Entered(q) \in j.list \/ Outdone(j, F, q)
    /\ Apart(j) => \A q \in F, e \in j.list : q.key = e.key /\ q.ip = e.ip => q.mode = e.mode

KeptInv == \A p \in Processes : ListKept(jobs[p], file)

\* The list as it is read from the file.
LEMMA ReadKept ==
  ASSUME NEW F, Unique(F), NEW j, j.list = Listed(F)
  PROVE  ListKept(j, F)
<1>1. \A e : e \in Listed(F) <=> \E q \in F : e = Entered(q)
  BY DEF Listed, Entered
<1>2. ASSUME NEW q \in F, NEW e \in j.list, q.key = e.key PROVE q.mode = e.mode
  <2>1. PICK r \in F : e = Entered(r)
    BY <1>1
  <2>2. e.key = r.key /\ e.mode = r.mode
    BY <2>1 DEF Entered
  <2>3. q = r
    BY <1>2, <2>2 DEF Unique, Alike
  <2>. QED BY <2>2, <2>3
<1>. QED BY <1>1, <1>2 DEF ListKept

\* A list that stays as it is, while the next peer may be another.
LEMMA SameKept ==
  ASSUME NEW F, NEW j, NEW k, ListKept(j, F), j.pc \in {"merge", "save"},
         k.list = j.list, k.peers = j.peers, k.req = j.req, ~ k.stale => ~ j.stale,
         j.next \in Nat, k.next \in {j.next, j.next + 1}, j.peers \in Seq(ConfigPeer)
  PROVE  ListKept(k, F)
<1>1. Named(k) = Named(j) /\ \A n \in Named(j) : n \in Nat
  BY DEF Named
<1>2. \A n \in Done(j) : n \in Done(k)
  BY <1>1 DEF Done
<1>3. (Apart(k) <=> Apart(j)) /\ \A q : Outdone(j, F, q) => Outdone(k, F, q)
  BY <1>1 DEF Apart, Outdone
<1>. HIDE DEF Done
<1>. QED BY <1>2, <1>3 DEF ListKept

\* The peer that is imported.
LEMMA ImportKept ==
  ASSUME NEW F \in SUBSET Profile, Unique(F),
         NEW j, JobTyped(j), Unique(j.list), ListKept(j, F), j.pc = "merge", j.req.op # "patch",
         j.next \in DOMAIN j.peers, NEW c, c = j.peers[j.next], c.name # None,
         ~ Preserved(j.list, c, j.req.overwrite),
         NEW k, k.list = Imported(j.list, c, j.next), k.peers = j.peers, k.req = j.req,
         k.stale = j.stale, k.next = j.next + 1
  PROVE  ListKept(k, F)
<1>. SUFFICES ASSUME ~ j.stale PROVE ListKept(k, F)
  BY DEF ListKept
<1>. DEFINE n  == j.next
            e0 == [key |-> c.key, ip |-> c.ip, name |-> c.name, mode |-> ImportMode(j.list, c),
                   new |-> n]
            M  == Matching(j.list, c)
<1>1. /\ j.peers \in Seq(ConfigPeer) /\ n \in Nat /\ j.list \in SUBSET Entry
      /\ \A m \in Named(j) : m \in Nat
  BY DEF JobTyped, Named
<1>2. /\ k.list = {f \in j.list : ~ Alike(f, e0)} \cup {e0}
      /\ e0.key = c.key /\ e0.ip = c.ip /\ e0.name = c.name /\ e0.mode = ImportMode(j.list, c)
      /\ e0.new = n
  BY DEF Imported, Put
<1>. HIDE DEF e0
<1>3. \A f : Alike(f, e0) <=> Alike(f, c)
  BY <1>2 DEF Alike
<1>4. /\ Named(k) = Named(j) /\ n \in Named(j) /\ n \in Done(k)
      /\ \A m \in Done(j) : m \in Done(k) /\ m \in Named(j) /\ m < n
  BY <1>1 DEF Named, Done
<1>5. (Apart(k) <=> Apart(j)) /\ \A q : Outdone(j, F, q) => Outdone(k, F, q)
  BY <1>4 DEF Apart, Outdone
<1>. HIDE DEF Done
<1>6. \A q \in F : /\ Entered(q).key = q.key /\ Entered(q).ip = q.ip /\ Entered(q).name = q.name
                   /\ Entered(q).mode = q.mode /\ Entered(q).new = 0
  BY DEF Entered
<1>7. \A q \in F : Alike(Entered(q), c) <=> Alike(q, c)
  BY <1>6 DEF Alike
<1>8. \A q \in F : Entered(q) \in j.list => Entered(q) \in k.list \/ Alike(q, c)
  BY <1>2, <1>3, <1>7
<1>9. ASSUME NEW f \in k.list
      PROVE  \/ \E q \in F : f = Entered(q)
             \/ /\ f.new \in Done(k) /\ f.name # None
                /\ f.key = k.peers[f.new].key /\ f.ip = k.peers[f.new].ip
  BY <1>2, <1>4 DEF ListKept
<1>10. ASSUME NEW q \in F PROVE Entered(q) \in k.list \/ \E m \in Done(k) : Alike(q, k.peers[m])
  BY <1>4, <1>8 DEF ListKept
<1>11. ASSUME ~ j.req.overwrite, NEW q \in F, q.name # None, Entered(q) \in j.list, Alike(q, c)
       PROVE  Outdone(k, F, q)
  <2>1. Entered(q) \in M /\ M \in SUBSET Entry
    BY <1>1, <1>7, <1>11 DEF Matching
  <2>. DEFINE f == FirstOf(M)
  <2>2. f \in M /\ Before(f, Entered(q))
    BY <2>1, FirstIsFirst
  <2>3. f.name = None /\ f \in j.list /\ Alike(f, c)
    BY <1>11, <2>2 DEF Preserved, Matching
  <2>4. PICK r \in F : f = Entered(r)
    BY <2>3 DEF ListKept
  <2>5. r.name = None /\ Alike(r, c) /\ r # q
    BY <1>6, <1>7, <1>11, <2>3, <2>4
  <2>6. r.ip <= q.ip
    BY <1>6, <2>2, <2>4 DEF Before
  <2>7. r.ip # q.ip
    BY <2>5 DEF Unique, Alike
  <2>8. r.ip \in Nat /\ q.ip \in Nat
    BY NamesAssumption DEF Profile
  <2>. QED BY <1>4, <1>11, <2>5, <2>6, <2>7, <2>8 DEF Outdone
<1>12. ASSUME Apart(j), NEW q \in F, q.key = c.key, q.ip = c.ip
       PROVE  ImportMode(j.list, c) = q.mode
  <2>1. ASSUME NEW m \in Done(j), Alike(q, j.peers[m]) PROVE FALSE
    <3>1. Alike(j.peers[m], j.peers[n])
      BY <1>12, <2>1 DEF Alike
    <3>2. m = n
      BY <1>4, <1>12, <3>1 DEF Apart
    <3>. QED BY <1>1, <1>4, <3>2
  <2>2. Entered(q) \in M /\ M \in SUBSET Entry
    BY <1>1, <1>6, <1>12, <2>1 DEF ListKept, Matching, Alike
  <2>3. FirstOf(M) \in M
    BY <2>2, FirstIsFirst
  <2>4. FirstOf(M) = Entered(q)
    BY <1>6, <1>12, <2>2, <2>3 DEF Matching, Unique, Alike
  <2>. QED BY <1>6, <2>2, <2>4 DEF ImportMode
<1>13. ASSUME Apart(k), NEW q \in F, NEW f \in k.list, q.key = f.key, q.ip = f.ip
       PROVE  q.mode = f.mode
  <2>1. CASE f = e0
    BY <1>2, <1>5, <1>12, <1>13, <2>1
  <2>2. CASE f \in j.list
    BY <1>5, <1>13, <2>2 DEF ListKept
  <2>. QED BY <1>2, <2>1, <2>2
<1>14. ASSUME ~ k.req.overwrite, NEW q \in F, q.name # None
       PROVE  Entered(q) \in k.list \/ Outdone(k, F, q)
  BY <1>5, <1>8, <1>11, <1>14 DEF ListKept
<1>. QED BY <1>9, <1>10, <1>13, <1>14 DEF ListKept

\* The step of p itself.
LEMMA OwnKept ==
  ASSUME RegistryInv, TypeInv, KeptInv, NEW p \in Processes, Ask(p) \/ RunTool(p) \/ Step(p)
  PROVE  ListKept(jobs'[p], file')
<1>. DEFINE j == jobs[p]
<1>1. /\ Job(j) /\ JobTyped(j) /\ ListKept(j, file) /\ Unique(file) /\ file \in SUBSET Profile
  BY DEF RegistryInv, Good, TypeInv, KeptInv
<1>2. \A k : Becomes(p, k) => jobs'[p] = k
  BY DEF RegistryInv, Becomes
<1>3. \A k : k.pc \notin {"merge", "save"} \/ k.req.op = "patch" => ListKept(k, file')
  BY DEF ListKept
<1>4. Ended(p, j).pc \notin {"merge", "save"}
  BY <1>1 DEF Ended, Job, Fields, Idle
<1>5. CASE Raise(p)
  BY <1>2, <1>3, <1>4, <1>5 DEF Raise
<1>6. CASE Ask(p) \/ RunTool(p) \/ Release(p)
  <2>1. CASE Ask(p)
    <3>1. PICK r : jobs'[p] = [Idle EXCEPT !.pc = "wait", !.req = r]
      BY <1>2, <2>1 DEF Ask
    <3>2. jobs'[p].pc = "wait"
      BY <3>1 DEF Idle
    <3>. QED BY <1>3, <3>2
  <2>2. CASE RunTool(p)
    <3>1. PICK r : jobs'[p] = [Idle EXCEPT !.pc = "show", !.req = r]
      BY <1>2, <2>2 DEF RunTool
    <3>2. jobs'[p].pc = "show"
      BY <3>1 DEF Idle
    <3>. QED BY <1>3, <3>2
  <2>3. CASE Release(p)
    <3>1. jobs'[p].pc = "idle"
      BY <1>2, <2>3 DEF Release, Idle
    <3>. QED BY <1>3, <3>1
  <2>. QED BY <1>6, <2>1, <2>2, <2>3
<1>7. CASE (Enter(p) \/ List(p) \/ FindPeer(p) \/ ApplyMode(p) \/ ReadConfig(p)) /\ ~ Raise(p)
  <2>1. \A v \in {"status", "conf", "load", "route"} : [j EXCEPT !.pc = v].pc = v
    BY <1>1 DEF Job, Fields
  <2>2. CASE Enter(p)
    <3>1. PICK v \in {"status", "conf"} : jobs'[p] = [j EXCEPT !.pc = v]
      BY <1>2, <2>2 DEF Enter
    <3>. QED BY <1>3, <2>1, <3>1
  <2>3. CASE List(p) /\ ~ Raise(p)
    <3>1. jobs'[p] = Idle \/ jobs'[p] = [j EXCEPT !.pc = "conf"]
      BY <1>2, <2>3 DEF List
    <3>2. Idle.pc = "idle"
      BY DEF Idle
    <3>. QED BY <1>3, <2>1, <3>1, <3>2
  <2>4. CASE FindPeer(p) /\ ~ Raise(p)
    <3>1. \/ jobs'[p] = Ended(p, j)
          \/ \E x : jobs'[p] = [j EXCEPT !.pc = IF j.req.mode # None THEN "route" ELSE "load",
                                         !.peer = Shown(x), !.disturbed = ~ readable]
      BY <1>2, <2>4 DEF FindPeer
    <3>2. \A x : [j EXCEPT !.pc = IF j.req.mode # None THEN "route" ELSE "load",
                           !.peer = Shown(x), !.disturbed = ~ readable].pc \in {"route", "load"}
      BY <1>1 DEF Job, Fields
    <3>3. jobs'[p].pc \notin {"merge", "save"}
      BY <1>4, <3>1, <3>2
    <3>. QED BY <1>3, <3>3
  <2>5. CASE ApplyMode(p) /\ ~ Raise(p)
    BY <1>2, <1>3, <2>1, <2>5 DEF ApplyMode
  <2>6. CASE ReadConfig(p) /\ ~ Raise(p)
    <3>1. jobs'[p] = [j EXCEPT !.pc = "load", !.peers = Parsed(text)]
      BY <1>2, <2>6 DEF ReadConfig
    <3>2. [j EXCEPT !.pc = "load", !.peers = Parsed(text)].pc = "load"
      BY <1>1 DEF Job, Fields
    <3>. QED BY <1>3, <3>1, <3>2
  <2>. QED BY <1>7, <2>2, <2>3, <2>4, <2>5, <2>6
<1>8. CASE Load(p)
  <2>1. CASE j.req.op = "patch"
    <3>. DEFINE k == [j EXCEPT !.pc = "save", !.list = Upserted(Loaded, j), !.stale = ~ readable]
    <3>1. jobs'[p] = k
      BY <1>2, <1>8, <2>1 DEF Load
    <3>2. k.req = j.req
      BY <1>1 DEF Job, Fields
    <3>. HIDE DEF k
    <3>. QED BY <1>3, <2>1, <3>1, <3>2
  <2>2. CASE j.req.op # "patch"
    <3>. DEFINE k == [j EXCEPT !.pc = "merge", !.list = Listed(Loaded), !.stale = ~ readable]
    <3>1. jobs'[p] = k /\ file' = file
      BY <1>2, <1>8, <2>2 DEF Load
    <3>2. k.list = Listed(Loaded) /\ k.stale = ~ readable
      BY <1>1 DEF Job, Fields
    <3>. HIDE DEF k
    <3>3. CASE readable
      BY <1>1, <3>1, <3>2, <3>3, ReadKept DEF Loaded
    <3>4. CASE ~ readable
      BY <3>1, <3>2, <3>4 DEF ListKept
    <3>. QED BY <3>3, <3>4
  <2>. QED BY <2>1, <2>2
<1>9. CASE Import(p)
  <2>. DEFINE c == j.peers[j.next]
  <2>1. /\ j.pc = "merge" /\ file' = file /\ j.req.op # "patch" /\ Unique(j.list)
        /\ j.next \in Nat /\ j.peers \in Seq(ConfigPeer)
    BY <1>1, <1>9 DEF Import, At, JobTyped, RegistryInv, Good, ListGood
  <2>. DEFINE k1 == [j EXCEPT !.pc = "save"]
              k2 == [j EXCEPT !.next = @ + 1]
              k3 == [j EXCEPT !.next = @ + 1, !.changed = TRUE, !.list = Imported(@, c, j.next)]
  <2>2. \/ jobs'[p] \in {Ended(p, j), k1, k2}
        \/ /\ jobs'[p] = k3 /\ j.next \in DOMAIN j.peers /\ c.name # None
           /\ ~ Preserved(j.list, c, j.req.overwrite)
    BY <1>2, <1>9 DEF Import
  <2>3. /\ k1.list = j.list /\ k1.peers = j.peers /\ k1.req = j.req /\ k1.stale = j.stale
        /\ k1.next = j.next
    BY <1>1 DEF Job, Fields
  <2>4. /\ k2.list = j.list /\ k2.peers = j.peers /\ k2.req = j.req /\ k2.stale = j.stale
        /\ k2.next = j.next + 1
    BY <1>1 DEF Job, Fields
  <2>5. /\ k3.list = Imported(j.list, c, j.next) /\ k3.peers = j.peers /\ k3.req = j.req
        /\ k3.stale = j.stale /\ k3.next = j.next + 1
    BY <1>1 DEF Job, Fields
  <2>. HIDE DEF k1, k2, k3
  <2>6. ListKept(k1, file) /\ ListKept(k2, file)
    BY <1>1, <2>1, <2>3, <2>4, SameKept
  <2>7. CASE jobs'[p] = k3 /\ j.next \in DOMAIN j.peers /\ c.name # None
             /\ ~ Preserved(j.list, c, j.req.overwrite)
    BY <1>1, <2>1, <2>5, <2>7, ImportKept
  <2>. QED BY <1>3, <1>4, <2>1, <2>2, <2>6, <2>7
<1>10. CASE Save(p) /\ ~ Raise(p)
  <2>1. jobs'[p] = Ended(p, j) \/ jobs'[p] = [j EXCEPT !.pc = "refresh"]
    BY <1>10 DEF Save, SavedBy
  <2>2. [j EXCEPT !.pc = "refresh"].pc = "refresh"
    BY <1>1 DEF Job, Fields
  <2>. QED BY <1>3, <1>4, <2>1, <2>2
<1>11. CASE Refresh(p) /\ ~ Raise(p)
  <2>1. \/ jobs'[p] = Ended(p, j)
        \/ \E x : jobs'[p] = Ended(p, [j EXCEPT !.answer = Shown(x)])
    BY <1>2, <1>11 DEF Refresh
  <2>2. \A x : Ended(p, [j EXCEPT !.answer = Shown(x)]).pc \notin {"merge", "save"}
    BY <1>1 DEF Ended, Job, Fields, Idle
  <2>. QED BY <1>3, <1>4, <2>1, <2>2
<1>. QED BY <1>5, <1>6, <1>7, <1>8, <1>9, <1>10, <1>11 DEF Step

\* The step of another process: whoever saves makes stale every list at work.
LEMMA OtherKept ==
  ASSUME RegistryInv, TypeInv, KeptInv, NEW p \in Processes, NEW q \in Processes \ {p},
         Ask(q) \/ RunTool(q) \/ Step(q)
  PROVE  ListKept(jobs'[p], file')
<1>1. /\ Job(jobs[p]) /\ JobTyped(jobs[p]) /\ ListKept(jobs[p], file)
  BY DEF RegistryInv, Good, TypeInv, KeptInv
<1>2. CASE Save(q) /\ ~ Raise(q)
  <2>1. jobs[q].pc = "save" /\ \E j : SavedBy(q, j)
    BY <1>2 DEF Save, At
  <2>2. /\ jobs'[p].pc = jobs[p].pc
        /\ ~ jobs'[p].stale => ~ jobs[p].stale /\ ~ Across(q, p)
    BY <2>1, SavedFlags
  <2>3. jobs'[p].stale \/ jobs'[p].pc \notin {"merge", "save"}
    <3>1. SUFFICES ASSUME ~ jobs'[p].stale, jobs[p].pc \in {"merge", "save"} PROVE FALSE
      BY <2>2
    <3>2. p \in Callers /\ q \in Callers
      BY <2>2, <3>1 DEF Across, Processes
    <3>3. p = q
      BY <2>1, <3>1, <3>2, OneInLock
    <3>. QED BY <3>3
  <2>. QED BY <2>3 DEF ListKept
<1>3. CASE Raise(q)
  BY <1>1, <1>3 DEF Raise, Becomes, RegistryInv
<1>4. CASE ~ Save(q) /\ ~ Raise(q)
  <2>1. file' = file /\ \E j : Becomes(q, j)
    <3>1. CASE Ask(q) \/ RunTool(q) \/ Enter(q) \/ Load(q) \/ Import(q) \/ Release(q)
      BY <3>1 DEF Ask, RunTool, Enter, Load, Import, Release
    <3>2. CASE List(q) \/ FindPeer(q) \/ ApplyMode(q) \/ ReadConfig(q) \/ Refresh(q)
      BY <1>4, <3>2 DEF List, FindPeer, ApplyMode, ReadConfig, Refresh
    <3>. QED BY <1>4, <3>1, <3>2 DEF Step
  <2>. QED BY <1>1, <2>1 DEF Becomes, RegistryInv
<1>. QED BY <1>2, <1>3, <1>4

LEMMA KeptNext == RegistryInv /\ TypeInv /\ KeptInv /\ [Next]_vars => KeptInv'
<1>. SUFFICES ASSUME RegistryInv, TypeInv, KeptInv, [Next]_vars PROVE KeptInv'
  OBVIOUS
<1>1. ASSUME NEW p \in Processes PROVE ListKept(jobs'[p], file')
  <2>1. /\ Job(jobs[p]) /\ JobTyped(jobs[p]) /\ ListKept(jobs[p], file)
    BY DEF RegistryInv, Good, TypeInv, KeptInv
  <2>2. CASE \E q \in Processes : Ask(q) \/ RunTool(q) \/ Step(q)
    BY <2>2, OwnKept, OtherKept
  <2>3. CASE jobs' = [q \in Processes |-> [jobs[q] EXCEPT !.disturbed = TRUE]] /\ file' = file
    <3>. DEFINE k == [jobs[p] EXCEPT !.disturbed = TRUE]
    <3>1. jobs'[p] = k
      BY <2>3
    <3>2. /\ k.pc = jobs[p].pc /\ k.req = jobs[p].req /\ k.peers = jobs[p].peers
          /\ k.next = jobs[p].next /\ k.list = jobs[p].list /\ k.stale = jobs[p].stale
      BY <2>1 DEF Job, Fields
    <3>. HIDE DEF k
    <3>3. jobs[p].next \in Nat /\ jobs[p].peers \in Seq(ConfigPeer)
      BY <2>1 DEF JobTyped
    <3>4. CASE jobs[p].pc \in {"merge", "save"}
      BY <2>1, <2>3, <3>1, <3>2, <3>3, <3>4, SameKept
    <3>5. CASE jobs[p].pc \notin {"merge", "save"}
      BY <3>1, <3>2, <3>5 DEF ListKept
    <3>. QED BY <3>4, <3>5
  <2>4. CASE jobs' = jobs /\ file' = file
    BY <2>1, <2>4
  <2>5. EditConfig \/ UNCHANGED vars => jobs' = jobs /\ file' = file
    BY DEF EditConfig, vars
  <2>6. ChangePeers \/ Spoil =>
          jobs' = [q \in Processes |-> [jobs[q] EXCEPT !.disturbed = TRUE]] /\ file' = file
    BY DEF ChangePeers, Spoil
  <2>. QED BY <2>2, <2>3, <2>4, <2>5, <2>6 DEF Next
<1>2. \A p \in Processes : ListKept(jobs[p], file)'
  BY <1>1 DEF ListKept, Outdone, Named, Done, Apart, Alike, Entered
<1>. QED BY <1>2 DEF KeptInv

THEOREM KeptInvariant == Spec => [](TypeInv /\ KeptInv)
<1>1. Init => KeptInv
  <2>. SUFFICES ASSUME Init, NEW p \in Processes PROVE ListKept(jobs[p], file)
    BY DEF KeptInv
  <2>1. jobs[p].pc = "idle"
    BY DEF Init, Idle
  <2>. QED BY <2>1 DEF ListKept
<1>. QED BY <1>1, InitTyped, TypesNext, KeptNext, RegistryInvariant, PTL DEF Spec

\* An ordinary import replaces a name only by way of a profile without one that
\* has the key or the address of the same peer and comes first.
THEOREM ImportKeepsNames == Spec => NamesKept
<1>. DEFINE A == \A p \in Processes :
       Saves(p) /\ ~ jobs[p].stale /\ jobs[p].req.op = "names" /\ ~ jobs[p].req.overwrite =>
         \A q \in file \ file' :
           q.name # None =>
             \E r \in file, n \in Named(jobs[p]) :
               /\ r.name = None /\ r.ip < q.ip
               /\ Alike(r, jobs[p].peers[n]) /\ Alike(q, jobs[p].peers[n])
<1>1. RegistryInv /\ KeptInv /\ [Next]_vars => [A]_vars
  <2>. SUFFICES ASSUME RegistryInv, KeptInv, [Next]_vars, NEW p \in Processes, Saves(p),
                       ~ jobs[p].stale, jobs[p].req.op = "names", ~ jobs[p].req.overwrite,
                       NEW q \in file \ file', q.name # None
                PROVE  Outdone(jobs[p], file, q)
    BY DEF Outdone
  <2>1. file' = Unlisted(jobs[p].list) /\ jobs[p].pc = "save"
    BY SavesItsList
  <2>2. Entered(q) \in jobs[p].list \/ Outdone(jobs[p], file, q)
    BY <2>1 DEF KeptInv, ListKept
  <2>3. Entered(q) \notin jobs[p].list
    <3>1. Entered(q) \in jobs[p].list =>
            [key |-> Entered(q).key, ip |-> Entered(q).ip, name |-> Entered(q).name,
             mode |-> Entered(q).mode] \in file'
      BY <2>1 DEF Unlisted
    <3>2. q = [key |-> q.key, ip |-> q.ip, name |-> q.name, mode |-> q.mode]
      BY DEF RegistryInv, Formed
    <3>. QED BY <3>1, <3>2 DEF Entered
  <2>. QED BY <2>2, <2>3
<1>. QED BY <1>1, RegistryInvariant, KeptInvariant, PTL DEF Spec, NamesKept

\* An import gives a key that keeps its address the mode it had, if the named
\* peers of wg0.conf are apart.
THEOREM ImportKeepsModes == Spec => ModesKept
<1>. DEFINE A == \A p \in Processes :
       /\ Saves(p) /\ ~ jobs[p].stale /\ jobs[p].req.op = "names"
       /\ \A m, n \in Named(jobs[p]) : Alike(jobs[p].peers[m], jobs[p].peers[n]) => m = n
       => \A q \in file, r \in file' : q.key = r.key /\ q.ip = r.ip => q.mode = r.mode
<1>1. RegistryInv /\ KeptInv /\ [Next]_vars => [A]_vars
  <2>. SUFFICES ASSUME RegistryInv, KeptInv, [Next]_vars, NEW p \in Processes, Saves(p),
                       ~ jobs[p].stale, jobs[p].req.op = "names", Apart(jobs[p]),
                       NEW q \in file, NEW r \in file', q.key = r.key, q.ip = r.ip
                PROVE  q.mode = r.mode
    BY DEF Apart
  <2>1. CASE file' = file
    BY <2>1 DEF RegistryInv, Unique, Alike
  <2>2. CASE file' # file
    <3>1. file' = Unlisted(jobs[p].list) /\ jobs[p].pc = "save"
      BY <2>2, SavesItsList
    <3>2. PICK e \in jobs[p].list :
            r = [key |-> e.key, ip |-> e.ip, name |-> e.name, mode |-> e.mode]
      BY <3>1 DEF Unlisted
    <3>. QED BY <3>1, <3>2 DEF KeptInv, ListKept
  <2>. QED BY <2>1, <2>2
<1>. QED BY <1>1, RegistryInvariant, KeptInvariant, PTL DEF Spec, ModesKept

\* Every text that wg0.conf can hold is read as its sections and comments say.
THEOREM NamesReadRight == Spec => []NamesAsWritten
<1>1. TypeInv => NamesAsWritten
  BY ParsedRight DEF TypeInv, NamesAsWritten
<1>. QED BY <1>1, KeptInvariant, PTL

=============================================================================
