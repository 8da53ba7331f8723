------------------------ MODULE RemoteSessionsProofs ------------------------
(***************************************************************************)
(* Theorems about RemoteSessions for every number of sockets, HTTP         *)
(* requests, remotes and devices, and every bound on the environment.      *)
(***************************************************************************)
EXTENDS RemoteSessions, SequenceTheorems, TLAPS

-----------------------------------------------------------------------------
\* The inductive invariant.

LockLabels == {"wait", "release", "raised"}
LiveLabels == LockLabels \cup {"recv", "send"}

\* Who is in the queue of state_lock, once each, and who may be first.
LockOK ==
  /\ \A i, j \in 1 .. Len(lockQ) : lockQ[i] = lockQ[j] => i = j
  /\ \A p \in Tasks : task[p].pc \in LockLabels <=> \E i \in 1 .. Len(lockQ) : lockQ[i] = p
  /\ \A p \in Tasks : task[p].pc \in {"release", "raised"} => First(p)

\* What the local state t of a coroutine holds at each label. A copy that is
\* not stale is the file itself.
LocalOK(t) ==
  /\ t \in Task
  /\ t.pc \in {"load", "save"} => t.req \in Request /\ t.req.op \in RegistryOps /\ t.req.rid # None
  /\ t.pc = "save" => t.req.rid # Blank
  /\ t.pc \in {"save", "resume"} => t.copy \in Registry
  /\ t.pc = "save" /\ ~t.stale => t.copy = registry
  /\ t.pc \in LockLabels => /\ t.req \in Request /\ t.req.op \in VpnOps \cup {"sync"}
                            /\ t.req.op = "set" => t.req.vpn # None
  /\ t.pc = "release" /\ t.req.op \in VpnOps => t.req.target \in Devices
  /\ t.pc = "send" => t.out \in Out

LocalsOK == \A p \in Tasks : LocalOK(task[p])

\* The manager's entry of a connected client follows its session, except while
\* a worker is looking the remote up, and for a session whose remote_id is blank.
EntriesOK ==
  \A s \in Sockets : task[s].pc \in LiveLabels /\ s \in online /\ task[s].rid # Blank
                     => info[s].target = task[s].target

SessionInv == TypeOK /\ LockOK /\ LocalsOK /\ OpenSessionsListed /\ EntriesOK

-----------------------------------------------------------------------------
\* What one step of one coroutine may do to the rest of the state.

\* The manager's entries of the other clients stay, or are dropped with reason;
\* only a connection that is new is entered.
Kept(p) ==
  /\ gone' = gone /\ online' \subseteq Sockets /\ info' \in [Sockets -> Info]
  /\ \A s \in Sockets : s \in online' => s \in online \/ At(s, "new")
  /\ \A s \in Sockets \ {p} : /\ info'[s] = info[s] /\ (s \in online' => s \in online)
                              /\ (s \in online /\ s \notin online' => Unreachable(s))

\* The entry of p itself, when p goes on with the local state t.
Own(p, t) ==
  p \in Sockets => /\ (t.pc \notin {"new", "closed"} /\ p \notin gone => p \in online')
                   /\ (t.pc \in LiveLabels /\ p \in online' /\ t.rid # Blank
                         => info'[p].target = t.target)

\* p stays where it is with respect to state_lock, queues for it or releases it.
Stays(p, t) ==
  /\ lockQ' = lockQ /\ (task[p].pc \in LockLabels <=> t.pc \in LockLabels)
  /\ t.pc \in {"release", "raised"} => First(p)
Enters(p, t) ==
  lockQ' = Append(lockQ, p) /\ task[p].pc \notin LockLabels /\ t.pc = "wait"
Leaves(p, t) ==
  lockQ' = Tail(lockQ) /\ task[p].pc \in {"release", "raised"} /\ t.pc \notin LockLabels

Typed ==
  /\ vpn' \in Flags /\ shown' \in [Sockets -> [Devices -> BOOLEAN \cup {None}]]
  /\ left' \in Bounds

Effect(p, t) ==
  /\ LocalOK(t) /\ Becomes(p, t) /\ registry' = registry /\ Typed
  /\ Kept(p) /\ Own(p, t)
  /\ Stays(p, t) \/ Enters(p, t) \/ Leaves(p, t)

\* Queueing keeps the queue in order.
LEMMA EnterKeeps ==
  ASSUME TypeOK, LockOK, NEW p \in Tasks, NEW t \in Task, Becomes(p, t), Enters(p, t)
  PROVE  lockQ' \in Seq(Tasks) /\ LockOK'
<1> DEFINE n == Len(lockQ)
           q == Append(lockQ, p)
<1>1. /\ n \in Nat /\ Len(q) = n + 1 /\ q[n + 1] = p /\ q \in Seq(Tasks)
      /\ \A i \in 1 .. n : q[i] = lockQ[i]
  BY DEF TypeOK
<1> HIDE DEF n, q
<1>2. lockQ' = q
  BY DEF Enters, q
<1>3. \A i \in 1 .. n : lockQ[i] # p
  BY DEF LockOK, Enters, n
<1>4. \A i, j \in 1 .. n : lockQ[i] = lockQ[j] => i = j
  BY DEF LockOK, n
<1>5. \A i \in 1 .. Len(q) : i \in 1 .. n \/ i = n + 1
  BY <1>1
<1>6. \A i, j \in 1 .. Len(q) : q[i] = q[j] => i = j
  BY <1>1, <1>3, <1>4, <1>5
<1>7. task' \in [Tasks -> Task] /\ task'[p] = t /\ \A o \in Tasks \ {p} : task'[o] = task[o]
  BY DEF TypeOK, Becomes
<1>8. ASSUME NEW o \in Tasks
      PROVE  task'[o].pc \in LockLabels <=> \E i \in 1 .. Len(q) : q[i] = o
  <2>1. CASE o = p
    BY <1>1, <1>7, <2>1 DEF Enters, LockLabels
  <2>2. CASE o # p
    <3>1. task[o].pc \in LockLabels <=> \E i \in 1 .. n : lockQ[i] = o
      BY DEF LockOK, n
    <3>2. 1 .. n \subseteq 1 .. Len(q)
      BY <1>1
    <3> QED
      BY <1>1, <1>5, <1>7, <2>2, <3>1, <3>2
  <2> QED
    BY <2>1, <2>2
<1>9. ASSUME NEW o \in Tasks, task'[o].pc \in {"release", "raised"}
      PROVE  q # <<>> /\ Head(q) = o
  <2>1. o # p
    BY <1>7, <1>9 DEF Enters
  <2>2. lockQ # <<>> /\ Head(lockQ) = o
    BY <1>7, <1>9, <2>1 DEF LockOK, First
  <2>3. n >= 1 /\ Head(lockQ) = lockQ[1]
    BY <1>1, <2>2 DEF TypeOK, n
  <2>4. q # <<>> /\ Head(q) = q[1] /\ q[1] = lockQ[1]
    BY <1>1, <2>3
  <2> QED
    BY <2>2, <2>3, <2>4
<1> QED
  BY <1>1, <1>2, <1>6, <1>8, <1>9 DEF LockOK, First

\* Releasing it too: only its holder does.
LEMMA LeaveKeeps ==
  ASSUME TypeOK, LockOK, NEW p \in Tasks, NEW t \in Task, Becomes(p, t), Leaves(p, t)
  PROVE  lockQ' \in Seq(Tasks) /\ LockOK'
<1> DEFINE n == Len(lockQ)
           q == Tail(lockQ)
<1>1. lockQ # <<>> /\ Head(lockQ) = p
  BY DEF LockOK, Leaves, First
<1>2. /\ n \in Nat /\ n >= 1 /\ Len(q) = n - 1 /\ q \in Seq(Tasks) /\ lockQ[1] = p
      /\ \A i \in 1 .. n - 1 : q[i] = lockQ[i + 1]
  BY <1>1 DEF TypeOK
<1> HIDE DEF n, q
<1>3. lockQ' = q
  BY DEF Leaves, q
<1>4. \A i, j \in 1 .. n : lockQ[i] = lockQ[j] => i = j
  BY DEF LockOK, n
<1>5. \A i \in 1 .. n - 1 : i + 1 \in 1 .. n
  BY <1>2
<1>6. ASSUME NEW i \in 1 .. n - 1, NEW j \in 1 .. n - 1, q[i] = q[j]
      PROVE  i = j
  <2>1. i + 1 = j + 1
    BY <1>2, <1>4, <1>5, <1>6
  <2> QED
    BY <1>2, <2>1
<1>7. task' \in [Tasks -> Task] /\ task'[p] = t /\ \A o \in Tasks \ {p} : task'[o] = task[o]
  BY DEF TypeOK, Becomes
<1>8. ASSUME NEW o \in Tasks
      PROVE  task'[o].pc \in LockLabels <=> \E i \in 1 .. n - 1 : q[i] = o
  <2>1. CASE o = p
    <3>1. \A i \in 1 .. n - 1 : lockQ[i + 1] # p
      <4> SUFFICES ASSUME NEW i \in 1 .. n - 1, lockQ[i + 1] = p PROVE FALSE
        OBVIOUS
      <4>1. 1 \in 1 .. n /\ i + 1 \in 1 .. n
        BY <1>2, <1>5
      <4>2. i + 1 = 1
        BY <1>2, <1>4, <4>1
      <4> QED
        BY <1>2, <4>2
    <3> QED
      BY <1>2, <1>7, <2>1, <3>1 DEF Leaves
  <2>2. CASE o # p
    <3>1. task[o].pc \in LockLabels <=> \E i \in 1 .. n : lockQ[i] = o
      BY DEF LockOK, n
    <3>2. ASSUME NEW i \in 1 .. n, lockQ[i] = o
          PROVE  \E k \in 1 .. n - 1 : q[k] = o
      <4>1. i # 1
        BY <1>2, <2>2, <3>2
      <4>2. i - 1 \in 1 .. n - 1 /\ (i - 1) + 1 = i
        BY <1>2, <4>1
      <4> QED
        BY <1>2, <3>2, <4>2
    <3>3. ASSUME NEW k \in 1 .. n - 1, q[k] = o
          PROVE  \E i \in 1 .. n : lockQ[i] = o
      BY <1>2, <1>5, <3>3
    <3> QED
      BY <1>7, <2>2, <3>1, <3>2, <3>3
  <2> QED
    BY <2>1, <2>2
<1>9. ASSUME NEW o \in Tasks, task'[o].pc \in {"release", "raised"}
      PROVE  FALSE
  <2>1. o # p
    BY <1>7, <1>9 DEF Leaves, LockLabels
  <2>2. Head(lockQ) = o
    BY <1>7, <1>9, <2>1 DEF LockOK, First
  <2> QED
    BY <1>1, <2>1, <2>2
<1> QED
  BY <1>2, <1>3, <1>6, <1>8, <1>9 DEF LockOK, First

\* A step that does not touch the queue.
LEMMA StayKeeps ==
  ASSUME TypeOK, LockOK, NEW p \in Tasks, NEW t \in Task, Becomes(p, t), Stays(p, t)
  PROVE  lockQ' \in Seq(Tasks) /\ LockOK'
<1>1. task' \in [Tasks -> Task] /\ task'[p] = t /\ \A o \in Tasks \ {p} : task'[o] = task[o]
  BY DEF TypeOK, Becomes
<1>2. lockQ' = lockQ
  BY DEF Stays
<1>3. \A o \in Tasks : task'[o].pc \in LockLabels <=> task[o].pc \in LockLabels
  BY <1>1 DEF Stays
<1>4. \A o \in Tasks : task'[o].pc \in {"release", "raised"} => First(o)
  BY <1>1 DEF Stays, LockOK
<1> QED
  BY <1>2, <1>3, <1>4 DEF LockOK, TypeOK, First

\* The manager and the sessions stay in step.
LEMMA EntriesKept ==
  ASSUME SessionInv, NEW p \in Tasks, NEW t \in Task, Becomes(p, t), Kept(p), Own(p, t)
  PROVE  OpenSessionsListed' /\ EntriesOK'
<1>1. task' \in [Tasks -> Task] /\ task'[p] = t /\ \A o \in Tasks \ {p} : task'[o] = task[o]
  BY DEF SessionInv, TypeOK, Becomes
<1>2. Sockets \subseteq Tasks
  BY DEF Tasks
<1>3. ASSUME NEW s \in Sockets, task'[s].pc \notin {"new", "closed"}, s \notin gone'
      PROVE  s \in online'
  <2>1. CASE s = p
    BY <1>1, <1>3, <2>1 DEF Own, Kept
  <2>2. CASE s # p
    <3>1. task'[s] = task[s] /\ s \notin gone /\ s \in online
      BY <1>1, <1>2, <1>3, <2>2 DEF Kept, SessionInv, OpenSessionsListed
    <3>2. ~Unreachable(s)
      BY <1>3, <3>1 DEF Unreachable, At
    <3> QED
      BY <2>2, <3>1, <3>2 DEF Kept
  <2> QED
    BY <2>1, <2>2
<1>4. ASSUME NEW s \in Sockets, task'[s].pc \in LiveLabels, s \in online', task'[s].rid # Blank
      PROVE  info'[s].target = task'[s].target
  <2>1. CASE s = p
    BY <1>1, <1>4, <2>1 DEF Own
  <2>2. CASE s # p
    BY <1>1, <1>2, <1>4, <2>2 DEF Kept, SessionInv, EntriesOK
  <2> QED
    BY <2>1, <2>2
<1> QED
  BY <1>3, <1>4 DEF OpenSessionsListed, EntriesOK

\* A step with that effect keeps the invariant.
LEMMA EffectKeeps ==
  ASSUME SessionInv, NEW p \in Tasks, NEW t, Effect(p, t)
  PROVE  SessionInv'
<1>1. LocalOK(t) /\ t \in Task /\ Becomes(p, t) /\ registry' = registry
  BY DEF Effect, LocalOK
<1>2. task' \in [Tasks -> Task] /\ task'[p] = t /\ \A o \in Tasks \ {p} : task'[o] = task[o]
  BY <1>1 DEF SessionInv, TypeOK, Becomes
<1>3. lockQ' \in Seq(Tasks) /\ LockOK'
  BY <1>1, StayKeeps, EnterKeeps, LeaveKeeps DEF Effect, SessionInv
<1>4. OpenSessionsListed' /\ EntriesOK'
  BY <1>1, EntriesKept DEF Effect
<1>5. LocalsOK'
  <2> SUFFICES ASSUME NEW o \in Tasks PROVE LocalOK(task[o])'
    BY DEF LocalsOK
  <2>1. LocalOK(task'[o])
    BY <1>1, <1>2 DEF SessionInv, LocalsOK
  <2> QED
    BY <1>1, <2>1 DEF LocalOK
<1>6. TypeOK'
  BY <1>1, <1>2, <1>3 DEF Effect, Kept, Typed, SessionInv, TypeOK
<1> QED
  BY <1>3, <1>4, <1>5, <1>6 DEF SessionInv

-----------------------------------------------------------------------------
\* The operators the actions are built from.

LEMMA SpendOne ==
  ASSUME left \in Bounds, NEW w \in {"messages", "requests", "trouble"}, Spend(w)
  PROVE  left' \in Bounds
BY DEF Spend, Bounds

\* Local states of coroutines that are done.
LEMMA RestLocals ==
  ASSUME NEW t \in Task
  PROVE  /\ \A pc \in {"new", "auth", "setup", "closed", "idle"} :
              LocalOK(Fresh(pc)) /\ Fresh(pc).pc = pc
         /\ LocalOK(Receiving(t)) /\ Receiving(t).target = t.target /\ Receiving(t).pc = "recv"
         /\ Receiving(t).rid = t.rid
<1>1. ASSUME NEW pc \in {"new", "auth", "setup", "closed", "idle"}
      PROVE  LocalOK(Fresh(pc)) /\ Fresh(pc).pc = pc
  <2>1. Fresh(pc) \in Task /\ Fresh(pc).pc = pc
    BY DEF Task, Fresh, Labels, Rids, Targets
  <2> QED
    BY <2>1 DEF LocalOK, LockLabels
<1>2. /\ Receiving(t) \in Task /\ Receiving(t).target = t.target /\ Receiving(t).pc = "recv"
      /\ Receiving(t).rid = t.rid
  BY DEF Task, Receiving, Labels
<1>3. LocalOK(Receiving(t))
  BY <1>2 DEF LocalOK, LockLabels
<1> QED
  BY <1>1, <1>2, <1>3

\* A step that leaves the manager alone.
LEMMA UntouchedKept ==
  ASSUME SessionInv, NEW p \in Tasks, NEW t, UNCHANGED manager, gone' = gone,
         p \in Sockets => /\ t.pc \notin {"new", "closed"} => task[p].pc \notin {"new", "closed"}
                          /\ t.pc \in LiveLabels => \/ t.rid = Blank
                                                    \/ /\ task[p].pc \in LiveLabels
                                                       /\ t.target = task[p].target
                                                       /\ t.rid = task[p].rid
  PROVE  Kept(p) /\ Own(p, t)
BY DEF Kept, Own, manager, SessionInv, TypeOK, OpenSessionsListed, EntriesOK

\* An endpoint that returns.
LEMMA ReturnKept ==
  ASSUME SessionInv, NEW s \in Sockets, NEW b \in BOOLEAN, Return(s, b), gone' = gone
  PROVE  /\ Kept(s) /\ Own(s, Fresh("closed"))
         /\ Becomes(s, Fresh("closed")) /\ LocalOK(Fresh("closed"))
<1>1. Becomes(s, Fresh("closed")) /\ LocalOK(Fresh("closed"))
  <2>1. \E t \in Task : TRUE
    BY DEF SessionInv, TypeOK, Tasks
  <2> QED
    BY <2>1, RestLocals DEF Return
<1>2. Kept(s)
  BY DEF Return, Kept, SessionInv, TypeOK
<1>3. Own(s, Fresh("closed"))
  BY DEF Own, Fresh, LiveLabels, LockLabels
<1> QED
  BY <1>1, <1>2, <1>3

\* An entry that is updated.
LEMMA RegisterKept ==
  ASSUME SessionInv, NEW s \in Sockets, NEW r \in Rids, NEW t \in Targets,
         Register(s, r, t), gone' = gone
  PROVE  Kept(s) /\ online' = online /\ (s \in online => info'[s].target = t)
<1>1. [rid |-> r, target |-> t] \in Info
  BY DEF Info
<1>2. info \in [Sockets -> Info] /\ online \subseteq Sockets
  BY DEF SessionInv, TypeOK
<1>3. online' = online
  BY DEF Register
<1>4. CASE s \in online
  <2>1. info' = [info EXCEPT ![s] = [rid |-> r, target |-> t]]
    BY <1>4 DEF Register
  <2> QED
    BY <1>1, <1>2, <1>3, <2>1 DEF Kept
<1>5. CASE s \notin online
  BY <1>2, <1>3, <1>5 DEF Register, Kept
<1> QED
  BY <1>3, <1>4, <1>5

\* What a client is shown is a flag of every device.
LEMMA ShowTyped ==
  ASSUME TypeOK, NEW s \in Sockets, NEW d, Show(s, d)
  PROVE  shown' \in [Sockets -> [Devices -> BOOLEAN \cup {None}]]
<1> DEFINE B == BOOLEAN \cup {None}
<1>1. shown \in [Sockets -> [Devices -> B]] /\ vpn \in [Devices -> B]
  <2>1. vpn \in [Devices -> BOOLEAN] /\ BOOLEAN \subseteq B
    BY DEF TypeOK, Flags
  <2> QED
    BY <2>1 DEF TypeOK
<1> HIDE DEF B
<1>2. CASE d = All
  BY <1>1, <1>2 DEF Show, B
<1>3. CASE d # All /\ d \in Devices
  <2>1. shown' = [shown EXCEPT ![s] = [@ EXCEPT ![d] = vpn[d]]]
    BY <1>3 DEF Show
  <2>2. vpn[d] \in B
    BY <1>1, <1>3
  <2> QED
    BY <1>1, <2>1, <2>2 DEF B
<1>4. CASE d # All /\ d \notin Devices
  BY <1>1, <1>4 DEF Show, B
<1> QED
  BY <1>2, <1>3, <1>4

\* A session that registers and answers, or whose answer cannot be sent.
LEMMA SettleEffect ==
  ASSUME SessionInv, NEW s \in Sockets, NEW t \in Task, NEW d, Settle(s, t, d),
         task[s].pc \notin LockLabels \cup {"new", "closed"},
         UNCHANGED <<registry, vpn, gone, lockQ>>, left' \in Bounds
  PROVE  \E u : Effect(s, u)
<1>1. /\ LocalOK(Fresh("closed")) /\ LocalOK(Receiving(t))
      /\ Receiving(t).target = t.target /\ Receiving(t).pc = "recv"
  BY RestLocals
<1>2. t.rid \in Rids /\ t.target \in Targets /\ Fresh("closed").pc = "closed"
  BY DEF Task, Fresh
<1>3. TypeOK /\ gone' = gone
  BY DEF SessionInv
<1>4. vpn' \in Flags
  BY <1>3 DEF TypeOK
<1>5. s \notin gone => s \in online
  BY DEF SessionInv, OpenSessionsListed
<1>6. CASE /\ ~Unreachable(s)
           /\ Register(s, t.rid, t.target) /\ Show(s, d)
           /\ Becomes(s, Receiving(t))
  <2>1. Kept(s) /\ online' = online /\ (s \in online => info'[s].target = t.target)
    BY <1>2, <1>3, <1>6, RegisterKept
  <2>2. Own(s, Receiving(t))
    BY <1>1, <1>5, <2>1 DEF Own
  <2>3. Stays(s, Receiving(t))
    BY <1>1 DEF Stays, LockLabels
  <2>4. Typed
    BY <1>3, <1>4, <1>6, ShowTyped DEF Typed
  <2> QED
    BY <1>1, <1>6, <2>1, <2>2, <2>3, <2>4 DEF Effect
<1>7. CASE Unreachable(s) /\ t.inLoop /\ Return(s, TRUE) /\ UNCHANGED shown
  <2>1. Kept(s) /\ Own(s, Fresh("closed")) /\ Becomes(s, Fresh("closed"))
    BY <1>3, <1>7, ReturnKept
  <2>2. Stays(s, Fresh("closed"))
    BY <1>2 DEF Stays, LockLabels
  <2>3. Typed
    BY <1>3, <1>4, <1>7 DEF Typed, TypeOK
  <2> QED
    BY <1>1, <2>1, <2>2, <2>3 DEF Effect
<1>8. CASE /\ Unreachable(s) /\ ~t.inLoop /\ UNCHANGED shown
           /\ Register(s, t.rid, t.target) /\ Becomes(s, Fresh("closed"))
  <2>1. Kept(s)
    BY <1>2, <1>3, <1>8, RegisterKept
  <2>2. Own(s, Fresh("closed"))
    BY <1>2 DEF Own, LiveLabels, LockLabels
  <2>3. Stays(s, Fresh("closed"))
    BY <1>2 DEF Stays, LockLabels
  <2>4. Typed
    BY <1>3, <1>4, <1>8 DEF Typed, TypeOK
  <2> QED
    BY <1>1, <1>8, <2>1, <2>2, <2>3, <2>4 DEF Effect
<1> QED
  BY <1>6, <1>7, <1>8 DEF Settle

\* One more message of a broadcast.
LEMMA SendKept ==
  ASSUME SessionInv, NEW p \in Tasks, NEW o \in Out, Send(p, o), gone' = gone,
         task[p].pc \in {"release", "send"} \/ p \notin Sockets
  PROVE  \E t : /\ LocalOK(t) /\ Becomes(p, t) /\ Kept(p) /\ Own(p, t)
                /\ shown' \in [Sockets -> [Devices -> BOOLEAN \cup {None}]]
                /\ t.pc \in {"recv", "idle", "send"}
<1> USE DEF SessionInv
<1>1. task[p] \in Task /\ TypeOK /\ LocalOK(Fresh("idle")) /\ LocalOK(Receiving(task[p]))
  BY RestLocals DEF TypeOK
<1>2. /\ LocalOK(Rest(p)) /\ Rest(p).pc \in {"recv", "idle"}
      /\ p \in Sockets => Rest(p).target = task[p].target /\ Rest(p).rid = task[p].rid
  <2>1. CASE p \in Sockets
    BY <1>1, <2>1, RestLocals DEF Rest
  <2>2. CASE p \notin Sockets
    BY <1>1, <2>2, RestLocals DEF Rest
  <2> QED
    BY <2>1, <2>2
<1>3. ASSUME NEW t, t.pc \in {"recv", "idle", "send"},
             p \in Sockets => t.target = task[p].target /\ t.rid = task[p].rid,
             online' \subseteq Sockets, info' = info,
             \A s \in Sockets : /\ (s \in online' => s \in online)
                                /\ (s \in online /\ s \notin online' => Unreachable(s))
      PROVE  Kept(p) /\ Own(p, t)
  <2>1. Kept(p)
    BY <1>3 DEF Kept, TypeOK
  <2>2. ASSUME p \in Sockets
        PROVE  /\ task[p].pc \in LiveLabels /\ task[p].pc # "closed" /\ task[p].pc # "new"
               /\ p \notin gone => p \in online /\ ~Unreachable(p)
    <3>1. task[p].pc \in {"release", "send"}
      BY <2>2
    <3> QED
      BY <3>1, <2>2 DEF OpenSessionsListed, Unreachable, At, LiveLabels, LockLabels
  <2>3. Own(p, t)
    BY <1>3, <2>2 DEF Own, EntriesOK
  <2> QED
    BY <2>1, <2>3
<1>4. info' = info
  BY DEF Send
<1>5. CASE o.to = {} /\ online = {} /\ Becomes(p, Rest(p)) /\ UNCHANGED <<shown, online>>
  <2>1. Kept(p) /\ Own(p, Rest(p))
    BY <1>2, <1>3, <1>4, <1>5 DEF TypeOK
  <2> QED
    BY <1>2, <1>5, <2>1 DEF TypeOK
<1>6. ASSUME NEW n \in Rounds(o), NEW s \in n.to, SendTo(s, n),
             Becomes(p, IF n.to = {s} /\ n.rest = {} THEN Rest(p)
                        ELSE [task[p] EXCEPT !.pc = "send", !.out = [n EXCEPT !.to = @ \ {s}]])
      PROVE  \E t : /\ LocalOK(t) /\ Becomes(p, t) /\ Kept(p) /\ Own(p, t)
                    /\ shown' \in [Sockets -> [Devices -> BOOLEAN \cup {None}]]
                    /\ t.pc \in {"recv", "idle", "send"}
  <2> DEFINE m == [n EXCEPT !.to = @ \ {s}]
             u == [task[p] EXCEPT !.pc = "send", !.out = m]
  <2>1. n \in Out
    <3>1. CASE o.to # {}
      BY <3>1 DEF Rounds
    <3>2. CASE o.to = {}
      <4>1. PICK d \in o.rest : n = [o EXCEPT !.round = d, !.to = online, !.rest = @ \ {d}]
        BY <3>2 DEF Rounds
      <4>2. d \in Devices /\ online \subseteq Sockets
        BY <1>1 DEF Out, TypeOK
      <4> QED
        BY <4>1, <4>2 DEF Out
    <3> QED
      BY <3>1, <3>2
  <2>2. m \in Out /\ s \in Sockets
    BY <2>1 DEF Out
  <2>3. LocalOK(u) /\ u.pc = "send" /\ u.target = task[p].target /\ u.rid = task[p].rid
    <3>1. /\ u \in Task /\ u.pc = "send" /\ u.target = task[p].target /\ u.out = m
          /\ u.rid = task[p].rid
      BY <1>1, <2>2 DEF Task, Labels
    <3> HIDE DEF u, m
    <3> QED
      BY <2>2, <3>1 DEF LocalOK, LockLabels
  <2>4. /\ online' \subseteq Sockets
        /\ \A c \in Sockets : /\ (c \in online' => c \in online)
                              /\ (c \in online /\ c \notin online' => Unreachable(c))
    BY <1>1, <1>6, <2>2 DEF SendTo, TypeOK
  <2>5. shown' \in [Sockets -> [Devices -> BOOLEAN \cup {None}]]
    <3> DEFINE B == BOOLEAN \cup {None}
    <3>1. shown \in [Sockets -> [Devices -> B]] /\ n.flags \in [Devices -> B]
      <4>1. n.flags \in [Devices -> BOOLEAN] /\ BOOLEAN \subseteq B
        BY <2>1 DEF Out, Flags
      <4> QED
        BY <1>1, <4>1 DEF TypeOK
    <3> HIDE DEF B
    <3>2. \/ shown' = shown
          \/ shown' = [shown EXCEPT ![s] =
               IF n.round = All THEN n.flags ELSE [@ EXCEPT ![n.round] = n.flags[n.round]]]
      BY <1>6 DEF SendTo
    <3>3. n.round # All => n.round \in Devices /\ n.flags[n.round] \in B
      BY <2>1, <3>1 DEF Out
    <3>4. IF n.round = All THEN n.flags \in [Devices -> B]
          ELSE [shown[s] EXCEPT ![n.round] = n.flags[n.round]] \in [Devices -> B]
      BY <2>2, <3>1, <3>3
    <3> QED
      BY <2>2, <3>1, <3>2, <3>4 DEF B
  <2>6. CASE n.to = {s} /\ n.rest = {}
    <3>1. Becomes(p, Rest(p))
      BY <1>6, <2>6
    <3>2. Kept(p) /\ Own(p, Rest(p))
      BY <1>2, <1>3, <1>4, <2>4
    <3> QED
      BY <1>2, <2>5, <3>1, <3>2
  <2>7. CASE ~(n.to = {s} /\ n.rest = {})
    <3>1. Becomes(p, u)
      BY <1>6, <2>7
    <3> HIDE DEF u
    <3>2. Kept(p) /\ Own(p, u)
      BY <1>3, <1>4, <2>3, <2>4
    <3> QED
      BY <2>3, <2>5, <3>1, <3>2
  <2> QED
    BY <2>6, <2>7
<1> QED
  BY <1>5, <1>6 DEF Send

-----------------------------------------------------------------------------
\* The actions.

\* What is known of the coroutine that takes a step.
LEMMA OwnFacts ==
  ASSUME SessionInv, NEW p \in Tasks
  PROVE  /\ TypeOK /\ task[p] \in Task /\ LocalOK(task[p])
         /\ registry \in Registry /\ vpn \in Flags /\ left \in Bounds
         /\ shown \in [Sockets -> [Devices -> BOOLEAN \cup {None}]]
         /\ info \in [Sockets -> Info] /\ online \subseteq Sockets
BY DEF SessionInv, TypeOK, LocalsOK

\* Sockets and callers are coroutines.
LEMMA TasksAre ==
  /\ Sockets \subseteq Tasks /\ Callers \subseteq Tasks /\ Poll \in Tasks
  /\ \A c \in Callers : c \notin Sockets
  /\ Poll \notin Sockets
BY SessionsAssumption DEF Tasks

\* A coroutine that queues for state_lock.
LEMMA QueueEffect ==
  ASSUME SessionInv, NEW p \in Tasks, NEW t \in Task, Queue(p, t),
         t.req \in Request, t.req.op \in VpnOps \cup {"sync"},
         t.req.op = "set" => t.req.vpn # None,
         task[p].pc \in {"recv", "idle"}, Kept(p),
         p \in Sockets => /\ p \notin gone => p \in online'
                          /\ p \in online' /\ t.rid # Blank => info'[p].target = t.target,
         registry' = registry, Typed
  PROVE  \E u : Effect(p, u)
<1> DEFINE u == [t EXCEPT !.pc = "wait"]
<1>1. /\ u \in Task /\ u.pc = "wait" /\ u.req = t.req /\ u.target = t.target /\ u.rid = t.rid
      /\ lockQ' = Append(lockQ, p) /\ Becomes(p, u)
  BY DEF Task, Labels, Queue
<1> HIDE DEF u
<1>2. LocalOK(u)
  BY <1>1 DEF LocalOK, LockLabels
<1>3. Enters(p, u)
  BY <1>1 DEF Enters, LockLabels
<1>4. Own(p, u)
  BY <1>1 DEF Own
<1> QED
  BY <1>1, <1>2, <1>3, <1>4 DEF Effect

LEMMA ConnectEffect ==
  ASSUME SessionInv, NEW s \in Sockets, NEW q \in Queries, Connect(s, q)
  PROVE  \E t : Effect(s, t)
<1> DEFINE t == [Fresh(IF TokenRequired THEN "auth" ELSE "setup")
                   EXCEPT !.rid = q.rid, !.target = q.target]
<1>1. TypeOK /\ q \in Info /\ task[s].pc = "new"
  BY SessionsAssumption DEF SessionInv, Connect, At
<1>2. t \in Task /\ t.pc \in {"auth", "setup"} /\ Becomes(s, t)
  BY <1>1 DEF Connect, Task, Fresh, Labels, Info, Rids, Targets
<1> HIDE DEF t
<1>3. LocalOK(t)
  BY <1>2 DEF LocalOK, LockLabels
<1>4. Unset \in Info
  BY DEF Unset, Info, Rids, Targets
<1>5. Kept(s) /\ Own(s, t)
  BY <1>1, <1>2, <1>4 DEF Connect, network, Kept, Own, TypeOK, LiveLabels, LockLabels
<1>6. Stays(s, t) /\ Typed
  BY <1>1, <1>2 DEF Connect, network, Stays, LockLabels, Typed, TypeOK
<1> QED
  BY <1>2, <1>3, <1>5, <1>6 DEF Effect, Connect

LEMMA AuthenticateEffect ==
  ASSUME SessionInv, NEW s \in Sockets, NEW m \in Request, Authenticate(s, m)
  PROVE  \E t : Effect(s, t)
<1> DEFINE t == [task[s] EXCEPT !.pc = "setup", !.first = m,
                   !.rid = IF m.rid # None THEN m.rid ELSE @,
                   !.target = IF m.target # None THEN m.target ELSE @]
<1>1. s \in Tasks /\ TypeOK /\ task[s] \in Task /\ task[s].pc = "auth"
  BY TasksAre, OwnFacts DEF Authenticate, At
<1>2. t \in Task /\ t.pc = "setup" /\ Becomes(s, t)
  <2>1. m.rid \in Rids /\ m.target \in Targets
    BY DEF Request
  <2>2. t \in Task /\ t.pc = "setup"
    BY <1>1, <2>1 DEF Task, Labels
  <2> QED
    BY <2>2 DEF Authenticate
<1> HIDE DEF t
<1>3. LocalOK(t)
  BY <1>2 DEF LocalOK, LockLabels
<1>4. Kept(s) /\ Own(s, t)
  BY <1>1, <1>2, UntouchedKept DEF Authenticate, network, LiveLabels, LockLabels
<1>5. left' \in Bounds
  BY <1>1, SpendOne DEF Authenticate, TypeOK
<1>6. Stays(s, t) /\ Typed
  BY <1>1, <1>2, <1>5 DEF Authenticate, network, Stays, LockLabels, Typed, TypeOK
<1> QED
  BY <1>2, <1>3, <1>4, <1>6 DEF Effect, Authenticate

\* The ways an endpoint returns: no hello in time, a peer that has left, a
\* message that is none.
LEMMA EndEffect ==
  ASSUME SessionInv, NEW s \in Sockets, Reject(s) \/ Leave(s) \/ Garbage(s)
  PROVE  \E t : Effect(s, t)
<1>1. s \in Tasks /\ TypeOK /\ task[s].pc \in {"auth", "recv"} /\ Return(s, TRUE)
  BY TasksAre DEF SessionInv, Reject, Leave, Garbage, At
<1>2. /\ UNCHANGED <<registry, vpn, network, lockQ>>
      /\ left' = left \/ Spend("messages")
  BY DEF Reject, Leave, Garbage
<1>3. left' \in Bounds
  BY <1>1, <1>2, SpendOne DEF TypeOK
<1>4. /\ Kept(s) /\ Own(s, Fresh("closed"))
      /\ Becomes(s, Fresh("closed")) /\ LocalOK(Fresh("closed"))
  BY <1>1, <1>2, ReturnKept DEF network
<1>5. Stays(s, Fresh("closed")) /\ Typed
  BY <1>1, <1>2, <1>3 DEF network, Stays, Fresh, LockLabels, Typed, TypeOK
<1> QED
  BY <1>2, <1>4, <1>5 DEF Effect

LEMMA SetupEffect ==
  ASSUME SessionInv, NEW s \in Sockets, Setup(s)
  PROVE  \E t : Effect(s, t)
<1>1. /\ s \in Tasks /\ TypeOK /\ task[s] \in Task /\ task[s].pc = "setup"
      /\ UNCHANGED <<registry, vpn, gone, lockQ, left>> /\ left \in Bounds
  BY TasksAre, OwnFacts DEF Setup, At
<1>2. CASE /\ task[s].rid # None /\ UNCHANGED <<manager, shown>>
           /\ Becomes(s, [task[s] EXCEPT !.pc = "load",
                            !.req = Seen(task[s].rid, task[s].target)])
  <2> DEFINE q == Seen(task[s].rid, task[s].target)
             t == [task[s] EXCEPT !.pc = "load", !.req = q]
  <2>1. q \in Request /\ q.op \in RegistryOps /\ q.rid # None
    BY <1>1, <1>2 DEF Seen, Request, Ops, RegistryOps, SeenOps, Task, Targets
  <2> HIDE DEF q
  <2>2. t \in Task /\ t.pc = "load" /\ t.req = q /\ Becomes(s, t)
    BY <1>1, <1>2, <2>1 DEF Task, Labels, q
  <2> HIDE DEF t
  <2>3. LocalOK(t)
    BY <2>1, <2>2 DEF LocalOK, LockLabels
  <2>4. Kept(s) /\ Own(s, t)
    BY <1>1, <1>2, <2>2, UntouchedKept DEF LiveLabels, LockLabels
  <2>5. Stays(s, t) /\ Typed
    BY <1>1, <1>2, <2>2 DEF Stays, LockLabels, Typed, TypeOK
  <2> QED
    BY <1>1, <2>2, <2>3, <2>4, <2>5 DEF Effect
<1>3. CASE Settle(s, task[s], IF task[s].target = None THEN All ELSE task[s].target)
  BY <1>1, <1>3, SettleEffect DEF LockLabels
<1> QED
  BY <1>2, <1>3 DEF Setup

\* A message a session takes in.
LEMMA IncomingFacts ==
  ASSUME SessionInv, NEW s \in Sockets, NEW m, Incoming(s, m)
  PROVE  /\ s \in Tasks /\ TypeOK /\ task[s] \in Task /\ task[s].pc = "recv"
         /\ left' \in Bounds
         /\ s \notin gone => s \in online
         /\ s \in online /\ task[s].rid # Blank => info[s].target = task[s].target
<1>1. s \in Tasks /\ TypeOK /\ task[s] \in Task /\ task[s].pc = "recv" /\ left \in Bounds
  BY TasksAre, OwnFacts DEF Incoming, At
<1>2. left' = left \/ Spend("messages")
  BY DEF Incoming
<1>3. left' \in Bounds
  BY <1>1, <1>2, SpendOne
<1> QED
  BY <1>1, <1>3 DEF SessionInv, OpenSessionsListed, EntriesOK, LiveLabels

LEMMA HelloEffect ==
  ASSUME SessionInv, NEW s \in Sockets, NEW m \in Request, Hello(s, m)
  PROVE  \E t : Effect(s, t)
<1> DEFINE t == [task[s] EXCEPT !.first = None,
                   !.rid = IF m.rid # None THEN m.rid ELSE @,
                   !.target = IF m.target # None THEN m.target ELSE @]
           q == [m EXCEPT !.rid = t.rid]
           u == [t EXCEPT !.pc = "load", !.req = q]
<1>1. /\ s \in Tasks /\ TypeOK /\ task[s] \in Task /\ task[s].pc = "recv"
      /\ left' \in Bounds
  BY IncomingFacts DEF Hello
<1>2. UNCHANGED <<registry, vpn, gone, lockQ>> /\ m.op = "hello"
  BY DEF Hello
<1>3. t \in Task /\ t.rid \in Rids
  BY <1>1 DEF Task, Request
<1>4. q \in Request /\ q.op = "hello" /\ q.rid = t.rid
  BY <1>2, <1>3 DEF Request
<1>5. CASE t.rid # None /\ Becomes(s, u) /\ UNCHANGED <<manager, shown>>
  <2> HIDE DEF t, q
  <2>1. u \in Task /\ u.pc = "load" /\ u.req = q
    BY <1>3, <1>4 DEF Task, Labels
  <2> HIDE DEF u
  <2>2. LocalOK(u)
    BY <1>4, <1>5, <2>1 DEF LocalOK, LockLabels, RegistryOps, SeenOps
  <2>3. Kept(s) /\ Own(s, u)
    BY <1>1, <1>2, <1>5, <2>1, UntouchedKept DEF LiveLabels, LockLabels
  <2>4. Stays(s, u) /\ Typed
    BY <1>1, <1>2, <1>5, <2>1 DEF Stays, LockLabels, Typed, TypeOK
  <2> QED
    BY <1>2, <1>5, <2>2, <2>3, <2>4 DEF Effect
<1>6. CASE Settle(s, t, t.target)
  <2> HIDE DEF t, q, u
  <2> QED
    BY <1>1, <1>2, <1>3, <1>6, SettleEffect DEF LockLabels
<1> QED
  BY <1>5, <1>6 DEF Hello

LEMMA PingEffect ==
  ASSUME SessionInv, NEW s \in Sockets, NEW m \in Request, Ping(s, m)
  PROVE  \E t : Effect(s, t)
<1> DEFINE q == [m EXCEPT !.rid = task[s].rid, !.target = None]
           u == [task[s] EXCEPT !.pc = "load", !.req = q]
           t == IF task[s].rid = None THEN task[s] ELSE u
<1>1. /\ s \in Tasks /\ TypeOK /\ task[s] \in Task /\ task[s].pc = "recv"
      /\ left' \in Bounds /\ LocalOK(task[s])
  BY IncomingFacts, OwnFacts DEF Ping
<1>2. /\ UNCHANGED <<registry, vpn, manager, network, lockQ>> /\ m.op = "ping"
      /\ Becomes(s, t)
  BY DEF Ping
<1>3. q \in Request /\ q.op = "ping" /\ q.rid = task[s].rid
  BY <1>1, <1>2 DEF Request, Targets, Task
<1> HIDE DEF q
<1>4. u \in Task /\ u.pc = "load" /\ u.req = q
  BY <1>1, <1>3 DEF Task, Labels
<1> HIDE DEF u
<1>5. LocalOK(t) /\ t.pc \in {"recv", "load"} /\ (t.pc = "recv" => t = task[s])
  BY <1>1, <1>3, <1>4 DEF LocalOK, LockLabels, RegistryOps, SeenOps
<1> HIDE DEF t
<1>6. Kept(s) /\ Own(s, t)
  BY <1>1, <1>2, <1>5, UntouchedKept DEF network, LiveLabels, LockLabels
<1>7. Stays(s, t) /\ Typed
  BY <1>1, <1>2, <1>5 DEF network, Stays, LockLabels, Typed, TypeOK
<1> QED
  BY <1>2, <1>5, <1>6, <1>7 DEF Effect

LEMMA SyncEffect ==
  ASSUME SessionInv, NEW s \in Sockets, NEW m \in Request, Sync(s, m)
  PROVE  \E t : Effect(s, t)
<1> DEFINE t == [task[s] EXCEPT !.req = m]
<1>1. /\ s \in Tasks /\ TypeOK /\ task[s] \in Task /\ task[s].pc = "recv"
      /\ left' \in Bounds
      /\ s \notin gone => s \in online
      /\ s \in online /\ task[s].rid # Blank => info[s].target = task[s].target
  BY IncomingFacts DEF Sync
<1>2. /\ UNCHANGED <<registry, vpn, manager, network>> /\ m.op = "sync"
      /\ Queue(s, t)
  BY DEF Sync
<1>3. t \in Task /\ t.req = m /\ t.target = task[s].target /\ t.rid = task[s].rid
  BY <1>1 DEF Task
<1> HIDE DEF t
<1>4. Kept(s) /\ Typed
  BY <1>1, <1>2 DEF Kept, Typed, manager, network, TypeOK
<1>5. s \notin gone => s \in online'
  BY <1>1, <1>2 DEF manager
<1>6. s \in online' /\ t.rid # Blank => info'[s].target = t.target
  BY <1>1, <1>2, <1>3 DEF manager
<1> QED
  BY <1>1, <1>2, <1>3, <1>4, <1>5, <1>6, QueueEffect

\* The device of a command is a MAC or None.
LEMMA EffectiveTyped ==
  ASSUME SessionInv, NEW s \in Sockets, NEW m \in Request
  PROVE  Effective(s, m) \in Targets
<1>1. task[s] \in Task /\ registry \in Registry
  BY TasksAre, OwnFacts
<1>2. task[s].rid \in Rids /\ task[s].target \in Targets /\ m.target \in Targets
  BY <1>1 DEF Task, Request
<1>3. \A r \in RemoteIds : registry[r].target \in Targets
  BY <1>1 DEF Registry, Remote
<1>4. Bound(registry, task[s].rid) \in Targets
  BY <1>2, <1>3 DEF Bound, Rids, Targets
<1> QED
  BY <1>2, <1>4 DEF Effective

LEMMA CommandEffect ==
  ASSUME SessionInv, NEW s \in Sockets, NEW m \in Request, Command(s, m)
  PROVE  \E u : Effect(s, u)
<1> DEFINE d     == Effective(s, m)
           finds == m.target = None /\ task[s].rid # None
           t     == [task[s] EXCEPT !.target = IF finds THEN d ELSE @]
           q     == [m EXCEPT !.target = d]
           w     == [t EXCEPT !.req = q]
           acts  == d # None /\ m.op \in VpnOps /\ (m.op = "set" => m.vpn # None)
<1>1. /\ s \in Tasks /\ TypeOK /\ task[s] \in Task /\ task[s].pc = "recv"
      /\ left' \in Bounds
      /\ s \notin gone => s \in online
      /\ s \in online /\ task[s].rid # Blank => info[s].target = task[s].target
  BY IncomingFacts DEF Command
<1>2. d \in Targets /\ task[s].rid \in Rids
  BY <1>1, EffectiveTyped DEF Task
<1>3. /\ IF finds THEN Register(s, task[s].rid, d) ELSE UNCHANGED manager
      /\ IF acts THEN Queue(s, w) /\ UNCHANGED shown
         ELSE /\ Becomes(s, t) /\ UNCHANGED lockQ
              /\ Show(s, IF m.op = "get" THEN d ELSE None)
      /\ UNCHANGED <<registry, vpn, gone>>
  BY DEF Command
<1> HIDE DEF d
<1>4. /\ t \in Task /\ t.pc = "recv" /\ t.target = IF finds THEN d ELSE task[s].target
      /\ t.rid = task[s].rid
  BY <1>1, <1>2 DEF Task
<1>5. q \in Request /\ q.op = m.op /\ q.vpn = m.vpn
  BY <1>2 DEF Request
<1> HIDE DEF t, q
<1>6. w \in Task /\ w.req = q /\ w.target = t.target /\ w.rid = t.rid
  BY <1>4, <1>5 DEF Task
<1> HIDE DEF w
<1>7. /\ Kept(s) /\ (s \notin gone => s \in online')
      /\ s \in online' /\ t.rid # Blank => info'[s].target = t.target
  <2>1. CASE finds
    BY <1>1, <1>2, <1>3, <1>4, <2>1, RegisterKept
  <2>2. CASE ~finds
    BY <1>1, <1>3, <1>4, <2>2 DEF Kept, manager, TypeOK
  <2> QED
    BY <2>1, <2>2
<1> HIDE DEF finds
<1>8. CASE acts
  <2>1. Queue(s, w) /\ UNCHANGED <<shown, registry, vpn, gone>>
    BY <1>3, <1>8
  <2>2. Typed
    BY <1>1, <2>1 DEF Typed, TypeOK
  <2>3. q.op \in VpnOps \cup {"sync"} /\ (q.op = "set" => q.vpn # None)
    BY <1>5, <1>8
  <2> QED
    BY <1>1, <1>5, <1>6, <1>7, <2>1, <2>2, <2>3, QueueEffect
<1>9. CASE ~acts
  <2>1. /\ Becomes(s, t) /\ UNCHANGED <<lockQ, registry, vpn, gone>>
        /\ Show(s, IF m.op = "get" THEN d ELSE None)
    BY <1>3, <1>9
  <2>2. Typed
    BY <1>1, <2>1, ShowTyped DEF Typed, TypeOK
  <2>3. LocalOK(t)
    BY <1>4 DEF LocalOK, LockLabels
  <2>4. Own(s, t) /\ Stays(s, t)
    BY <1>1, <1>4, <1>7, <2>1 DEF Own, Stays, LockLabels
  <2> QED
    BY <1>7, <2>1, <2>2, <2>3, <2>4 DEF Effect
<1> QED
  BY <1>8, <1>9

LEMMA AskEffect ==
  ASSUME SessionInv, NEW c \in Callers, NEW q \in Requests, Ask(c, q)
  PROVE  \E t : Effect(c, t)
<1> DEFINE t == [task[c] EXCEPT !.pc = "load", !.req = q]
           u == [task[c] EXCEPT !.req = q]
<1>1. /\ c \in Tasks /\ c \notin Sockets /\ TypeOK /\ task[c] \in Task
      /\ task[c].pc = "idle" /\ left \in Bounds
      /\ UNCHANGED <<registry, vpn, manager, network>> /\ Spend("requests")
  BY TasksAre, OwnFacts DEF Ask, At
<1>2. /\ q \in Request
      /\ \/ q.op \in RegistryOps /\ q.rid # None
         \/ q.op \in VpnOps /\ (q.op = "set" => q.vpn # None)
      /\ VpnOps \cap RegistryOps = {}
  BY SessionsAssumption DEF RegistryOps, VpnOps, SeenOps
<1>3. left' \in Bounds
  BY <1>1, SpendOne
<1>4. /\ t \in Task /\ t.pc = "load" /\ t.req = q
      /\ u \in Task /\ u.req = q
  BY <1>1, <1>2 DEF Task, Labels
<1>5. \/ q.op \in RegistryOps /\ Becomes(c, t) /\ UNCHANGED lockQ
      \/ q.op \notin RegistryOps /\ Queue(c, u)
  BY DEF Ask
<1> HIDE DEF t, u
<1>6. Kept(c) /\ Typed
  BY <1>1, <1>3 DEF Kept, Typed, manager, network, TypeOK
<1>7. CASE q.op \in RegistryOps /\ Becomes(c, t) /\ UNCHANGED lockQ
  <2>1. LocalOK(t)
    BY <1>2, <1>4, <1>7 DEF LocalOK, LockLabels
  <2>2. Own(c, t) /\ Stays(c, t)
    BY <1>1, <1>4, <1>7 DEF Own, Stays, LockLabels
  <2> QED
    BY <1>1, <1>6, <1>7, <2>1, <2>2 DEF Effect
<1>8. CASE q.op \notin RegistryOps /\ Queue(c, u)
  BY <1>1, <1>2, <1>4, <1>6, <1>8, QueueEffect
<1> QED
  BY <1>5, <1>7, <1>8

LEMMA WakeEffect ==
  ASSUME SessionInv, Wake
  PROVE  \E t : Effect(Poll, t)
<1> DEFINE u == [task[Poll] EXCEPT !.req = SyncAll]
<1>1. /\ Poll \in Tasks /\ Poll \notin Sockets /\ TypeOK /\ task[Poll] \in Task
      /\ task[Poll].pc = "idle" /\ UNCHANGED <<registry, vpn, manager, network, left>>
      /\ Queue(Poll, u)
  BY TasksAre, OwnFacts DEF Wake, At
<1>2. SyncAll \in Request /\ SyncAll.op = "sync"
  BY DEF SyncAll, Request, Ops, Rids, Targets
<1>3. u \in Task /\ u.req = SyncAll
  BY <1>1, <1>2 DEF Task
<1> HIDE DEF u
<1>4. Kept(Poll) /\ Typed
  BY <1>1 DEF Kept, Typed, manager, network, TypeOK
<1> QED
  BY <1>1, <1>2, <1>3, <1>4, QueueEffect

LEMMA LoadEffect ==
  ASSUME SessionInv, NEW p \in Tasks, Load(p)
  PROVE  \E t : Effect(p, t)
<1> DEFINE l == IF \/ task[p].req.rid = Blank
                   \/ /\ task[p].req.op \in {"unbind", "edit", "delete"}
                      /\ ~registry[task[p].req.rid].known
                THEN IF task[p].req.op = "delete" THEN "resume" ELSE "failed"
                ELSE "save"
           t == [task[p] EXCEPT !.copy = registry, !.stale = FALSE, !.pc = l]
<1>1. /\ TypeOK /\ task[p] \in Task /\ LocalOK(task[p]) /\ task[p].pc = "load"
      /\ registry \in Registry
      /\ UNCHANGED <<registry, vpn, manager, network, lockQ, left>>
  BY OwnFacts DEF Load, At
<1>2. Becomes(p, t)
  BY DEF Load
<1>3. l \in {"save", "resume", "failed"} /\ (l = "save" => task[p].req.rid # Blank)
  OBVIOUS
<1> HIDE DEF l
<1>4. /\ t \in Task /\ t.pc = l /\ t.req = task[p].req /\ t.copy = registry
      /\ t.target = task[p].target
  BY <1>1, <1>3 DEF Task, Labels
<1> HIDE DEF t
<1>5. LocalOK(t)
  BY <1>1, <1>3, <1>4 DEF LocalOK, LockLabels
<1>6. Kept(p) /\ Own(p, t)
  BY <1>1, <1>3, <1>4, UntouchedKept DEF network, LiveLabels, LockLabels
<1>7. Stays(p, t) /\ Typed
  BY <1>1, <1>3, <1>4 DEF network, Stays, LockLabels, Typed, TypeOK
<1> QED
  BY <1>1, <1>2, <1>5, <1>6, <1>7 DEF Effect

LEMMA SaveFailsEffect ==
  ASSUME SessionInv, NEW p \in Tasks, SaveFails(p)
  PROVE  \E t : Effect(p, t)
<1> DEFINE t == [task[p] EXCEPT !.pc = "failed"]
<1>1. /\ TypeOK /\ task[p] \in Task /\ task[p].pc = "save"
      /\ UNCHANGED <<registry, vpn, manager, network, lockQ>> /\ left' \in Bounds
      /\ Becomes(p, t)
  BY OwnFacts, SpendOne DEF SaveFails, At
<1>2. t \in Task /\ t.pc = "failed"
  BY <1>1 DEF Task, Labels
<1> HIDE DEF t
<1>3. LocalOK(t)
  BY <1>2 DEF LocalOK, LockLabels
<1>4. Kept(p) /\ Own(p, t)
  BY <1>1, <1>2, UntouchedKept DEF network, LiveLabels, LockLabels
<1>5. Stays(p, t) /\ Typed
  BY <1>1, <1>2 DEF network, Stays, LockLabels, Typed, TypeOK
<1> QED
  BY <1>1, <1>3, <1>4, <1>5 DEF Effect

LEMMA ResumeEffect ==
  ASSUME SessionInv, NEW s \in Sockets, Resume(s)
  PROVE  \E t : Effect(s, t)
<1> DEFINE d == Bound(task[s].copy, task[s].rid)
           t == [task[s] EXCEPT !.target = d]
<1>1. /\ s \in Tasks /\ TypeOK /\ task[s] \in Task /\ task[s].pc = "resume"
      /\ task[s].copy \in Registry /\ left \in Bounds
      /\ UNCHANGED <<registry, vpn, gone, lockQ, left>>
  BY TasksAre, OwnFacts DEF Resume, At, LocalOK
<1>2. d \in Targets
  BY <1>1 DEF Bound, Registry, Remote, Task, Rids, Targets
<1>3. Settle(s, t, IF task[s].req.op = "hello" THEN d ELSE None)
  BY DEF Resume
<1> HIDE DEF d
<1>4. t \in Task
  BY <1>1, <1>2 DEF Task
<1> HIDE DEF t
<1> QED
  BY <1>1, <1>3, <1>4, SettleEffect DEF LockLabels

\* A hello that is refused, in the loop or before it.
LEMMA RefuseEffect ==
  ASSUME SessionInv, NEW s \in Sockets, Refuse(s)
  PROVE  \E t : Effect(s, t)
<1>1. /\ s \in Tasks /\ TypeOK /\ task[s] \in Task /\ task[s].pc = "failed"
      /\ task[s].rid = Blank /\ left \in Bounds
      /\ UNCHANGED <<registry, vpn, gone, lockQ, left>>
  BY TasksAre, OwnFacts DEF Refuse, At
<1>2. CASE Becomes(s, Receiving(task[s])) /\ UNCHANGED <<manager, shown>>
  <2>1. /\ LocalOK(Receiving(task[s])) /\ Receiving(task[s]).pc = "recv"
        /\ Receiving(task[s]).rid = Blank
    BY <1>1, RestLocals
  <2>2. Kept(s) /\ Own(s, Receiving(task[s]))
    BY <1>1, <1>2, <2>1, UntouchedKept
  <2>3. Stays(s, Receiving(task[s])) /\ Typed
    BY <1>1, <1>2, <2>1 DEF Stays, LockLabels, Typed, TypeOK
  <2> QED
    BY <1>1, <1>2, <2>1, <2>2, <2>3 DEF Effect
<1>3. CASE Settle(s, task[s], task[s].target)
  BY <1>1, <1>3, SettleEffect DEF LockLabels
<1> QED
  BY <1>2, <1>3 DEF Refuse

LEMMA FailEffect ==
  ASSUME SessionInv, NEW p \in Tasks, Fail(p)
  PROVE  \E t : Effect(p, t)
<1>1. /\ TypeOK /\ task[p] \in Task /\ task[p].pc = "failed"
      /\ UNCHANGED <<registry, vpn, network, lockQ, left>>
  BY OwnFacts DEF Fail, At
<1>2. Typed
  BY <1>1 DEF network, Typed, TypeOK
<1>3. LocalOK(Fresh("closed")) /\ LocalOK(Fresh("idle"))
      /\ Fresh("closed").pc = "closed" /\ Fresh("idle").pc = "idle"
  BY <1>1, RestLocals
<1>4. CASE p \in Sockets
  <2>1. Return(p, task[p].inLoop) /\ task[p].inLoop \in BOOLEAN /\ gone' = gone
    BY <1>1, <1>4 DEF Fail, Task, network
  <2>2. Kept(p) /\ Own(p, Fresh("closed")) /\ Becomes(p, Fresh("closed"))
    BY <1>4, <2>1, ReturnKept
  <2>3. Stays(p, Fresh("closed"))
    BY <1>1, <1>3 DEF Stays, LockLabels
  <2> QED
    BY <1>1, <1>2, <1>3, <2>2, <2>3 DEF Effect
<1>5. CASE p \notin Sockets
  <2>1. Becomes(p, Fresh("idle")) /\ UNCHANGED manager /\ gone' = gone
    BY <1>1, <1>5 DEF Fail, Rest, network
  <2>2. Kept(p) /\ Own(p, Fresh("idle"))
    BY <1>5, <2>1, UntouchedKept
  <2>3. Stays(p, Fresh("idle"))
    BY <1>1, <1>3 DEF Stays, LockLabels
  <2> QED
    BY <1>1, <1>2, <1>3, <2>1, <2>2, <2>3 DEF Effect
<1> QED
  BY <1>4, <1>5

LEMMA ChangeEffect ==
  ASSUME SessionInv, NEW p \in Tasks, Change(p)
  PROVE  \E t : Effect(p, t)
<1> DEFINE q == task[p].req
           t == [task[p] EXCEPT !.pc = "release"]
<1>1. /\ TypeOK /\ task[p] \in Task /\ LocalOK(task[p]) /\ task[p].pc = "wait"
      /\ vpn \in Flags
      /\ UNCHANGED <<registry, manager, network, lockQ, left>> /\ First(p)
      /\ Becomes(p, t) /\ (q.op \in VpnOps => q.target \in Devices)
  BY OwnFacts DEF Change, At
<1>2. t \in Task /\ t.pc = "release" /\ t.req = q /\ t.target = task[p].target /\ t.rid = task[p].rid
  BY <1>1 DEF Task, Labels
<1>3. q \in Request /\ q.op \in VpnOps \cup {"sync"} /\ (q.op = "set" => q.vpn # None)
  BY <1>1 DEF LocalOK, LockLabels
<1> HIDE DEF t
<1>4. LocalOK(t)
  BY <1>1, <1>2, <1>3 DEF LocalOK, LockLabels
<1>5. vpn' \in Flags
  <2>1. q.vpn \in BOOLEAN \cup {None}
    BY <1>3 DEF Request
  <2>2. CASE q.op = "set"
    <3>1. vpn' = [vpn EXCEPT ![q.target] = q.vpn]
      BY <2>2 DEF Change
    <3>2. q.vpn \in BOOLEAN
      BY <1>3, <2>1, <2>2
    <3> QED
      BY <1>1, <3>1, <3>2 DEF Flags
  <2>3. CASE q.op = "toggle"
    <3>1. vpn' = [vpn EXCEPT ![q.target] = ~@]
      BY <2>3 DEF Change
    <3> QED
      BY <1>1, <3>1 DEF Flags
  <2>4. CASE q.op = "sync"
    BY <1>1, <2>4 DEF Change
  <2> QED
    BY <1>3, <2>2, <2>3, <2>4 DEF VpnOps
<1>6. Kept(p) /\ Own(p, t)
  BY <1>1, <1>2, UntouchedKept DEF network, LiveLabels, LockLabels
<1>7. Stays(p, t) /\ Typed
  BY <1>1, <1>2, <1>5 DEF network, Stays, LockLabels, Typed, TypeOK
<1> QED
  BY <1>1, <1>4, <1>6, <1>7 DEF Effect

LEMMA ChangeRaisesEffect ==
  ASSUME SessionInv, NEW p \in Tasks, ChangeRaises(p)
  PROVE  \E t : Effect(p, t)
<1> DEFINE t == [task[p] EXCEPT !.pc = "raised"]
<1>1. /\ TypeOK /\ task[p] \in Task /\ LocalOK(task[p]) /\ task[p].pc = "wait"
      /\ UNCHANGED <<registry, vpn, manager, network, lockQ>> /\ First(p)
      /\ Becomes(p, t) /\ left' \in Bounds
  BY OwnFacts, SpendOne DEF ChangeRaises, At
<1>2. /\ t \in Task /\ t.pc = "raised" /\ t.req = task[p].req
      /\ t.target = task[p].target /\ t.rid = task[p].rid
  BY <1>1 DEF Task, Labels
<1> HIDE DEF t
<1>3. LocalOK(t)
  BY <1>1, <1>2 DEF LocalOK, LockLabels
<1>4. Kept(p) /\ Own(p, t)
  BY <1>1, <1>2, UntouchedKept DEF network, LiveLabels, LockLabels
<1>5. Stays(p, t) /\ Typed
  BY <1>1, <1>2 DEF network, Stays, LockLabels, Typed, TypeOK
<1> QED
  BY <1>1, <1>3, <1>4, <1>5 DEF Effect

\* The broadcasts: the one of an HTTP request, the one after a change, and one
\* that goes on.
LEMMA AnswerEffect ==
  ASSUME SessionInv, NEW c \in Callers, Answer(c)
  PROVE  \E t : Effect(c, t)
<1>1. /\ c \in Tasks /\ c \notin Sockets /\ TypeOK /\ task[c].pc = "resume"
      /\ UNCHANGED <<registry, vpn, gone, lockQ, left>>
      /\ Send(c, Broadcast(All, Devices))
  BY TasksAre, OwnFacts DEF Answer, At
<1>2. Broadcast(All, Devices) \in Out
  BY <1>1 DEF Broadcast, Out, TypeOK
<1>3. PICK t : /\ LocalOK(t) /\ Becomes(c, t) /\ Kept(c) /\ Own(c, t)
               /\ shown' \in [Sockets -> [Devices -> BOOLEAN \cup {None}]]
               /\ t.pc \in {"recv", "idle", "send"}
  BY <1>1, <1>2, SendKept
<1>4. Stays(c, t) /\ Typed
  BY <1>1, <1>3 DEF Stays, LockLabels, Typed, TypeOK
<1> QED
  BY <1>1, <1>3, <1>4 DEF Effect

LEMMA ContinueEffect ==
  ASSUME SessionInv, NEW p \in Tasks, Continue(p)
  PROVE  \E t : Effect(p, t)
<1>1. /\ TypeOK /\ task[p].pc = "send" /\ task[p].out \in Out
      /\ UNCHANGED <<registry, vpn, gone, lockQ, left>> /\ Send(p, task[p].out)
  BY OwnFacts DEF Continue, At, LocalOK
<1>2. PICK t : /\ LocalOK(t) /\ Becomes(p, t) /\ Kept(p) /\ Own(p, t)
               /\ shown' \in [Sockets -> [Devices -> BOOLEAN \cup {None}]]
               /\ t.pc \in {"recv", "idle", "send"}
  BY <1>1, SendKept
<1>3. Stays(p, t) /\ Typed
  BY <1>1, <1>2 DEF Stays, LockLabels, Typed, TypeOK
<1> QED
  BY <1>1, <1>2, <1>3 DEF Effect

LEMMA ReleaseEffect ==
  ASSUME SessionInv, NEW p \in Tasks, Release(p)
  PROVE  \E t : Effect(p, t)
<1> DEFINE q == task[p].req
           o == IF q.op = "sync" THEN Broadcast(All, Devices) ELSE Broadcast(q.target, {})
<1>1. /\ TypeOK /\ task[p].pc = "release" /\ LocalOK(task[p])
      /\ UNCHANGED <<registry, vpn, gone, left>> /\ lockQ' = Tail(lockQ) /\ Send(p, o)
  BY OwnFacts DEF Release, At
<1>2. /\ q.op \in VpnOps \cup {"sync"}
      /\ q.op \in VpnOps => q.target \in Devices
  BY <1>1 DEF LocalOK, LockLabels
<1>3. o \in Out
  <2>1. Broadcast(All, Devices) \in Out
    BY <1>1 DEF Broadcast, Out, TypeOK
  <2>2. q.op # "sync" => Broadcast(q.target, {}) \in Out
    BY <1>1, <1>2 DEF Broadcast, Out, TypeOK
  <2> QED
    BY <2>1, <2>2
<1> HIDE DEF o, q
<1>4. PICK t : /\ LocalOK(t) /\ Becomes(p, t) /\ Kept(p) /\ Own(p, t)
               /\ shown' \in [Sockets -> [Devices -> BOOLEAN \cup {None}]]
               /\ t.pc \in {"recv", "idle", "send"}
  BY <1>1, <1>3, SendKept
<1>5. Leaves(p, t) /\ Typed
  BY <1>1, <1>4 DEF Leaves, LockLabels, Typed, TypeOK
<1> QED
  BY <1>1, <1>4, <1>5 DEF Effect

\* A coroutine that ends its request, or the endpoint that returns.
LEMMA EndsKept ==
  ASSUME SessionInv, NEW p \in Tasks, gone' = gone,
         task[p].pc \in {"release", "raised"} \/ p \notin Sockets,
         \/ p \in Sockets /\ Return(p, TRUE)
         \/ Becomes(p, Rest(p)) /\ UNCHANGED manager
  PROVE  \E t : /\ LocalOK(t) /\ Becomes(p, t) /\ Kept(p) /\ Own(p, t)
                /\ t.pc \in {"closed", "recv", "idle"}
<1>1. task[p] \in Task
  BY OwnFacts
<1>2. CASE p \in Sockets /\ Return(p, TRUE)
  BY <1>1, <1>2, ReturnKept, RestLocals
<1>3. CASE Becomes(p, Rest(p)) /\ UNCHANGED manager
  <2>1. LocalOK(Rest(p)) /\ Rest(p).pc \in {"recv", "idle"}
    BY <1>1, RestLocals DEF Rest
  <2>2. p \in Sockets => /\ Rest(p).target = task[p].target /\ Rest(p).rid = task[p].rid
                         /\ task[p].pc \in LiveLabels /\ task[p].pc \notin {"new", "closed"}
    BY <1>1, RestLocals DEF Rest, LiveLabels, LockLabels
  <2>3. Kept(p) /\ Own(p, Rest(p))
    BY <1>3, <2>2, UntouchedKept
  <2> QED
    BY <1>3, <2>1, <2>3
<1> QED
  BY <1>2, <1>3

LEMMA BroadcastFailsEffect ==
  ASSUME SessionInv, NEW p \in Tasks, BroadcastFails(p)
  PROVE  \E t : Effect(p, t)
<1>1. /\ TypeOK /\ UNCHANGED <<registry, vpn, network>> /\ left' \in Bounds
      /\ \/ task[p].pc = "release" /\ lockQ' = Tail(lockQ)
         \/ p \notin Sockets /\ task[p].pc = "resume" /\ UNCHANGED lockQ
      /\ \/ p \in Sockets /\ Return(p, TRUE)
         \/ Becomes(p, Rest(p)) /\ UNCHANGED manager
  BY TasksAre, OwnFacts, SpendOne DEF BroadcastFails, At
<1>2. PICK t : /\ LocalOK(t) /\ Becomes(p, t) /\ Kept(p) /\ Own(p, t)
               /\ t.pc \in {"closed", "recv", "idle"}
  BY <1>1, EndsKept DEF network
<1>3. Stays(p, t) \/ Leaves(p, t)
  BY <1>1, <1>2 DEF Stays, Leaves, LockLabels
<1>4. Typed
  BY <1>1 DEF network, Typed, TypeOK
<1> QED
  BY <1>1, <1>2, <1>3, <1>4 DEF Effect

LEMMA RaisedEffect ==
  ASSUME SessionInv, NEW p \in Tasks, Raised(p)
  PROVE  \E t : Effect(p, t)
<1>1. /\ TypeOK /\ UNCHANGED <<registry, vpn, network, left>> /\ left \in Bounds
      /\ task[p].pc = "raised" /\ lockQ' = Tail(lockQ)
      /\ \/ p \in Sockets /\ Return(p, TRUE)
         \/ Becomes(p, Rest(p)) /\ UNCHANGED manager
  BY OwnFacts DEF Raised, At
<1>2. PICK t : /\ LocalOK(t) /\ Becomes(p, t) /\ Kept(p) /\ Own(p, t)
               /\ t.pc \in {"closed", "recv", "idle"}
  BY <1>1, EndsKept DEF network
<1>3. Leaves(p, t)
  BY <1>1, <1>2 DEF Leaves, LockLabels
<1>4. Typed
  BY <1>1 DEF network, Typed, TypeOK
<1> QED
  BY <1>1, <1>2, <1>3, <1>4 DEF Effect

\* The list an operation leaves is a list of remotes.
LEMMA AppliedTyped ==
  ASSUME NEW reg \in Registry, NEW q \in Request, q.op \in RegistryOps, q.rid \notin {None, Blank}
  PROVE  /\ Applied(reg, q) \in Registry
         /\ \A r \in RemoteIds : ~Asks(q, r) => Applied(reg, q)[r].target = reg[r].target
<1> DEFINE old   == reg[q.rid]
           given == IF q.target # None THEN q.target ELSE old.target
           new   == CASE q.op \in SeenOps \cup {"bind"} ->
                           [old EXCEPT !.known = TRUE, !.target = given]
                      [] q.op = "unbind" -> [old EXCEPT !.target = None]
                      [] q.op \in {"edit", "add"} ->
                           [known |-> TRUE, target |-> given,
                            enabled |-> IF q.enabled # None THEN q.enabled
                                        ELSE q.op = "add" \/ old.enabled]
                      [] OTHER -> Absent
<1>1. /\ q.rid \in RemoteIds /\ q.target \in Targets
      /\ q.enabled \in BOOLEAN \cup {None}
      /\ q.op \in {"hello", "ping", "bind", "unbind", "edit", "add", "delete"}
  BY DEF Request, Rids, RegistryOps, SeenOps
<1>2. old \in Remote /\ given \in Targets
  BY <1>1 DEF Registry, Remote
<1>3. Applied(reg, q) = [reg EXCEPT ![q.rid] = new]
  BY DEF Applied
<1> HIDE DEF old, given
<1>4. /\ new \in Remote
      /\ q.op \in {"hello", "ping", "bind", "edit", "add"} => new.target = given
  <2>1. CASE q.op \in {"hello", "ping", "bind"}
    <3>1. new = [old EXCEPT !.known = TRUE, !.target = given]
      BY <2>1 DEF SeenOps
    <3> QED
      BY <1>2, <2>1, <3>1 DEF Remote
  <2>2. CASE q.op = "unbind"
    <3>1. new = [old EXCEPT !.target = None]
      BY <2>2 DEF SeenOps
    <3> QED
      BY <1>2, <2>2, <3>1 DEF Remote, Targets
  <2>3. CASE q.op \in {"edit", "add"}
    <3> DEFINE e == IF q.enabled # None THEN q.enabled ELSE q.op = "add" \/ old.enabled
    <3>1. new = [known |-> TRUE, target |-> given, enabled |-> e]
      BY <2>3 DEF SeenOps
    <3>2. e \in BOOLEAN
      <4>1. CASE q.enabled # None
        BY <1>1, <4>1
      <4>2. CASE q.enabled = None
        <5>1. old.enabled \in BOOLEAN
          BY <1>2 DEF Remote
        <5>2. e = (q.op = "add" \/ old.enabled)
          BY <4>2
        <5> QED
          BY <5>1, <5>2
      <4> QED
        BY <4>1, <4>2
    <3> HIDE DEF e
    <3> QED
      BY <1>2, <2>3, <3>1, <3>2 DEF Remote
  <2>4. CASE q.op = "delete"
    <3>1. new = Absent
      BY <2>4 DEF SeenOps
    <3> QED
      BY <2>4, <3>1 DEF Absent, Remote, Targets
  <2> QED
    BY <1>1, <2>1, <2>2, <2>3, <2>4
<1> HIDE DEF new
<1>5. Applied(reg, q) \in Registry
  BY <1>1, <1>3, <1>4 DEF Registry
<1>6. ASSUME NEW r \in RemoteIds, ~Asks(q, r)
      PROVE  Applied(reg, q)[r].target = reg[r].target
  <2>1. CASE r # q.rid
    BY <1>1, <1>3, <2>1 DEF Registry
  <2>2. CASE r = q.rid
    <3>1. q.op \in {"hello", "ping", "edit", "add"} /\ q.target = None
      BY <1>1, <1>6, <2>2 DEF Asks
    <3>2. Applied(reg, q)[r] = new
      BY <1>1, <1>3, <2>2 DEF Registry
    <3> QED
      BY <1>4, <2>2, <3>1, <3>2 DEF given, old
  <2> QED
    BY <2>1, <2>2
<1> QED
  BY <1>5, <1>6

\* A worker that saves: every other one that has read is stale.
LEMMA SaveKeeps ==
  ASSUME SessionInv, NEW p \in Tasks, Save(p)
  PROVE  SessionInv'
<1> DEFINE reg == Applied(task[p].copy, task[p].req)
           t == [task[p] EXCEPT !.pc = "resume", !.copy = reg]
<1>1. /\ TypeOK /\ task \in [Tasks -> Task] /\ task[p].pc = "save" /\ LocalOK(task[p])
      /\ UNCHANGED <<vpn, manager, network, lockQ, left>>
  BY OwnFacts DEF Save, At, TypeOK
<1>2. /\ registry' = reg
      /\ task' = [o \in Tasks |-> IF o = p THEN t
                                  ELSE IF At(o, "save") THEN [task[o] EXCEPT !.stale = TRUE]
                                  ELSE task[o]]
  BY DEF Save, Saved
<1>3. reg \in Registry
  BY <1>1, AppliedTyped DEF LocalOK
<1> HIDE DEF reg
<1>4. t \in Task /\ t.pc = "resume" /\ t.copy = reg
  BY <1>1, <1>3 DEF Task, Labels
<1> HIDE DEF t
<1>5. /\ task' \in [Tasks -> Task] /\ task'[p] = t
      /\ \A o \in Tasks \ {p} : /\ task'[o].pc = task[o].pc
                                /\ task'[o].target = task[o].target
                                /\ task'[o].rid = task[o].rid
                                /\ task[o].pc # "save" => task'[o] = task[o]
  <2>1. \A o \in Tasks : [task[o] EXCEPT !.stale = TRUE] \in Task
    BY <1>1 DEF Task
  <2>2. \A o \in Tasks : task[o] \in Task
    BY <1>1
  <2>3. ASSUME NEW o \in Tasks \ {p}
        PROVE  /\ task'[o].pc = task[o].pc /\ task'[o].target = task[o].target
               /\ task'[o].rid = task[o].rid
               /\ task[o].pc # "save" => task'[o] = task[o]
    BY <1>2, <2>2 DEF At, Task
  <2> QED
    BY <1>2, <1>4, <2>1, <2>2, <2>3
<1>6. LockOK'
  <2>1. \A o \in Tasks : /\ task'[o].pc \in LockLabels <=> task[o].pc \in LockLabels
                         /\ task'[o].pc \in {"release", "raised"} => task[o].pc \in {"release", "raised"}
    BY <1>1, <1>4, <1>5 DEF LockLabels
  <2> QED
    BY <1>1, <2>1 DEF LockOK, SessionInv, First
<1>7. LocalsOK'
  <2> SUFFICES ASSUME NEW o \in Tasks PROVE LocalOK(task[o])'
    BY DEF LocalsOK
  <2>1. CASE o = p
    BY <1>2, <1>3, <1>4, <1>5, <2>1 DEF LocalOK, LockLabels
  <2>2. CASE o # p /\ task[o].pc # "save"
    <3>1. task'[o] = task[o] /\ LocalOK(task[o])
      BY <1>5, <2>2, OwnFacts
    <3> QED
      BY <2>2, <3>1 DEF LocalOK
  <2>3. CASE o # p /\ task[o].pc = "save"
    <3>1. task'[o] = [task[o] EXCEPT !.stale = TRUE] /\ task[o] \in Task
      BY <1>1, <1>2, <2>3 DEF At
    <3>2. /\ task'[o] \in Task /\ task'[o].pc = "save" /\ task'[o].stale = TRUE
          /\ task'[o].req = task[o].req /\ task'[o].copy = task[o].copy
      BY <2>3, <3>1 DEF Task
    <3>3. LocalOK(task[o])
      BY OwnFacts
    <3> QED
      BY <2>3, <3>2, <3>3 DEF LocalOK, LockLabels
  <2> QED
    BY <2>1, <2>2, <2>3
<1>8. OpenSessionsListed' /\ EntriesOK'
  <2>1. /\ UNCHANGED <<online, info, gone>> /\ OpenSessionsListed /\ EntriesOK
        /\ Sockets \subseteq Tasks
    BY <1>1, TasksAre DEF manager, network, SessionInv
  <2>2. OpenSessionsListed'
    <3> SUFFICES ASSUME NEW s \in Sockets, task'[s].pc \notin {"new", "closed"}, s \notin gone
                 PROVE  s \in online
      BY <2>1 DEF OpenSessionsListed
    <3>1. task[s].pc \notin {"new", "closed"}
      BY <1>1, <1>5, <2>1
    <3> QED
      BY <2>1, <3>1 DEF OpenSessionsListed
  <2>3. EntriesOK'
    <3> SUFFICES ASSUME NEW s \in Sockets, task'[s].pc \in LiveLabels, s \in online,
                        task'[s].rid # Blank
                 PROVE  info[s].target = task'[s].target
      BY <2>1 DEF EntriesOK
    <3>1. s # p
      BY <1>4, <1>5 DEF LiveLabels, LockLabels
    <3> QED
      BY <1>5, <2>1, <3>1 DEF EntriesOK
  <2> QED
    BY <2>2, <2>3
<1>9. TypeOK'
  BY <1>1, <1>2, <1>3, <1>5 DEF TypeOK, manager, network
<1> QED
  BY <1>6, <1>7, <1>8, <1>9 DEF SessionInv

\* A peer that leaves.
LEMMA HangUpKeeps ==
  ASSUME SessionInv, NEW s \in Sockets, HangUp(s)
  PROVE  SessionInv'
<1>1. /\ TypeOK /\ left' \in Bounds /\ gone' = gone \cup {s}
      /\ UNCHANGED <<registry, vpn, manager, shown, lockQ, task>>
  BY SpendOne DEF HangUp, SessionInv, TypeOK
<1>2. TypeOK'
  BY <1>1 DEF TypeOK, manager
<1>3. LockOK' /\ LocalsOK'
  BY <1>1 DEF SessionInv, LockOK, First, LocalsOK, LocalOK
<1>4. OpenSessionsListed' /\ EntriesOK'
  BY <1>1 DEF SessionInv, OpenSessionsListed, EntriesOK, manager
<1> QED
  BY <1>2, <1>3, <1>4 DEF SessionInv

\* A crash of the service.
LEMMA CrashKeeps ==
  ASSUME SessionInv, Crash
  PROVE  SessionInv'
<1> DEFINE l(p) == IF p \notin Sockets THEN "idle" ELSE IF At(p, "new") THEN "new" ELSE "closed"
<1>1. /\ TypeOK /\ left' \in Bounds /\ UNCHANGED <<registry, vpn, info, network>>
      /\ online' = {} /\ lockQ' = <<>> /\ task' = [p \in Tasks |-> Fresh(l(p))]
  BY SpendOne DEF Crash, SessionInv, TypeOK
<1>2. \A p \in Tasks : l(p) \in {"idle", "new", "closed"}
  OBVIOUS
<1>3. ASSUME NEW p \in Tasks
      PROVE  LocalOK(Fresh(l(p))) /\ Fresh(l(p)).pc = l(p) /\ Fresh(l(p)) \in Task
  <2>1. task[p] \in Task
    BY OwnFacts
  <2> QED
    BY <1>2, <2>1, RestLocals DEF LocalOK
<1>4. \A s \in Sockets : s \in Tasks /\ l(s) \in {"new", "closed"}
  BY TasksAre
<1> HIDE DEF l
<1>5. \A p \in Tasks : task'[p] = Fresh(l(p)) /\ task'[p].pc = l(p)
  BY <1>1, <1>3
<1>6. TypeOK'
  <2>1. task' \in [Tasks -> Task]
    BY <1>1, <1>3
  <2> QED
    BY <1>1, <2>1 DEF TypeOK, network
<1>7. LockOK'
  <2>1. \A p \in Tasks : task'[p].pc \notin LockLabels
    BY <1>2, <1>5 DEF LockLabels
  <2>2. 1 .. Len(lockQ') = {}
    BY <1>1
  <2> QED
    BY <2>1, <2>2 DEF LockOK, LockLabels
<1>8. LocalsOK'
  <2> SUFFICES ASSUME NEW p \in Tasks PROVE LocalOK(task[p])'
    BY DEF LocalsOK
  <2>1. LocalOK(task'[p])
    BY <1>3, <1>5
  <2>2. registry' = registry
    BY <1>1
  <2> QED
    BY <2>1, <2>2 DEF LocalOK
<1>9. OpenSessionsListed' /\ EntriesOK'
  BY <1>1, <1>4, <1>5 DEF OpenSessionsListed, EntriesOK
<1> QED
  BY <1>6, <1>7, <1>8, <1>9 DEF SessionInv

LEMMA InitSessionInv == Init => SessionInv
<1> SUFFICES ASSUME Init PROVE SessionInv
  OBVIOUS
<1> DEFINE l(p) == IF p \in Sockets THEN "new" ELSE "idle"
<1>1. \A p \in Tasks : task[p] = Fresh(l(p)) /\ l(p) \in {"new", "idle"}
  BY DEF Init
<1>2. Fresh("new") \in Task /\ Fresh("idle") \in Task
  BY DEF Fresh, Task, Labels, Rids, Targets
<1>3. ASSUME NEW p \in Tasks
      PROVE  LocalOK(task[p]) /\ task[p] \in Task /\ task[p].pc = l(p)
  BY <1>1, <1>2, RestLocals DEF LocalOK
<1>4. TypeOK
  <2>1. task \in [Tasks -> Task]
    BY <1>3 DEF Init
  <2>2. registry \in Registry /\ left \in Bounds /\ Unset \in Info
    BY SessionsAssumption DEF Init, Unset, Info, Rids, Targets
  <2>3. vpn \in Flags /\ shown \in [Sockets -> [Devices -> BOOLEAN \cup {None}]]
    BY DEF Init, Flags
  <2>4. info \in [Sockets -> Info] /\ online \subseteq Sockets /\ gone \subseteq Sockets
    BY <2>2 DEF Init
  <2> QED
    BY <2>1, <2>2, <2>3, <2>4 DEF TypeOK, Init
<1>5. LockOK
  <2>1. \A p \in Tasks : task[p].pc \notin LockLabels
    BY <1>1, <1>3 DEF LockLabels
  <2>2. 1 .. Len(lockQ) = {}
    BY DEF Init
  <2> QED
    BY <2>1, <2>2 DEF LockOK, LockLabels
<1>6. LocalsOK
  BY <1>3 DEF LocalsOK
<1>7. OpenSessionsListed /\ EntriesOK
  <2>1. \A s \in Sockets : task[s].pc = "new"
    BY <1>3, TasksAre
  <2> QED
    BY <2>1 DEF OpenSessionsListed, EntriesOK, LiveLabels, LockLabels
<1> QED
  BY <1>4, <1>5, <1>6, <1>7 DEF SessionInv

\* Every step is a stutter, a save, a peer that leaves, a crash, or a step of
\* one coroutine with the effect above.
LEMMA StepCases ==
  ASSUME SessionInv, [Next]_vars
  PROVE  \/ UNCHANGED vars \/ Crash
         \/ \E s \in Sockets : HangUp(s)
         \/ \E p \in Tasks : Save(p)
         \/ \E p \in Tasks : \E t : Effect(p, t)
<1>1. Sockets \subseteq Tasks /\ Callers \subseteq Tasks /\ Poll \in Tasks
  BY TasksAre
<1>2. Messages \subseteq Request
  BY SessionsAssumption
<1>3. ASSUME NEW s \in Sockets, Session(s)
      PROVE  \E t : Effect(s, t)
  <2>1. task[s].first # None => task[s].first \in Request
    BY <1>1, OwnFacts DEF Task
  <2> QED
    BY <1>3, <2>1, EndEffect, SetupEffect, ResumeEffect, RefuseEffect, HelloEffect DEF Session
<1>4. ASSUME NEW s \in Sockets, Peer(s)
      PROVE  HangUp(s) \/ \E t : Effect(s, t)
  BY <1>2, <1>4, ConnectEffect, EndEffect, AuthenticateEffect, HelloEffect, PingEffect,
     SyncEffect, CommandEffect DEF Peer
<1>5. ASSUME NEW c \in Callers, Answer(c) \/ \E q \in Requests : Ask(c, q)
      PROVE  \E t : Effect(c, t)
  BY <1>5, AnswerEffect, AskEffect
<1>6. ASSUME NEW p \in Tasks, Proceed(p) \/ SaveFails(p) \/ BroadcastFails(p)
      PROVE  Save(p) \/ \E t : Effect(p, t)
  BY <1>6, LoadEffect, FailEffect, ChangeEffect, ChangeRaisesEffect, ReleaseEffect,
     RaisedEffect, ContinueEffect, SaveFailsEffect, BroadcastFailsEffect DEF Proceed
<1>7. Wake => \E t : Effect(Poll, t)
  BY WakeEffect
<1>8. CASE Next
  BY <1>1, <1>3, <1>4, <1>5, <1>6, <1>7, <1>8 DEF Next
<1> QED
  BY <1>8

LEMMA StepKeepsSessionInv == SessionInv /\ [Next]_vars => SessionInv'
<1> SUFFICES ASSUME SessionInv, [Next]_vars PROVE SessionInv'
  OBVIOUS
<1>1. CASE UNCHANGED vars
  <2>1. /\ UNCHANGED <<registry, vpn, online, info, shown, gone, lockQ, task, left>>
    BY <1>1 DEF vars, manager, network
  <2>2. TypeOK' /\ LockOK' /\ LocalsOK' /\ OpenSessionsListed' /\ EntriesOK'
    BY <2>1 DEF SessionInv, TypeOK, LockOK, First, LocalsOK, LocalOK, OpenSessionsListed, EntriesOK
  <2> QED
    BY <2>2 DEF SessionInv
<1> QED
  BY <1>1, StepCases, CrashKeeps, HangUpKeeps, SaveKeeps, EffectKeeps

-----------------------------------------------------------------------------
\* The theorems.

\* The invariant: the queue of state_lock has its holder first and everyone who
\* waits once, a worker's copy of remotes.json is the file unless another one
\* has saved, and the manager's entries follow the sessions.
THEOREM SessionInvariant == Spec => []SessionInv
BY InitSessionInv, StepKeepsSessionInv, PTL DEF Spec

\* Every variable keeps its type, in particular what is broadcast are flags of
\* known devices.
THEOREM SessionTypeCorrect == Spec => []TypeOK
<1>1. SessionInv => TypeOK
  BY DEF SessionInv
<1> QED
  BY <1>1, SessionInvariant, PTL

\* A client whose peer is there and whose endpoint runs is never dropped.
THEOREM OpenSessionsStayListed == Spec => []OpenSessionsListed
<1>1. SessionInv => OpenSessionsListed
  BY DEF SessionInv
<1> QED
  BY <1>1, SessionInvariant, PTL

\* A binding is lost only to a request for it or to a save that overlapped.
THEOREM BindingsSurvive == Spec => BindingLostOnlyToOverlap
<1> DEFINE A == \A r \in RemoteIds : registry'[r].target # registry[r].target =>
                  \E p \in Tasks : Saves(p) /\ (task[p].stale \/ Asks(task[p].req, r))
<1>1. SessionInv /\ [Next]_vars => [A]_vars
  <2> SUFFICES ASSUME SessionInv, [Next]_vars, NEW r \in RemoteIds,
                      registry'[r].target # registry[r].target
               PROVE  \E p \in Tasks : Saves(p) /\ (task[p].stale \/ Asks(task[p].req, r))
    OBVIOUS
  <2>1. registry' # registry
    OBVIOUS
  <2>2. PICK p \in Tasks : Save(p)
    BY <2>1, StepCases DEF vars, Crash, HangUp, Effect
  <2>3. /\ task[p].pc = "save" /\ LocalOK(task[p])
        /\ registry' = Applied(task[p].copy, task[p].req)
    BY <2>2, OwnFacts DEF Save, Saved, At
  <2>4. Saves(p)
    <3>1. task \in [Tasks -> Task]
      BY DEF SessionInv, TypeOK
    <3>2. task'[p] = [task[p] EXCEPT !.pc = "resume", !.copy = Applied(task[p].copy, task[p].req)]
      BY <2>2 DEF Save, Saved
    <3>3. task'[p].pc = "resume"
      BY <3>1, <3>2 DEF Task
    <3> QED
      BY <2>3, <3>3 DEF Saves, At
  <2>5. ASSUME ~task[p].stale, ~Asks(task[p].req, r)
        PROVE  FALSE
    <3>1. task[p].copy = registry
      BY <2>3, <2>5 DEF LocalOK
    <3>2. registry'[r].target = registry[r].target
      BY <2>3, <2>5, <3>1, AppliedTyped DEF LocalOK
    <3> QED
      BY <3>2
  <2> QED
    BY <2>4, <2>5
<1> QED
  BY <1>1, SessionInvariant, PTL DEF Spec, BindingLostOnlyToOverlap

\* A coroutine that has a broadcast to send goes on with it in a step of its own.
LEMMA SenderSteps ==
  ASSUME SessionInv, Next, NEW p \in Tasks, task[p].pc \in {"release", "send"},
         task'[p] # task[p]
  PROVE  Release(p) \/ Continue(p) \/ BroadcastFails(p) \/ Crash
<1>1. Sockets \subseteq Tasks /\ Callers \subseteq Tasks /\ Poll \in Tasks
      /\ Messages \subseteq Request
  BY TasksAre, SessionsAssumption
<1>2. ASSUME NEW o \in Tasks, \E t : Effect(o, t)
      PROVE  o = p
  BY <1>2 DEF Effect, Becomes, SessionInv, TypeOK
<1>3. ASSUME NEW s \in Sockets, Session(s)
      PROVE  FALSE
  <2>1. task[s].first # None => task[s].first \in Request
    BY <1>1, OwnFacts DEF Task
  <2>2. \E t : Effect(s, t)
    BY <1>3, <2>1, EndEffect, SetupEffect, ResumeEffect, RefuseEffect, HelloEffect DEF Session
  <2>3. s = p
    BY <1>1, <1>2, <2>2
  <2>4. task[s].pc \in {"auth", "setup", "resume", "failed", "recv"}
    BY <1>3 DEF Session, Reject, Setup, Resume, Refuse, Leave, Hello, Incoming, At
  <2> QED
    BY <2>3, <2>4
<1>4. ASSUME NEW s \in Sockets, Peer(s)
      PROVE  FALSE
  <2>1. CASE HangUp(s)
    BY <2>1 DEF HangUp
  <2>2. CASE ~HangUp(s)
    <3>1. \E t : Effect(s, t)
      BY <1>1, <1>4, <2>2, ConnectEffect, EndEffect, AuthenticateEffect, HelloEffect,
         PingEffect, SyncEffect, CommandEffect DEF Peer
    <3>2. s = p
      BY <1>1, <1>2, <3>1
    <3>3. task[s].pc \in {"new", "auth", "recv"}
      BY <1>4, <2>2 DEF Peer, Connect, Garbage, Authenticate, Hello, Ping, Sync, Command,
         Incoming, At
    <3> QED
      BY <3>2, <3>3
  <2> QED
    BY <2>1, <2>2
<1>5. ASSUME NEW c \in Callers, Answer(c) \/ \E q \in Requests : Ask(c, q)
      PROVE  FALSE
  <2>1. \E t : Effect(c, t)
    BY <1>5, AnswerEffect, AskEffect
  <2>2. c = p
    BY <1>1, <1>2, <2>1
  <2>3. task[c].pc \in {"resume", "idle"}
    BY <1>5 DEF Answer, Ask, At
  <2> QED
    BY <2>2, <2>3
<1>6. ASSUME NEW o \in Tasks, Save(o)
      PROVE  FALSE
  <2>1. task[o].pc = "save"
    BY <1>6 DEF Save, At
  <2>2. task'[p] = task[p]
    BY <1>6, <2>1 DEF Save, Saved, At
  <2> QED
    BY <2>2
<1>7. ASSUME NEW o \in Tasks, Proceed(o) \/ SaveFails(o) \/ BroadcastFails(o)
      PROVE  Release(p) \/ Continue(p) \/ BroadcastFails(p)
  <2>1. ~Save(o)
    BY <1>6
  <2>2. \E t : Effect(o, t)
    BY <1>7, <2>1, LoadEffect, FailEffect, ChangeEffect, ChangeRaisesEffect, ReleaseEffect,
       RaisedEffect, ContinueEffect, SaveFailsEffect, BroadcastFailsEffect DEF Proceed
  <2>3. o = p
    BY <1>2, <2>2
  <2>4. CASE Load(o) \/ Fail(o) \/ Change(o) \/ ChangeRaises(o) \/ Raised(o) \/ SaveFails(o)
    <3>1. task[o].pc \in {"load", "failed", "wait", "raised", "save"}
      BY <2>4 DEF Load, Fail, Change, ChangeRaises, Raised, SaveFails, At
    <3> QED
      BY <2>3, <3>1
  <2> QED
    BY <1>7, <2>1, <2>3, <2>4 DEF Proceed
<1>8. ~Wake
  <2> SUFFICES ASSUME Wake PROVE FALSE
    OBVIOUS
  <2>1. Poll = p
    BY <1>1, <1>2, WakeEffect
  <2> QED
    BY <2>1 DEF Wake, At
<1> QED
  BY <1>3, <1>4, <1>5, <1>7, <1>8 DEF Next

\* A session that waits for messages is shown by the broadcasts about one device
\* only the device it is bound to, or any if it is bound to none, unless its
\* remote_id is blank.
THEOREM OwnDeviceShown == Spec => ShownOwnDevice
<1> DEFINE A == \A s \in Sockets, d \in Devices :
                  /\ At(s, "recv") /\ task'[s].pc = "recv" /\ shown'[s][d] # shown[s][d]
                  /\ \E p \in Tasks \ {s} : SendsOne(p)
                  => task[s].target \in {None, d} \/ task[s].rid = Blank
<1>1. SessionInv /\ [Next]_vars => [A]_vars
  <2> SUFFICES ASSUME SessionInv, Next, NEW s \in Sockets, NEW d \in Devices,
                      At(s, "recv"), shown'[s][d] # shown[s][d],
                      NEW p \in Tasks \ {s}, SendsOne(p)
               PROVE  task[s].target \in {None, d} \/ task[s].rid = Blank
    BY DEF vars, network
  <2>1. task[p].pc \in {"release", "send"} /\ task'[p] # task[p]
    BY DEF SendsOne, At
  <2>2. Release(p) \/ Continue(p) \/ BroadcastFails(p) \/ Crash
    BY <2>1, SenderSteps
  <2>3. Release(p) \/ Continue(p)
    BY <2>2 DEF BroadcastFails, Crash, network
  <2>4. All \notin Devices
    BY SessionsAssumption
  <2>5. PICK o : /\ o \in Out /\ Send(p, o) /\ (o.to = {} \/ o.round # All)
    <3>1. CASE Release(p)
      <4> DEFINE b == Broadcast(task[p].req.target, {})
      <4>1. task[p].pc = "release" /\ task[p].req.op \in VpnOps /\ LocalOK(task[p])
        BY <3>1, OwnFacts DEF Release, SendsOne, At
      <4>2. task[p].req.target \in Devices /\ task[p].req.op # "sync"
        BY <4>1 DEF LocalOK, VpnOps
      <4>3. b \in Out /\ b.round # All
        BY <2>4, <4>2 DEF Broadcast, Out, SessionInv, TypeOK
      <4>4. Send(p, b)
        BY <3>1, <4>2 DEF Release
      <4> QED
        BY <4>3, <4>4
    <3>2. CASE Continue(p)
      <4>1. task[p].pc = "send" /\ LocalOK(task[p]) /\ Send(p, task[p].out)
        BY <3>2, OwnFacts DEF Continue, At
      <4>2. task[p].out \in Out /\ (task[p].out.to = {} \/ task[p].out.round # All)
        BY <4>1 DEF LocalOK, SendsOne, At
      <4> QED
        BY <4>1, <4>2
    <3> QED
      BY <2>3, <3>1, <3>2
  <2>6. PICK n \in Rounds(o) : \E c \in n.to : SendTo(c, n)
    BY <2>5 DEF Send
  <2>7. PICK c \in n.to : SendTo(c, n)
    BY <2>6
  <2>8. n \in Out /\ n.round # All
    <3>1. CASE o.to # {}
      BY <2>5, <3>1 DEF Rounds
    <3>2. CASE o.to = {}
      <4>1. PICK e \in o.rest : n = [o EXCEPT !.round = e, !.to = online, !.rest = @ \ {e}]
        BY <3>2 DEF Rounds
      <4>2. e \in Devices /\ online \subseteq Sockets
        BY <2>5 DEF Out, SessionInv, TypeOK
      <4> QED
        BY <2>4, <2>5, <4>1, <4>2 DEF Out
    <3> QED
      BY <3>1, <3>2
  <2>9. n.round \in Devices /\ c \in Sockets
    BY <2>8 DEF Out
  <2>10. /\ Wants(c, n.round) /\ ~Unreachable(c)
         /\ shown' = [shown EXCEPT ![c] = [@ EXCEPT ![n.round] = n.flags[n.round]]]
    BY <2>7, <2>8 DEF SendTo
  <2>11. shown \in [Sockets -> [Devices -> BOOLEAN \cup {None}]]
    BY DEF SessionInv, TypeOK
  <2>12. c = s
    BY <2>10, <2>11
  <2>13. n.round = d
    <3>1. shown'[s] = [shown[s] EXCEPT ![n.round] = n.flags[n.round]]
      BY <2>10, <2>11, <2>12
    <3>2. shown[s] \in [Devices -> BOOLEAN \cup {None}]
      BY <2>11
    <3> QED
      BY <3>1, <3>2
  <2>14. info[s].target \in {None, d}
    BY <2>8, <2>10, <2>12, <2>13 DEF Wants
  <2>15. s \in online
    BY <2>10, <2>12 DEF SessionInv, OpenSessionsListed, Unreachable, At
  <2> QED
    BY <2>14, <2>15 DEF SessionInv, EntriesOK, LiveLabels, At
<1> QED
  BY <1>1, SessionInvariant, PTL DEF Spec, ShownOwnDevice

=============================================================================
