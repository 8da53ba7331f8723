--------------------------- MODULE RemoteSessions ---------------------------
(***************************************************************************)
(* The ESP32 remotes: their records in remotes.json, the WebSocket         *)
(* sessions they and the web page hold, the connection manager and the     *)
(* broadcasts that follow every change.                                    *)
(*                                                                         *)
(* Sockets and Callers (HTTP requests) are coroutines of one event loop,   *)
(* and Poll is its periodic task.  remotes.json is read and rewritten on   *)
(* worker threads without a lock; a VPN flag changes under state_lock.     *)
(* What changing a flag does to devices.json and to the rules is the       *)
(* subject of DevicePanel: here it is one step.                            *)
(***************************************************************************)
EXTENDS Integers, Sequences

CONSTANTS Sockets, Callers, Poll,  \* the coroutines
          RemoteIds, Macs,         \* remote_id values, MACs a remote can be bound to
          Devices,                 \* the MACs that are in devices.json
          None,                    \* no remote, no target, no message
          Blank,                   \* a remote_id of blanks, which is refused
          All,                     \* the round of a broadcast that lists every device
          TokenRequired,           \* settings.api_token is set
          PeriodicSync,            \* settings.enable_periodic_sync
          Queries,                 \* query parameters of a connection
          Messages, Requests,      \* what sessions and HTTP clients may send
          Registries,              \* contents of remotes.json at the start
          Budgets                  \* bounds on the environment: see Bounds

VARIABLES registry,  \* remotes.json
          vpn,       \* the vpn flag of every device in devices.json
          online,    \* ConnectionManager._clients
          info,      \* the ClientInfo object of every socket
          shown,     \* the last flags every client has been sent
          gone,      \* sockets whose peer has left
          lockQ,     \* state_lock: its holder, then the waiters in FIFO order
          task,      \* the local state of every coroutine and its worker
          left       \* what is left of the budget of the environment

vars    == <<registry, vpn, online, info, shown, gone, lockQ, task, left>>
manager == <<online, info>>
network == <<shown, gone>>

Tasks == Sockets \cup Callers \cup {Poll}

Targets   == Macs \cup {None}
Rids      == RemoteIds \cup {None, Blank}
Remote    == [known : BOOLEAN, target : Targets, enabled : BOOLEAN]
Registry  == [RemoteIds -> Remote]
Info      == [rid : Rids, target : Targets]
Flags     == [Devices -> BOOLEAN]

SeenOps     == {"hello", "ping"}
RegistryOps == SeenOps \cup {"bind", "unbind", "edit", "add", "delete"}
VpnOps      == {"set", "toggle"}
MessageOps  == SeenOps \cup VpnOps \cup {"get", "sync"}
Ops         == RegistryOps \cup VpnOps \cup {"get", "sync"}

\* A message or a request: None is a field that was left out.
Request == [op : Ops, rid : Rids, target : Targets,
            enabled : BOOLEAN \cup {None}, vpn : BOOLEAN \cup {None}]

\* The bounds on the environment: messages, HTTP requests, and the trouble
\* there is: peers that leave, operations that raise, crashes of the service.
Bounds == [messages : Nat, requests : Nat, trouble : Nat]

ASSUME SessionsAssumption ==
  /\ Devices \subseteq Macs
  /\ None \notin Macs \cup RemoteIds \cup {Blank} /\ Blank \notin RemoteIds
  /\ All \notin Macs \cup {None}
  /\ Sockets \cap Callers = {} /\ Poll \notin Sockets \cup Callers
  /\ TokenRequired \in BOOLEAN /\ PeriodicSync \in BOOLEAN
  /\ Queries \subseteq Info /\ Registries \subseteq Registry
  /\ Messages \subseteq {q \in Request : q.op \in MessageOps}
  /\ Requests \subseteq
       {q \in Request : \/ q.op \in RegistryOps \ SeenOps /\ q.rid # None
                           /\ (q.op = "bind" => q.target # None)
                        \/ q.op \in VpnOps /\ q.target # None /\ (q.op = "set" => q.vpn # None)}
  /\ Budgets \subseteq Bounds

-----------------------------------------------------------------------------
\* A broadcast in progress: the flags it read, the round it is in (one
\* device, or All), who is still to be sent this round, and the other rounds.
Out == [flags : Flags, round : Devices \cup {All}, to : SUBSET Sockets,
        rest : SUBSET Devices]

Labels == {"new", "auth", "setup", "recv", "idle", "load", "save", "resume",
           "failed", "wait", "release", "raised", "send", "closed"}

\* What a coroutine keeps: its remote and its target (sessions), a first
\* message that was read for its token, the operation in progress, the copy of
\* remotes.json its worker read, whether another worker has saved since (a
\* history variable), and whether it entered the try block of the endpoint.
Task == [pc : Labels, rid : Rids, target : Targets,
         first : Request \cup {None}, req : Request \cup {None},
         copy : Registry \cup {None}, stale : BOOLEAN, inLoop : BOOLEAN,
         out : Out \cup {None}]

Fresh(pc) == [pc |-> pc, rid |-> None, target |-> None, first |-> None,
              req |-> None, copy |-> None, stale |-> FALSE, inLoop |-> FALSE,
              out |-> None]

Absent == [known |-> FALSE, target |-> None, enabled |-> TRUE]
Unset  == [rid |-> None, target |-> None]

At(p, pc) == task[p].pc = pc

\* A step changes the local state of one coroutine.
Becomes(p, t) == task' = [task EXCEPT ![p] = t]

Spend(what) == left[what] > 0 /\ left' = [left EXCEPT ![what] = @ - 1]

\* A send to s raises: its peer has left, or its endpoint has returned.
Unreachable(s) == s \in gone \/ At(s, "closed")

\* The device a remote acts on.
Bound(reg, r) == IF r \in RemoteIds /\ reg[r].enabled THEN reg[r].target ELSE None

\* A mutant: a message without a target clears the binding.
AppliedClearing(reg, q) ==
  [reg EXCEPT ![q.rid] = [@ EXCEPT !.known = TRUE, !.target = q.target]]

\* What an operation makes of the list it read. Adding a remote enables it
\* unless the request says otherwise; an empty target is the same as unbind.
Applied(reg, q) ==
  LET old   == reg[q.rid]
      given == IF q.target # None THEN q.target ELSE old.target
  IN [reg EXCEPT ![q.rid] =
        CASE q.op \in SeenOps \cup {"bind"} ->
               [old EXCEPT !.known = TRUE, !.target = given]
          [] q.op = "unbind" -> [old EXCEPT !.target = None]
          [] q.op \in {"edit", "add"} ->
               [known |-> TRUE, target |-> given,
                enabled |-> IF q.enabled # None THEN q.enabled
                            ELSE q.op = "add" \/ old.enabled]
          [] OTHER -> Absent]

-----------------------------------------------------------------------------
\* The connection manager.

Register(s, r, t) ==
  /\ info' = IF s \in online THEN [info EXCEPT ![s] = [rid |-> r, target |-> t]] ELSE info
  /\ UNCHANGED online

\* Client s is sent the state of d, the list of all devices, or another message
\* if d is no known device.
Show(s, d) ==
  shown' = IF d = All THEN [shown EXCEPT ![s] = vpn]
           ELSE IF d \in Devices THEN [shown EXCEPT ![s] = [@ EXCEPT ![d] = vpn[d]]]
           ELSE shown

\* Where a coroutine goes when it is done with a message or a request.
Receiving(t) == [t EXCEPT !.pc = "recv", !.inLoop = TRUE, !.req = None,
                          !.copy = None, !.stale = FALSE, !.out = None]
Rest(p) == IF p \in Sockets THEN Receiving(task[p]) ELSE Fresh("idle")

\* The endpoint returns. Only the loop inside the try block disconnects.
Return(s, disconnects) ==
  /\ online' = IF disconnects THEN online \ {s} ELSE online
  /\ Becomes(s, Fresh("closed"))
  /\ UNCHANGED info

\* A mutant: targets that are no known device are broadcast too.
BroadcastTargets(round, rest) ==
  [flags |-> [d \in Macs |-> d \in Devices /\ vpn[d]], round |-> round, to |-> online,
   rest |-> rest]

\* A broadcast of the flags as they are now: a round of one device or of All,
\* then the rounds in rest. A round copies the clients when it starts.
Broadcast(round, rest) ==
  [flags |-> vpn, round |-> round, to |-> online, rest |-> rest]

\* The round a broadcast goes on with: its own, or the next of the device list.
Rounds(o) == IF o.to # {} THEN {o}
             ELSE {[o EXCEPT !.round = d, !.to = online, !.rest = @ \ {d}] : d \in o.rest}

\* A client is sent a device unless it is bound to another one.
Wants(s, round) == round = All \/ info[s].target \in {None, round}

\* A mutant: a client that is bound elsewhere is dropped.
SendToDropping(s, o) ==
  \/ Wants(s, o.round) /\ UNCHANGED online
     /\ shown' = [shown EXCEPT ![s] =
          IF o.round = All THEN o.flags ELSE [@ EXCEPT ![o.round] = o.flags[o.round]]]
  \/ ~Wants(s, o.round) /\ online' = online \ {s} /\ UNCHANGED shown

\* A mutant: a client that cannot be reached is kept.
SendToKeeping(s, o) ==
  /\ shown' = IF o.round = All /\ ~Unreachable(s) THEN [shown EXCEPT ![s] = o.flags] ELSE shown
  /\ UNCHANGED online

\* One message of the broadcast. A client that cannot be reached is dropped.
SendTo(s, o) ==
  \/ Wants(s, o.round) /\ Unreachable(s) /\ online' = online \ {s} /\ UNCHANGED shown
  \/ /\ Wants(s, o.round) /\ ~Unreachable(s)
     /\ shown' = [shown EXCEPT ![s] =
          IF o.round = All THEN o.flags ELSE [@ EXCEPT ![o.round] = o.flags[o.round]]]
     /\ UNCHANGED online
  \/ ~Wants(s, o.round) /\ UNCHANGED <<shown, online>>

\* p sends its broadcast o to one more client, and may be suspended then. With
\* nobody connected there is nothing to wait for.
Send(p, o) ==
  /\ \/ o.to = {} /\ online = {} /\ Becomes(p, Rest(p)) /\ UNCHANGED <<shown, online>>
     \/ \E n \in Rounds(o) : \E s \in n.to :
          /\ SendTo(s, n)
          /\ Becomes(p, IF n.to = {s} /\ n.rest = {} THEN Rest(p)
                        ELSE [task[p] EXCEPT !.pc = "send",
                                             !.out = [n EXCEPT !.to = @ \ {s}]])
  /\ UNCHANGED info

-----------------------------------------------------------------------------
\* The WebSocket endpoint, before its loop.

Connect(s, q) ==
  /\ At(s, "new")
  /\ online' = online \cup {s}
  /\ info' = [info EXCEPT ![s] = Unset]
  /\ Becomes(s, [Fresh(IF TokenRequired THEN "auth" ELSE "setup")
                   EXCEPT !.rid = q.rid, !.target = q.target])
  /\ UNCHANGED <<registry, vpn, network, lockQ, left>>

\* The first message is a hello with the token; the loop will read it again.
Authenticate(s, m) ==
  /\ At(s, "auth") /\ s \notin gone /\ m \in Messages /\ m.op = "hello"
  /\ Spend("messages")
  /\ Becomes(s, [task[s] EXCEPT !.pc = "setup", !.first = m,
                   !.rid = IF m.rid # None THEN m.rid ELSE @,
                   !.target = IF m.target # None THEN m.target ELSE @])
  /\ UNCHANGED <<registry, vpn, manager, network, lockQ>>

\* No hello within five seconds, or a wrong one.
Reject(s) ==
  /\ At(s, "auth")
  /\ Return(s, TRUE)
  /\ UNCHANGED <<registry, vpn, network, lockQ, left>>

\* The remote and the target of session t are registered and its client is sent
\* the state of d. If the send fails the endpoint returns; before its loop it
\* leaves the client behind.
Settle(s, t, d) ==
  \/ /\ ~Unreachable(s)
     /\ Register(s, t.rid, t.target) /\ Show(s, d)
     /\ Becomes(s, Receiving(t))
  \/ /\ Unreachable(s) /\ t.inLoop
     /\ Return(s, TRUE) /\ UNCHANGED shown
  \/ /\ Unreachable(s) /\ ~t.inLoop
     /\ Register(s, t.rid, t.target) /\ Becomes(s, Fresh("closed")) /\ UNCHANGED shown

Seen(r, t) == [op |-> "hello", rid |-> r, target |-> t, enabled |-> None,
               vpn |-> None]

Setup(s) ==
  /\ At(s, "setup")
  /\ \/ /\ task[s].rid # None
        /\ Becomes(s, [task[s] EXCEPT !.pc = "load",
                         !.req = Seen(task[s].rid, task[s].target)])
        /\ UNCHANGED <<manager, shown>>
     \/ /\ task[s].rid = None
        /\ Settle(s, task[s], IF task[s].target = None THEN All ELSE task[s].target)
  /\ UNCHANGED <<registry, vpn, gone, lockQ, left>>

-----------------------------------------------------------------------------
\* The messages of a session.

\* The next message: the one that authenticated, or one from the network.
Incoming(s, m) ==
  /\ At(s, "recv")
  /\ IF task[s].first # None
     THEN m = task[s].first /\ UNCHANGED left
     ELSE s \notin gone /\ Spend("messages")

Hello(s, m) ==
  LET t == [task[s] EXCEPT !.first = None,
              !.rid = IF m.rid # None THEN m.rid ELSE @,
              !.target = IF m.target # None THEN m.target ELSE @]
  IN
  /\ Incoming(s, m) /\ m.op = "hello"
  /\ \/ /\ t.rid # None
        /\ Becomes(s, [t EXCEPT !.pc = "load", !.req = [m EXCEPT !.rid = t.rid]])
        /\ UNCHANGED <<manager, shown>>
     \/ t.rid = None /\ Settle(s, t, t.target)
  /\ UNCHANGED <<registry, vpn, gone, lockQ>>

Ping(s, m) ==
  /\ Incoming(s, m) /\ m.op = "ping"
  /\ Becomes(s, IF task[s].rid = None THEN task[s]
                ELSE [task[s] EXCEPT !.pc = "load",
                                       !.req = [m EXCEPT !.rid = task[s].rid, !.target = None]])
  /\ UNCHANGED <<registry, vpn, manager, network, lockQ>>

\* The coroutine queues for state_lock.
Queue(p, t) == lockQ' = Append(lockQ, p) /\ Becomes(p, [t EXCEPT !.pc = "wait"])

Sync(s, m) ==
  /\ Incoming(s, m) /\ m.op = "sync"
  /\ Queue(s, [task[s] EXCEPT !.req = m])
  /\ UNCHANGED <<registry, vpn, manager, network>>

\* The device a command is for: the one it names, else the target of the
\* remote, read from the file, else that of the session.
Effective(s, m) ==
  IF m.target # None THEN m.target
  ELSE IF task[s].rid # None THEN Bound(registry, task[s].rid)
  ELSE task[s].target

\* get_state, set_vpn and toggle_vpn. Without a device the answer is
\* pairing_required, without the flag to set an error.
Command(s, m) ==
  LET d     == Effective(s, m)
      finds == m.target = None /\ task[s].rid # None
      t     == [task[s] EXCEPT !.target = IF finds THEN d ELSE @]
      acts  == d # None /\ m.op \in VpnOps /\ (m.op = "set" => m.vpn # None)
  IN
  /\ Incoming(s, m) /\ m.op \in VpnOps \cup {"get"}
  /\ IF finds THEN Register(s, task[s].rid, d) ELSE UNCHANGED manager
  /\ IF acts
     THEN Queue(s, [t EXCEPT !.req = [m EXCEPT !.target = d]]) /\ UNCHANGED shown
     ELSE /\ Becomes(s, t) /\ UNCHANGED lockQ
          /\ Show(s, IF m.op = "get" THEN d ELSE None)
  /\ UNCHANGED <<registry, vpn, gone>>

\* The peer has left.
Leave(s) ==
  /\ At(s, "recv") /\ s \in gone /\ task[s].first = None
  /\ Return(s, TRUE)
  /\ UNCHANGED <<registry, vpn, network, lockQ, left>>

\* What the peer sent is not a message, or is a hello with a wrong token.
Garbage(s) ==
  /\ At(s, "recv") /\ s \notin gone /\ task[s].first = None
  /\ Return(s, TRUE)
  /\ Spend("messages")
  /\ UNCHANGED <<registry, vpn, network, lockQ>>

\* The peer leaves; the endpoint learns it when it receives or sends.
HangUp(s) ==
  /\ task[s].pc \notin {"new", "closed"} /\ s \notin gone
  /\ gone' = gone \cup {s}
  /\ Spend("trouble")
  /\ UNCHANGED <<registry, vpn, manager, shown, lockQ, task>>

-----------------------------------------------------------------------------
\* HTTP requests and the periodic task.

Ask(c, q) ==
  /\ At(c, "idle") /\ q \in Requests
  /\ Spend("requests")
  /\ IF q.op \in RegistryOps
     THEN Becomes(c, [task[c] EXCEPT !.pc = "load", !.req = q]) /\ UNCHANGED lockQ
     ELSE Queue(c, [task[c] EXCEPT !.req = q])
  /\ UNCHANGED <<registry, vpn, manager, network>>

SyncAll == [op |-> "sync", rid |-> None, target |-> None, enabled |-> None,
            vpn |-> None]

Wake ==
  /\ PeriodicSync /\ At(Poll, "idle")
  /\ Queue(Poll, [task[Poll] EXCEPT !.req = SyncAll])
  /\ UNCHANGED <<registry, vpn, manager, network, left>>

-----------------------------------------------------------------------------
\* The operations on remotes.json, on a worker thread.

\* load_remotes. A blank remote_id is a ValueError, an unknown remote a KeyError,
\* or there is nothing to delete.
Load(p) ==
  LET q == task[p].req IN
  /\ At(p, "load")
  /\ Becomes(p, [task[p] EXCEPT !.copy = registry, !.stale = FALSE,
       !.pc = IF \/ q.rid = Blank
                 \/ q.op \in {"unbind", "edit", "delete"} /\ ~registry[q.rid].known
              THEN IF q.op = "delete" THEN "resume" ELSE "failed"
              ELSE "save"])
  /\ UNCHANGED <<registry, vpn, manager, network, lockQ, left>>

\* Every other worker that has read and not yet saved is stale from now on.
Saved(p, reg) ==
  /\ registry' = reg
  /\ task' = [o \in Tasks |->
                IF o = p THEN [task[p] EXCEPT !.pc = "resume", !.copy = reg]
                ELSE IF At(o, "save") THEN [task[o] EXCEPT !.stale = TRUE]
                ELSE task[o]]

Save(p) ==
  /\ At(p, "save")
  /\ Saved(p, Applied(task[p].copy, task[p].req))
  /\ UNCHANGED <<vpn, manager, network, lockQ, left>>

\* The file cannot be written.
SaveFails(p) ==
  /\ At(p, "save")
  /\ Spend("trouble")
  /\ Becomes(p, [task[p] EXCEPT !.pc = "failed"])
  /\ UNCHANGED <<registry, vpn, manager, network, lockQ>>

\* A mutant: register is forgotten after a ping.
ResumeUnregistered(s) ==
  LET d == Bound(task[s].copy, task[s].rid) IN
  /\ s \in Sockets /\ At(s, "resume") /\ ~Unreachable(s)
  /\ Becomes(s, [Receiving(task[s]) EXCEPT !.target = d])
  /\ UNCHANGED <<registry, vpn, manager, network, lockQ, left>>

\* register_remote_seen returns the record it saved.
Resume(s) ==
  LET d == Bound(task[s].copy, task[s].rid) IN
  /\ At(s, "resume")
  /\ Settle(s, [task[s] EXCEPT !.target = d], IF task[s].req.op = "hello" THEN d ELSE None)
  /\ UNCHANGED <<registry, vpn, gone, lockQ, left>>

\* The HTTP handler goes on with sync_and_broadcast_all.
Answer(c) ==
  /\ At(c, "resume")
  /\ Send(c, Broadcast(All, Devices))
  /\ UNCHANGED <<registry, vpn, gone, lockQ, left>>

\* A hello with a blank remote_id is answered with the error. In the loop the
\* session keeps the remote and the target that came with it and the manager
\* learns of neither; before the loop the session is registered as it is.
Refuse(s) ==
  /\ At(s, "failed") /\ task[s].rid = Blank /\ task[s].req.op = "hello"
  /\ IF task[s].inLoop
     THEN ~Unreachable(s) /\ Becomes(s, Receiving(task[s])) /\ UNCHANGED <<manager, shown>>
     ELSE Settle(s, task[s], task[s].target)
  /\ UNCHANGED <<registry, vpn, gone, lockQ, left>>

\* The operation raised, or its error cannot be sent: the endpoint returns, or
\* the client of the API gets an error.
Fail(p) ==
  /\ At(p, "failed")
  /\ p \in Sockets /\ task[p].rid = Blank /\ task[p].req.op = "hello" => Unreachable(p)
  /\ IF p \in Sockets THEN Return(p, task[p].inLoop)
     ELSE Becomes(p, Rest(p)) /\ UNCHANGED manager
  /\ UNCHANGED <<registry, vpn, network, lockQ, left>>

-----------------------------------------------------------------------------
\* The operations under state_lock.

First(p) == lockQ # <<>> /\ Head(lockQ) = p

\* The first waiter has the lock and its operation is done on a thread.
Change(p) ==
  LET q == task[p].req IN
  /\ At(p, "wait") /\ First(p)
  /\ q.op \in VpnOps => q.target \in Devices
  /\ vpn' = CASE q.op = "set"    -> [vpn EXCEPT ![q.target] = q.vpn]
              [] q.op = "toggle" -> [vpn EXCEPT ![q.target] = ~@]
              [] OTHER           -> vpn
  /\ Becomes(p, [task[p] EXCEPT !.pc = "release"])
  /\ UNCHANGED <<registry, manager, network, lockQ, left>>

\* It raises: the device is unknown, or a file cannot be written.
ChangeRaises(p) ==
  /\ At(p, "wait") /\ First(p)
  /\ \/ task[p].req.op \in VpnOps /\ task[p].req.target \notin Devices /\ UNCHANGED left
     \/ Spend("trouble")
  /\ Becomes(p, [task[p] EXCEPT !.pc = "raised"])
  /\ UNCHANGED <<registry, vpn, manager, network, lockQ>>

\* broadcast_device after a command, sync_and_broadcast_all after a sync.
Release(p) ==
  /\ At(p, "release")
  /\ lockQ' = Tail(lockQ)
  /\ Send(p, IF task[p].req.op = "sync" THEN Broadcast(All, Devices)
             ELSE Broadcast(task[p].req.target, {}))
  /\ UNCHANGED <<registry, vpn, gone, left>>

\* The broadcast cannot start: the devices cannot be read or synchronised.
BroadcastFails(p) ==
  /\ \/ At(p, "release") /\ lockQ' = Tail(lockQ)
     \/ p \in Callers /\ At(p, "resume") /\ UNCHANGED lockQ
  /\ Spend("trouble")
  /\ IF p \in Sockets THEN Return(p, TRUE) ELSE Becomes(p, Rest(p)) /\ UNCHANGED manager
  /\ UNCHANGED <<registry, vpn, network>>

Continue(p) ==
  /\ At(p, "send")
  /\ Send(p, task[p].out)
  /\ UNCHANGED <<registry, vpn, gone, lockQ, left>>

\* A mutant: the lock is not released when the operation raises.
RaisedHolding(p) ==
  /\ At(p, "raised")
  /\ Becomes(p, Rest(p))
  /\ UNCHANGED <<registry, vpn, manager, network, lockQ, left>>

\* A mutant: the periodic task ends when a sync raises.
RaisedEndsPoll(p) ==
  /\ At(p, "raised")
  /\ lockQ' = Tail(lockQ)
  /\ Becomes(p, IF p = Poll THEN Fresh("closed") ELSE Rest(p))
  /\ UNCHANGED <<registry, vpn, manager, network, left>>

\* The lock is released; a command is answered with the error, the loop of the
\* endpoint ends when a sync raised or the error cannot be sent, the periodic
\* task goes on.
Raised(p) ==
  /\ At(p, "raised")
  /\ lockQ' = Tail(lockQ)
  /\ IF p \in Sockets /\ (task[p].req.op = "sync" \/ Unreachable(p))
     THEN Return(p, TRUE)
     ELSE Becomes(p, Rest(p)) /\ UNCHANGED manager
  /\ UNCHANGED <<registry, vpn, network, left>>

-----------------------------------------------------------------------------
\* The service crashes and systemd restarts it: only the files survive.
Crash ==
  /\ Spend("trouble")
  /\ online' = {} /\ lockQ' = <<>>
  /\ task' = [p \in Tasks |->
       Fresh(IF p \notin Sockets THEN "idle" ELSE IF At(p, "new") THEN "new" ELSE "closed")]
  /\ UNCHANGED <<registry, vpn, info, network>>

Init ==
  /\ registry \in Registries
  /\ vpn = [d \in Devices |-> FALSE]
  /\ online = {} /\ info = [s \in Sockets |-> Unset]
  /\ shown = [s \in Sockets |-> [d \in Devices |-> None]] /\ gone = {}
  /\ lockQ = <<>>
  /\ task = [p \in Tasks |-> Fresh(IF p \in Sockets THEN "new" ELSE "idle")]
  /\ left \in Budgets

\* Messages of a peer.
Peer(s) ==
  \/ \E q \in Queries : Connect(s, q)
  \/ HangUp(s) \/ Garbage(s)
  \/ \E m \in Messages :
       Authenticate(s, m) \/ Hello(s, m) \/ Ping(s, m) \/ Sync(s, m) \/ Command(s, m)

\* What the service does by itself: threads, the lock, the loop.
Session(s) ==
  \/ Reject(s) \/ Setup(s) \/ Resume(s) \/ Refuse(s) \/ Leave(s)
  \/ task[s].first # None /\ Hello(s, task[s].first)

Proceed(p) ==
  \/ Load(p) \/ Save(p) \/ Fail(p)
  \/ Change(p) \/ ChangeRaises(p) \/ Release(p) \/ Raised(p)
  \/ Continue(p)

Next ==
  \/ \E s \in Sockets : Session(s) \/ Peer(s)
  \/ \E c \in Callers : Answer(c) \/ \E q \in Requests : Ask(c, q)
  \/ \E p \in Tasks : Proceed(p) \/ SaveFails(p) \/ BroadcastFails(p)
  \/ Wake \/ Crash

Spec == Init /\ [][Next]_vars

\* Threads run, the loop resumes what is ready and wakes the first waiter of
\* the lock, a receive notices that its peer has left or sent no hello in time,
\* and the periodic task wakes up again. Nothing is assumed of clients.
FairSpec ==
  /\ Spec
  /\ \A s \in Sockets : WF_vars(Session(s))
  /\ \A c \in Callers : WF_vars(Answer(c))
  /\ \A p \in Tasks : WF_vars(Proceed(p))
  /\ WF_vars(Wake)

-----------------------------------------------------------------------------
TypeOK ==
  /\ registry \in Registry /\ vpn \in Flags
  /\ online \subseteq Sockets /\ info \in [Sockets -> Info]
  /\ shown \in [Sockets -> [Devices -> BOOLEAN \cup {None}]]
  /\ gone \subseteq Sockets
  /\ lockQ \in Seq(Tasks)
  /\ task \in [Tasks -> Task]
  /\ left \in Bounds

\* The step in which p saves remotes.json.
Saves(p) == At(p, "save") /\ task'[p].pc = "resume"

\* An operation was asked to change the binding of remote r.
Asks(q, r) == q.rid = r /\ (q.op \in {"bind", "unbind", "delete"} \/ q.target # None)

\* The binding of a remote changes only when an operation on that remote asked
\* for it, or in a save that overlapped another one: register_remote_seen and
\* the operations of the API, however they interleave, never touch the binding
\* of a remote they are not about, and a ping or a hello without a target never
\* its own ("If target_mac is omitted, an existing binding is preserved").
BindingLostOnlyToOverlap ==
  [][\A r \in RemoteIds : registry'[r].target # registry[r].target =>
       \E p \in Tasks : Saves(p) /\ (task[p].stale \/ Asks(task[p].req, r))]_vars

\* In this step p goes on with a broadcast that is about one device.
SendsOne(p) ==
  \/ At(p, "release") /\ task'[p].pc # "release" /\ task[p].req.op \in VpnOps
  \/ At(p, "send") /\ task'[p] # task[p] /\ (task[p].out.to = {} \/ task[p].out.round # All)

\* While a session waits for messages, a broadcast about one device never shows
\* its client a device other than its own: the entry of the manager follows the
\* session through hello, ping and the commands that look the remote up. It does
\* not after a hello that was refused for a blank remote_id: that session goes on
\* with the target it asked for and is shown the device it had before.
ShownOwnDevice ==
  [][\A s \in Sockets, d \in Devices :
       /\ At(s, "recv") /\ task'[s].pc = "recv" /\ shown'[s][d] # shown[s][d]
       /\ \E p \in Tasks \ {s} : SendsOne(p)
       => task[s].target \in {None, d} \/ task[s].rid = Blank]_vars

\* A client whose peer is there and whose endpoint runs stays in the manager's
\* set, whatever broadcasts and other endpoints drop: it misses no update.
OpenSessionsListed ==
  \A s \in Sockets : task[s].pc \notin {"new", "closed"} /\ s \notin gone => s \in online

\* Every message, request and periodic sync comes to its end, also after
\* operations that raised under the lock and broadcasts to clients that left.
EveryTaskServed ==
  \A p \in Tasks : task[p].pc \notin {"new", "recv", "idle", "closed"}
                      ~> task[p].pc \in {"recv", "idle", "closed"}

\* A client whose endpoint has returned is forgotten by the manager, also when
\* the endpoint died before its loop: the next broadcasts find it unreachable.
ClosedForgotten ==
  \A s \in Sockets : At(s, "closed") ~> s \notin online

\* Broadcasts read the flags first and send them later, so they may arrive in
\* the wrong order; the periodic one brings every client up to date again.
ScreensCatchUp ==
  <>[](\A s \in online : shown[s] = vpn)

=============================================================================
