-------------------------- MODULE ProfileRegistry --------------------------
(***************************************************************************)
(* wireguard-clients.json: the names and routing modes of WireGuard        *)
(* clients, by public key and address.  Callers are requests of the panel, *)
(* a PATCH of a client or the import of names from wg0.conf, serialized by *)
(* state_lock; Tools are runs of sync-wireguard-client-names.py, another   *)
(* process, which takes no lock.  Each reads the whole file, changes its   *)
(* copy and writes the whole file.  How a mode is applied to the host is   *)
(* the subject of WireGuardRouting: here it is one step that may fail.     *)
(***************************************************************************)
EXTENDS ConfigNames

CONSTANTS Callers, Tools,  \* the processes
          Modes,           \* routing modes; "auto" is one of them
          Starts,          \* initial states: see Start
          Requests,        \* what callers ask for
          Arguments,       \* how tools are run
          Texts, Lives     \* what wg0.conf is edited to, the peers wg0 can have

VARIABLES file,      \* the profiles of wireguard-clients.json
          readable,  \* whether that file can be read and parsed
          text,      \* wg0.conf
          live,      \* the peers of "wg show wg0 dump"
          jobs,      \* the local state of every process
          lockQ,     \* state_lock: its holder, then the waiters in FIFO order
          left       \* what is left of the budget of the environment

vars        == <<file, readable, text, live, jobs, lockQ, left>>
environment == <<text, live>>

Processes == Callers \cup Tools

Profile == [key : Keys, ip : Ips, name : Names \cup {None}, mode : Modes]

\* A profile in the list a process works on: those of the file (new: 0) come
\* first, by address, then those that were appended, in that order.
Entry == [key : Keys, ip : Ips, name : Names \cup {None}, mode : Modes, new : Nat]
Before(e, f) == e.new < f.new \/ (e.new = f.new /\ e.ip <= f.ip)

\* A peer of the interface; None: it has no IPv4 address.
Peer == [key : Keys, ip : Ips \cup {None}]

\* Two of a set of profiles or peers have neither a key nor an address in common.
Alike(p, q) == p.key = q.key \/ p.ip = q.ip
Unique(S)   == \A p, q \in S : Alike(p, q) => p = q

Request == [op : {"patch", "names", "list"}, ip : Ips \cup {None},
            name : Names \cup {None}, mode : Modes \cup {None}, overwrite : BOOLEAN]

\* The bounds: requests, runs of the tool, changes of wg0.conf and wg0, and
\* operations that raise or files that are spoiled.
Bounds == [requests : Nat, tools : Nat, changes : Nat, trouble : Nat]

\* The interface routes an address to one peer.
PeerSets == {L \in SUBSET Peer : \A p, q \in L : p.ip = q.ip /\ p.ip # None => p = q}

Start == [file : SUBSET Profile, text : Seq(Lines), live : PeerSets, left : Bounds]

ASSUME RegistryAssumption ==
  /\ Callers \cap Tools = {} /\ "auto" \in Modes /\ None \notin Modes
  /\ Texts \subseteq Seq(Lines) /\ Lives \subseteq PeerSets
  /\ Starts \subseteq Start /\ \A s \in Starts : Unique(s.file)
  /\ Requests \subseteq {q \in Request : /\ q.op \in {"patch", "names"} /\ ~ q.overwrite
                                         /\ q.op = "patch" => q.ip # None
                                         /\ q.op = "patch" => q.name # None \/ q.mode # None}
  /\ Arguments \subseteq {q \in Request : q.op \in {"names", "list"}}

-----------------------------------------------------------------------------
Labels == {"idle", "wait", "status", "route", "show", "conf", "load", "merge", "save",
           "refresh", "release"}

\* What a process keeps: its request, the peer a PATCH found and what the
\* status shows of it, the peers of wg0.conf and the next to look at, its list
\* of profiles, whether that differs from what it read, and what the PATCH
\* answers. Two history variables: "stale", whether the file was unreadable
\* when it was loaded, or the tool and the panel overlapped since; "disturbed",
\* the same since the PATCH first looked, or the peers changed.
Idle == [pc |-> "idle", req |-> None, peer |-> None, peers |-> <<>>, next |-> 1,
         list |-> {}, changed |-> FALSE, answer |-> None,
         stale |-> FALSE, disturbed |-> FALSE]

At(p, pc) == jobs[p].pc = pc
Becomes(p, j) == jobs' = [jobs EXCEPT ![p] = j]

Spend(what) == left[what] > 0 /\ left' = [left EXCEPT ![what] = @ - 1]

\* A mutant: a request that fails keeps the lock.
EndedHolding(p, j) == [Idle EXCEPT !.pc = IF j.answer # None THEN "release" ELSE "idle"]

\* A request ends by leaving the lock, a run of the tool ends at once.
Ended(p, j) == IF p \in Callers THEN [j EXCEPT !.pc = "release"] ELSE Idle

-----------------------------------------------------------------------------
\* The file and the list.

\* load_wireguard_profiles: a file that cannot be read or parsed counts as empty.
Loaded == IF readable THEN file ELSE {}

Listed(F)   == {[key |-> p.key, ip |-> p.ip, name |-> p.name, mode |-> p.mode, new |-> 0] : p \in F}
Unlisted(L) == {[key |-> e.key, ip |-> e.ip, name |-> e.name, mode |-> e.mode] : e \in L}

\* The profile of a peer: by its key, else by its address.
ProfileOf(F, key, ip) ==
  LET ofKey == {p \in F : p.key = key}
      found == IF ofKey # {} THEN ofKey ELSE {p \in F : p.ip = ip}
  IN  IF found # {} THEN CHOOSE p \in found : TRUE
      ELSE [key |-> key, ip |-> ip, name |-> None, mode |-> "auto"]

\* A mutant: by its address, else by its key.
ProfileByIp(F, key, ip) ==
  LET ofIp == {p \in F : p.ip = ip}
      found == IF ofIp # {} THEN ofIp ELSE {p \in F : p.key = key}
  IN  IF found # {} THEN CHOOSE p \in found : TRUE
      ELSE [key |-> key, ip |-> ip, name |-> None, mode |-> "auto"]

\* The same lookup where upsert_wireguard_profile makes it.
Existing(F, key, ip) == ProfileOf(F, key, ip)

\* get_wireguard_status: what it shows of a peer.
Shown(peer) == LET p == ProfileOf(Loaded, peer.key, peer.ip)
               IN  [key |-> peer.key, ip |-> peer.ip, name |-> p.name, mode |-> p.mode]

\* A mutant: replace only what shares the key.
PutByKey(L, e) == {q \in L : q.key # e.key} \cup {e}

\* Replace whatever shares the key or the address.
Put(L, e) == {q \in L : ~ Alike(q, e)} \cup {e}

\* upsert_wireguard_profile, on the profiles it loads.
Upserted(F, j) ==
  LET p == Existing(F, j.peer.key, j.peer.ip)
  IN  Put(Listed(F),
          [key |-> j.peer.key, ip |-> j.peer.ip,
           name |-> IF j.req.name # None THEN j.req.name ELSE p.name,
           mode |-> IF j.req.mode # None THEN j.req.mode ELSE p.mode,
           new |-> 1])

\* The profile the import takes for that of a peer: the first in the list that
\* has the key or the address.
Matching(L, c) == {e \in L : Alike(e, c)}
FirstOf(L) == CHOOSE e \in L : \A f \in L : Before(e, f)

\* A mutant: only a name that is the same is kept.
PreservedSame(L, c, overwrite) ==
  Matching(L, c) # {} /\ FirstOf(Matching(L, c)).name = c.name

\* A name is kept unless it is to be overwritten.
Preserved(L, c, overwrite) ==
  Matching(L, c) # {} /\ LET e == FirstOf(Matching(L, c))
                         IN  e.name = c.name \/ (e.name # None /\ ~ overwrite)

\* A mutant: the mode is forgotten.
ImportAuto(L, c) == "auto"

\* The mode an import gives a profile is the one it finds.
ImportMode(L, c) ==
  IF Matching(L, c) = {} THEN "auto" ELSE FirstOf(Matching(L, c)).mode

\* sync_wireguard_client_names, for the n-th peer of wg0.conf.
Imported(L, c, n) ==
  Put(L, [key |-> c.key, ip |-> c.ip, name |-> c.name, mode |-> ImportMode(L, c), new |-> n])

-----------------------------------------------------------------------------
\* Other processes learn that p changes the file: whoever has a copy, if p or
\* it is a run of the tool, and whoever has looked at the status.
Across(p, q) == p \in Tools \/ q \in Tools
SavedBy(p, j) ==
  jobs' = [q \in Processes |->
             IF q = p THEN j
             ELSE [jobs[q] EXCEPT !.stale = @ \/ Across(p, q),
                                  !.disturbed = @ \/ Across(p, q)]]

\* A step that raises (the file or the command it needs is not there, or what
\* the request asks for is refused): the operation ends.
Raise(p) ==
  /\ Spend("trouble")
  /\ Becomes(p, Ended(p, jobs[p]))
  /\ UNCHANGED <<file, readable, environment, lockQ>>

\* PATCH /api/wireguard/clients/{ip} or POST .../sync-names.
Ask(p) ==
  /\ p \in Callers /\ At(p, "idle") /\ Spend("requests")
  /\ \E q \in Requests : Becomes(p, [Idle EXCEPT !.pc = "wait", !.req = q])
  /\ lockQ' = Append(lockQ, p)
  /\ UNCHANGED <<file, readable, environment>>

\* A mutant: a request goes on without the lock.
EnterAnyway(p) ==
  /\ At(p, "wait")
  /\ Becomes(p, [jobs[p] EXCEPT !.pc = IF jobs[p].req.op = "patch" THEN "status" ELSE "conf"])
  /\ UNCHANGED <<file, readable, environment, lockQ, left>>

\* The head of the queue holds the lock.
Enter(p) ==
  /\ At(p, "wait") /\ Head(lockQ) = p
  /\ Becomes(p, [jobs[p] EXCEPT !.pc = IF jobs[p].req.op = "patch" THEN "status" ELSE "conf"])
  /\ UNCHANGED <<file, readable, environment, lockQ, left>>

\* sync-wireguard-client-names.py reads wg0.conf a first time to list it.
RunTool(p) ==
  /\ p \in Tools /\ At(p, "idle") /\ Spend("tools")
  /\ \E q \in Arguments : Becomes(p, [Idle EXCEPT !.pc = "show", !.req = q])
  /\ UNCHANGED <<file, readable, environment, lockQ>>

List(p) ==
  /\ At(p, "show")
  /\ \/ /\ Becomes(p, IF jobs[p].req.op = "list" THEN Idle ELSE [jobs[p] EXCEPT !.pc = "conf"])
        /\ UNCHANGED <<file, readable, environment, lockQ, left>>
     \/ Raise(p)

\* The PATCH looks for the peer among those the status shows.
FindPeer(p) ==
  /\ At(p, "status")
  /\ LET here == {peer \in live : peer.ip = jobs[p].req.ip} IN
       \/ /\ here # {}
          /\ \E peer \in here :
               Becomes(p, [jobs[p] EXCEPT
                 !.pc = IF jobs[p].req.mode # None THEN "route" ELSE "load",
                 !.peer = Shown(peer), !.disturbed = ~ readable])
          /\ UNCHANGED <<file, readable, environment, lockQ, left>>
       \/ /\ here = {}
          /\ Becomes(p, Ended(p, jobs[p]))
          /\ UNCHANGED <<file, readable, environment, lockQ, left>>
       \/ Raise(p)

\* The mode is applied, or it is refused and taken back (409).
ApplyMode(p) ==
  /\ At(p, "route")
  /\ \/ /\ Becomes(p, [jobs[p] EXCEPT !.pc = "load"])
        /\ UNCHANGED <<file, readable, environment, lockQ, left>>
     \/ Raise(p)

\* load_wireguard_config_peers.
ReadConfig(p) ==
  /\ At(p, "conf")
  /\ \/ /\ Becomes(p, [jobs[p] EXCEPT !.pc = "load", !.peers = Parsed(text)])
        /\ UNCHANGED <<file, readable, environment, lockQ, left>>
     \/ Raise(p)

\* An import goes through the peers one by one; upsert changes its list at once.
Load(p) ==
  /\ At(p, "load")
  /\ Becomes(p, IF jobs[p].req.op = "patch"
                THEN [jobs[p] EXCEPT !.pc = "save", !.list = Upserted(Loaded, jobs[p]),
                                     !.stale = ~ readable]
                ELSE [jobs[p] EXCEPT !.pc = "merge", !.list = Listed(Loaded),
                                     !.stale = ~ readable])
  /\ UNCHANGED <<file, readable, environment, lockQ, left>>

Import(p) ==
  /\ At(p, "merge")
  /\ LET j == jobs[p]
         c == j.peers[j.next]
     IN  Becomes(p,
           IF j.next \notin DOMAIN j.peers
           THEN IF j.changed THEN [j EXCEPT !.pc = "save"] ELSE Ended(p, j)
           ELSE IF c.name = None \/ Preserved(j.list, c, j.req.overwrite)
           THEN [j EXCEPT !.next = @ + 1]
           ELSE [j EXCEPT !.next = @ + 1, !.changed = TRUE,
                          !.list = Imported(@, c, j.next)])
  /\ UNCHANGED <<file, readable, environment, lockQ, left>>

\* save_wireguard_profiles replaces the file in one step, or fails.
Save(p) ==
  /\ At(p, "save")
  /\ \/ /\ file' = Unlisted(jobs[p].list) /\ readable' = TRUE
        /\ SavedBy(p, IF jobs[p].req.op = "patch" THEN [jobs[p] EXCEPT !.pc = "refresh"]
                      ELSE Ended(p, jobs[p]))
        /\ UNCHANGED <<environment, lockQ, left>>
     \/ Raise(p)

\* The PATCH answers with the peer as the status shows it now, still under the
\* lock, or says that the client disappeared.
Refresh(p) ==
  /\ At(p, "refresh")
  /\ \/ /\ LET here == {peer \in live : peer.ip = jobs[p].req.ip} IN
             IF here = {} THEN Becomes(p, Ended(p, jobs[p]))
             ELSE \E peer \in here :
                    Becomes(p, Ended(p, [jobs[p] EXCEPT !.answer = Shown(peer)]))
        /\ UNCHANGED <<file, readable, environment, lockQ, left>>
     \/ Raise(p)

Release(p) ==
  /\ At(p, "release")
  /\ lockQ' = Tail(lockQ) /\ Becomes(p, Idle)
  /\ UNCHANGED <<file, readable, environment, left>>

-----------------------------------------------------------------------------
\* The administrator edits wg0.conf, or the peers of the interface.
EditConfig ==
  /\ Spend("changes") /\ text' \in Texts \ {text}
  /\ UNCHANGED <<file, readable, live, jobs, lockQ>>

ChangePeers ==
  /\ Spend("changes") /\ live' \in Lives \ {live}
  /\ jobs' = [q \in Processes |-> [jobs[q] EXCEPT !.disturbed = TRUE]]
  /\ UNCHANGED <<file, readable, text, lockQ>>

\* The file is left unreadable, or edited so that it does not parse.
Spoil ==
  /\ Spend("trouble") /\ readable /\ readable' = FALSE
  /\ jobs' = [q \in Processes |-> [jobs[q] EXCEPT !.disturbed = TRUE]]
  /\ UNCHANGED <<file, environment, lockQ>>

-----------------------------------------------------------------------------
Init ==
  /\ \E s \in Starts : file = s.file /\ text = s.text /\ live = s.live /\ left = s.left
  /\ readable = TRUE
  /\ jobs = [p \in Processes |-> Idle]
  /\ lockQ = <<>>

Step(p) ==
  \/ Enter(p) \/ List(p) \/ FindPeer(p) \/ ApplyMode(p) \/ ReadConfig(p) \/ Load(p)
  \/ Import(p) \/ Save(p) \/ Refresh(p) \/ Release(p)

Next ==
  \/ \E p \in Processes : Ask(p) \/ RunTool(p) \/ Step(p)
  \/ EditConfig \/ ChangePeers \/ Spoil

Spec == Init /\ [][Next]_vars

\* The event loop and its worker threads run on, and so does the tool.
FairSpec == Spec /\ \A p \in Processes : WF_vars(Step(p))

-----------------------------------------------------------------------------
TypeOK ==
  /\ file \subseteq Profile /\ readable \in BOOLEAN
  /\ text \in Seq(Lines) /\ live \in PeerSets /\ left \in Bounds
  /\ lockQ \in Seq(Callers)
  /\ DOMAIN jobs = Processes
  /\ \A p \in Processes :
       LET j == jobs[p] IN
       /\ j.pc \in Labels /\ j.req \in Request \cup {None}
       /\ j.peer # None => j.peer.key \in Keys /\ j.peer.mode \in Modes
       /\ j.peers \in Seq(ConfigPeer) /\ j.next \in 1..(Len(j.peers) + 1)
       /\ j.list \subseteq Entry
       /\ {j.changed, j.stale, j.disturbed} \subseteq BOOLEAN

\* No two profiles of the file ever have a key or an address in common, which
\* the lookups of the status, of a PATCH and of an import all rely on.
UniqueProfiles == Unique(file)

\* What parse_wireguard_config makes of wg0.conf is what its sections and
\* comments say: no name crosses over to a peer it was not written for, but for
\* the comments the parser leaves waiting.
NamesAsWritten == ReadRight(text)

\* p's save replaces the file.
Saves(p) == At(p, "save") /\ jobs'[p].pc # "save" /\ readable' /\ left' = left

\* The profiles the save of job j is about.
Named(j) == {n \in DOMAIN j.peers : j.peers[n].name # None}
About(j, q) ==
  IF j.req.op = "patch" THEN Alike(q, j.peer) ELSE \E n \in Named(j) : Alike(q, j.peers[n])

\* A save changes the profile of a client it is not about only if the tool and
\* the panel overlapped, or the file was unreadable when it was loaded: under
\* state_lock a PATCH and an import of names never undo each other's changes.
OthersLostOnlyToTool ==
  [][\A p \in Processes :
       Saves(p) /\ ~ jobs[p].stale =>
         \A q \in (file \ file') \cup (file' \ file) : About(jobs[p], q)]_vars

\* An ordinary import never replaces a name: a profile with a name goes only when
\* a peer of wg0.conf has its key and the address of a profile without a name
\* that comes first, or the other way round.
NamesKept ==
  [][\A p \in Processes :
       Saves(p) /\ ~ jobs[p].stale /\ jobs[p].req.op = "names" /\ ~ jobs[p].req.overwrite =>
         \A q \in file \ file' :
           q.name # None =>
             \E r \in file, n \in Named(jobs[p]) :
               /\ r.name = None /\ r.ip < q.ip
               /\ Alike(r, jobs[p].peers[n]) /\ Alike(q, jobs[p].peers[n])]_vars

\* An import changes no routing mode: a key that keeps its address keeps its mode
\* as well, as long as no two named peers of wg0.conf share a key or an address.
ModesKept ==
  [][\A p \in Processes :
       /\ Saves(p) /\ ~ jobs[p].stale /\ jobs[p].req.op = "names"
       /\ \A m, n \in Named(jobs[p]) : Alike(jobs[p].peers[m], jobs[p].peers[n]) => m = n
       => \A q \in file, r \in file' : q.key = r.key /\ q.ip = r.ip => q.mode = r.mode]_vars

\* The answer to a PATCH shows what was asked for, and for what was left out
\* what the status showed before, unless something else happened meanwhile.
PatchAnswers ==
  \A p \in Callers :
    At(p, "release") /\ jobs[p].answer # None /\ ~ jobs[p].disturbed =>
      LET j == jobs[p] IN
      /\ j.answer.key = j.peer.key
      /\ j.answer.name = IF j.req.name # None THEN j.req.name ELSE j.peer.name
      /\ j.answer.mode = IF j.req.mode # None THEN j.req.mode ELSE j.peer.mode

\* Every request is answered and every run of the tool ends, whatever fails.
JobsEnd == \A p \in Processes : ~ At(p, "idle") ~> At(p, "idle")

=============================================================================
