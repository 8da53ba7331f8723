----------------------------- MODULE SafeUpdate -----------------------------
(***************************************************************************)
(* scripts/update-safe.sh: it builds and smoke-tests a release beside the  *)
(* running one, links the application path to it, restarts the service,    *)
(* verifies it, and goes back when a command fails or a signal comes. A    *)
(* file lock keeps two updaters apart. Bash runs a trap after the command  *)
(* in progress, so a signal is seen between any two steps; on_error resets *)
(* the traps first, so a second one kills the updater.                     *)
(***************************************************************************)
EXTENDS Naturals

CONSTANTS Updaters,  \* invocations of the script; each builds a release
          Initial,   \* the release in production at first
          Down,      \* the service between two runs
          Free,      \* no process at the lock or the smoke-test port, no path
          Budget     \* bounds on the environment: see Bounds

VARIABLES app,      \* the application path: a link, a directory, or nothing
          disk,     \* how far the release of every updater is built
          running,  \* the release the service runs
          lock,     \* the holder of LOCK_FILE
          smoke,    \* the updater whose smoke-test server listens
          up,       \* the local state of every updater
          left      \* what is left of Budget

vars == <<app, disk, running, lock, smoke, up, left>>
production == <<app, running>>

Releases == Updaters \cup {Initial}

Paths == [kind : {"link", "dir", "none"}, to : Releases]

\* Commands that fail, INT or TERM signals, updaters that are killed, crashes
\* of the service.
Bounds == [faults : Nat, signals : Nat, kills : Nat, crashes : Nat]

ASSUME UpdateAssumption ==
  /\ Initial \notin Updaters /\ Down \notin Releases /\ Free \notin Releases
  /\ Budget \in Bounds

Preparing == {"clone", "test", "smoke", "prepared"}
Switching == {"check", "record", "relink", "linked", "aside", "moved", "place",
              "restart", "verify"}
Restoring == {"restore", "unlinked", "again", "clean"}
Ended     == {"done", "failed", "killed"}

\* Under the traps on_error handles ERR, INT and TERM.
Trapped == {"lock"} \cup Preparing \cup Switching
Active  == Trapped \cup Restoring

\* activate: the --activate mode; build: BUILD_DIR is set; switched:
\* SWITCH_COMPLETED; wasLink: OLD_PATH_WAS_SYMLINK; old: the release in
\* OLD_TARGET or LEGACY_TARGET, once there is one.
Local == [pc : {"idle"} \cup Active \cup Ended, activate : BOOLEAN,
          build : BOOLEAN, switched : BOOLEAN, wasLink : BOOLEAN,
          old : Releases \cup {Free}]

Fresh == [pc |-> "idle", activate |-> FALSE, build |-> FALSE, switched |-> FALSE,
          wasLink |-> FALSE, old |-> Free]

At(u, label) == up[u].pc = label
Becomes(u, l) == up' = [up EXCEPT ![u] = l]
Goes(u, label) == Becomes(u, [up[u] EXCEPT !.pc = label])

Spend(what) == left[what] > 0 /\ left' = [left EXCEPT ![what] = @ - 1]

\* A process that ends closes its lock file, but the smoke-test server inherited
\* the descriptor: the lock is held while one of the two lives.
Released(u) == IF lock = u /\ smoke # u THEN Free ELSE lock

-----------------------------------------------------------------------------
\* main and prepare_release.

Start(u) ==
  /\ At(u, "idle")
  /\ \E activate \in BOOLEAN :
       Becomes(u, [Fresh EXCEPT !.pc = "lock", !.activate = activate])
  /\ UNCHANGED <<production, disk, lock, smoke, left>>

\* A mutant: the lock is opened, but nobody looks at the result of flock.
TakeLockAnyway(u) ==
  /\ At(u, "lock")
  /\ lock' = u /\ Goes(u, "clone")
  /\ UNCHANGED <<production, disk, smoke, left>>

\* flock -n: an update that is already running sends this one to on_error.
TakeLock(u) ==
  /\ At(u, "lock")
  /\ \/ lock = Free /\ lock' = u /\ Goes(u, "clone")
     \/ lock # Free /\ UNCHANGED lock /\ Goes(u, "restore")
  /\ UNCHANGED <<production, disk, smoke, left>>

Clone(u) ==
  /\ At(u, "clone")
  /\ disk' = [disk EXCEPT ![u] = "partial"]
  /\ Becomes(u, [up[u] EXCEPT !.build = TRUE, !.pc = "test"])
  /\ UNCHANGED <<production, lock, smoke, left>>

\* The tests have passed. That the smoke-test port is free of other updaters'
\* servers is LockProtects; another program that listens there is a Fail.
StartSmoke(u) ==
  /\ At(u, "test")
  /\ smoke' = u /\ Goes(u, "smoke")
  /\ UNCHANGED <<production, disk, lock, left>>

\* The server answered: it is stopped, and the release is complete.
Prepared(u) ==
  /\ At(u, "smoke")
  /\ smoke' = Free
  /\ disk' = [disk EXCEPT ![u] = "ready"]
  /\ Becomes(u, [up[u] EXCEPT !.build = FALSE, !.pc = "prepared"])
  /\ UNCHANGED <<production, lock, left>>

PrepareOnly(u) ==
  /\ At(u, "prepared") /\ ~ up[u].activate
  /\ lock' = Released(u) /\ Goes(u, "done")
  /\ UNCHANGED <<production, disk, smoke, left>>

Activate(u) ==
  /\ At(u, "prepared") /\ up[u].activate
  /\ Goes(u, "check")
  /\ UNCHANGED <<production, disk, lock, smoke, left>>

-----------------------------------------------------------------------------
\* activate_release and switch_release.

\* The route and the service are checked, and the state is backed up.
Check(u) ==
  /\ At(u, "check")
  /\ Goes(u, IF running # Down THEN "record" ELSE "restore")
  /\ UNCHANGED <<production, disk, lock, smoke, left>>

\* A mutant: the place of a directory that is moved aside is forgotten.
RecordLinkOnly(u) ==
  /\ At(u, "record")
  /\ IF app.kind = "link"
     THEN Becomes(u, [up[u] EXCEPT !.wasLink = TRUE, !.old = app.to, !.pc = "relink"])
     ELSE Becomes(u, [up[u] EXCEPT !.pc = "aside"])
  /\ UNCHANGED <<production, disk, lock, smoke, left>>

\* What the path is now decides how the switch goes, and how it is undone.
Record(u) ==
  /\ At(u, "record")
  /\ CASE app.kind = "link" ->
            Becomes(u, [up[u] EXCEPT !.wasLink = TRUE, !.old = app.to, !.pc = "relink"])
       [] app.kind = "dir" ->
            Becomes(u, [up[u] EXCEPT !.wasLink = FALSE, !.old = app.to, !.pc = "aside"])
       [] OTHER -> Goes(u, "restore")
  /\ UNCHANGED <<production, disk, lock, smoke, left>>

\* mv -Tf renames the new link over the old one.
Relink(u) ==
  /\ At(u, "relink")
  /\ app' = [kind |-> "link", to |-> u] /\ Goes(u, "linked")
  /\ UNCHANGED <<disk, running, lock, smoke, left>>

\* SWITCH_COMPLETED=1, a command of its own.
MarkLinked(u) ==
  /\ At(u, "linked")
  /\ Becomes(u, [up[u] EXCEPT !.switched = TRUE, !.pc = "restart"])
  /\ UNCHANGED <<production, disk, lock, smoke, left>>

\* A directory is moved aside, SWITCH_COMPLETED=1, and the link takes its place.
MoveAside(u) ==
  /\ At(u, "aside")
  /\ app' = [app EXCEPT !.kind = "none"] /\ Goes(u, "moved")
  /\ UNCHANGED <<disk, running, lock, smoke, left>>

MarkMoved(u) ==
  /\ At(u, "moved")
  /\ Becomes(u, [up[u] EXCEPT !.switched = TRUE, !.pc = "place"])
  /\ UNCHANGED <<production, disk, lock, smoke, left>>

Place(u) ==
  /\ At(u, "place")
  /\ app' = [kind |-> "link", to |-> u] /\ Goes(u, "restart")
  /\ UNCHANGED <<disk, running, lock, smoke, left>>

\* systemctl restart runs what the path leads to, if it leads anywhere.
Restarted == IF app.kind = "none" THEN Down ELSE app.to

\* A mutant: the service goes on with the old release.
RestartNever(u) ==
  /\ At(u, "restart")
  /\ Goes(u, "verify")
  /\ UNCHANGED <<production, disk, lock, smoke, left>>

Restart(u) ==
  /\ At(u, "restart")
  /\ running' = Restarted /\ Goes(u, "verify")
  /\ UNCHANGED <<app, disk, lock, smoke, left>>

\* Health, WireGuard route and tables are verified (a failure is Fail).
Verify(u) ==
  /\ At(u, "verify")
  /\ running # Down
  /\ lock' = Released(u) /\ Goes(u, "done")
  /\ UNCHANGED <<production, disk, smoke, left>>

\* The 20 or 15 attempts of a verification run out.
GiveUp(u) ==
  /\ At(u, "verify")
  /\ Goes(u, "restore")
  /\ UNCHANGED <<production, disk, lock, smoke, left>>

-----------------------------------------------------------------------------
\* on_error and restore_previous_release.

\* A command fails, or a signal comes, while the traps are set.
Fail(u) ==
  /\ up[u].pc \in Trapped
  /\ Spend("faults") \/ Spend("signals")
  /\ Goes(u, "restore")
  /\ UNCHANGED <<production, disk, lock, smoke>>

\* A mutant: the previous release is restored whatever had been switched.
RestoreAlways(u) ==
  /\ At(u, "restore")
  /\ smoke' = IF smoke = u THEN Free ELSE smoke
  /\ app' = [kind |-> "link", to |-> up[u].old] /\ Goes(u, "again")
  /\ UNCHANGED <<disk, running, lock, left>>

\* The smoke-test server is stopped. After a switch the old link is renamed
\* over the new one, or the new link is removed to make room for the directory.
Restore(u) ==
  /\ At(u, "restore")
  /\ smoke' = IF smoke = u THEN Free ELSE smoke
  /\ \/ /\ ~ up[u].switched
        /\ UNCHANGED app /\ Goes(u, "clean")
     \/ /\ up[u].switched /\ up[u].wasLink
        /\ app' = [kind |-> "link", to |-> up[u].old] /\ Goes(u, "again")
     \/ /\ up[u].switched /\ ~ up[u].wasLink
        /\ app' = [app EXCEPT !.kind = "none"] /\ Goes(u, "unlinked")
  /\ UNCHANGED <<disk, running, lock, left>>

MoveBack(u) ==
  /\ At(u, "unlinked")
  /\ app' = [kind |-> "dir", to |-> up[u].old] /\ Goes(u, "again")
  /\ UNCHANGED <<disk, running, lock, smoke, left>>

\* A mutant: the release is restored but the service goes on with the new one.
RestartAgainNever(u) ==
  /\ At(u, "again")
  /\ Goes(u, "clean")
  /\ UNCHANGED <<production, disk, lock, smoke, left>>

RestartAgain(u) ==
  /\ At(u, "again")
  /\ running' = Restarted /\ Goes(u, "clean")
  /\ UNCHANGED <<app, disk, lock, smoke, left>>

\* A mutant: the candidate is removed on every failure.
CleanAlways(u) ==
  /\ At(u, "clean")
  /\ disk' = [disk EXCEPT ![u] = "absent"]
  /\ lock' = Released(u) /\ Goes(u, "failed")
  /\ UNCHANGED <<production, smoke, left>>

\* An unfinished build is removed, and the updater exits.
Clean(u) ==
  /\ At(u, "clean")
  /\ disk' = IF up[u].build THEN [disk EXCEPT ![u] = "absent"] ELSE disk
  /\ lock' = Released(u) /\ Goes(u, "failed")
  /\ UNCHANGED <<production, smoke, left>>

\* HUP, KILL, or INT and TERM once the traps are reset: nothing is undone.
Kill(u) ==
  /\ up[u].pc \in Active
  /\ \/ Spend("kills")
     \/ up[u].pc \in Restoring /\ Spend("signals")
  /\ lock' = Released(u) /\ Goes(u, "killed")
  /\ UNCHANGED <<production, disk, smoke>>

-----------------------------------------------------------------------------
\* systemd.

ServiceCrash ==
  /\ running # Down /\ Spend("crashes")
  /\ running' = Down
  /\ UNCHANGED <<app, disk, lock, smoke, up>>

ServiceStart ==
  /\ running = Down /\ app.kind # "none"
  /\ running' = app.to
  /\ UNCHANGED <<app, disk, lock, smoke, up, left>>

-----------------------------------------------------------------------------
Init ==
  /\ app \in [kind : {"link", "dir"}, to : {Initial}]
  /\ disk = [u \in Updaters |-> "absent"]
  /\ running = Initial
  /\ lock = Free /\ smoke = Free
  /\ up = [u \in Updaters |-> Fresh]
  /\ left = Budget

Prepare(u) == TakeLock(u) \/ Clone(u) \/ StartSmoke(u) \/ Prepared(u)
                \/ PrepareOnly(u) \/ Activate(u)
Switch(u)  == Check(u) \/ Record(u) \/ Relink(u) \/ MarkLinked(u) \/ MoveAside(u)
                \/ MarkMoved(u) \/ Place(u) \/ Restart(u) \/ Verify(u) \/ GiveUp(u)
Undo(u)    == Restore(u) \/ MoveBack(u) \/ RestartAgain(u) \/ Clean(u)
Step(u)    == Prepare(u) \/ Switch(u) \/ Undo(u)

Next ==
  \/ \E u \in Updaters : Start(u) \/ Step(u) \/ Fail(u) \/ Kill(u)
  \/ ServiceCrash \/ ServiceStart

Spec == Init /\ [][Next]_vars

\* The script goes on, and systemd starts the service again.
Fairness == (\A u \in Updaters : WF_vars(Step(u))) /\ WF_vars(ServiceStart)

FairSpec == Spec /\ Fairness

-----------------------------------------------------------------------------
\* Properties.

\* Every variable has the shape the script gives it, and after a switch the
\* release to go back to is known.
TypeOK ==
  /\ app \in Paths
  /\ disk \in [Updaters -> {"absent", "partial", "ready"}]
  /\ running \in Releases \cup {Down}
  /\ lock \in Updaters \cup {Free} /\ smoke \in Updaters \cup {Free}
  /\ up \in [Updaters -> Local] /\ left \in Bounds
  /\ \A u \in Updaters : up[u].switched => up[u].old \in Releases

\* One updater at a time is past the lock, and it finds no smoke-test server of
\* another one on the port: a server that outlives its updater keeps the lock.
LockProtects ==
  /\ \A u \in Updaters : up[u].pc \in Preparing \cup Switching => lock = u
  /\ smoke # Free => lock = smoke

Complete(r) == r \in Updaters => disk[r] = "ready"

\* Neither the path nor the service ever leads to a release whose build is not
\* finished, or was removed again, whenever updaters fail or are killed.
CompleteReleases ==
  /\ app.kind # "none" => Complete(app.to)
  /\ running # Down => Complete(running)

\* An updater that does not hold the lock never touches production: its on_error
\* has nothing to restore.
OnlyHolderSwitches ==
  [][app' # app => \E u \in Updaters : lock = u /\ up'[u] # up[u]]_vars

\* An updater that ended after SWITCH_COMPLETED=1 has put back the release it
\* found, as a link or a directory, and the service runs it or is about to.
SwitchUndone ==
  [][\A u \in Updaters :
       At(u, "clean") /\ up'[u].pc = "failed" /\ up[u].switched
         => /\ app.to = up[u].old
            /\ app.kind = IF up[u].wasLink THEN "link" ELSE "dir"
            /\ running \in {up[u].old, Down}]_vars

\* Once the path leads to the new release, an updater that is not killed ends
\* with the service on what the path leads to: the new release, or, after
\* whatever fails, crashes or interrupts, the old one.
SwitchSettles ==
  \A u \in Updaters :
    At(u, "restart") ~> \/ At(u, "killed")
                        \/ /\ up[u].pc \in Ended
                           /\ app.kind # "none" /\ running = app.to

=============================================================================
