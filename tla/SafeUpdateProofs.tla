-------------------------- MODULE SafeUpdateProofs --------------------------
(***************************************************************************)
(* What scripts/update-safe.sh keeps for any number of updaters, and any   *)
(* number of failing commands, signals, killed updaters and crashes of the *)
(* service.                                                                *)
(***************************************************************************)
EXTENDS SafeUpdate, TLAPS

\* An updater that builds, switches or has something to undo holds the lock.
Held(u) ==
  /\ up[u].pc \in Preparing \cup Switching \cup {"unlinked", "again"} => lock = u
  /\ up[u].pc \in Active /\ (up[u].build \/ up[u].switched) => lock = u

\* BUILD_DIR is set exactly while the release is not finished.
Built(u) ==
  /\ up[u].pc \in {"idle", "lock", "clone"}
       => disk[u] = "absent" /\ ~ up[u].build /\ ~ up[u].switched
  /\ up[u].pc \in {"prepared"} \cup Switching => disk[u] = "ready" /\ ~ up[u].build
  /\ up[u].build /\ up[u].pc \in Active => disk[u] = "partial"

\* From the first change of the path on, the release to go back to is a
\* complete one.
Known(u) ==
  /\ up[u].pc \in Switching \ {"check", "record"} \/ up[u].switched
       => up[u].old \in Releases
  /\ up[u].old \in Releases => Complete(up[u].old)

\* The path of on_error after a switch.
Undoing(u) ==
  /\ up[u].pc \in {"unlinked", "again"} => up[u].switched
  /\ up[u].pc = "unlinked" => ~ up[u].wasLink
  /\ up[u].pc = "again" \/ (up[u].pc = "clean" /\ up[u].switched)
       => app = [kind |-> IF up[u].wasLink THEN "link" ELSE "dir", to |-> up[u].old]
  /\ up[u].pc = "clean" /\ up[u].switched => running \in {up[u].old, Down}

\* The inductive invariant: the lock is what makes the state of an updater and
\* the path agree, since nobody else touches the path meanwhile.
UpdateInv ==
  /\ TypeOK
  /\ smoke # Free => lock = smoke
  /\ CompleteReleases
  /\ \A u \in Updaters : Held(u) /\ Built(u) /\ Known(u) /\ Undoing(u)

-----------------------------------------------------------------------------
\* What a step does to the local states.

Labels == {"idle"} \cup Active \cup Ended

\* One updater takes the local state l, the others keep theirs.
OnlyMoves(u, l) ==
  /\ l \in Local /\ up' \in [Updaters -> Local] /\ up'[u] = l
  /\ \A w \in Updaters \ {u} : up'[w] = up[w]

\* An action replaces the state of one updater.
LEMMA BecomesOne ==
  ASSUME TypeOK, NEW u \in Updaters, NEW l \in Local, Becomes(u, l)
  PROVE  OnlyMoves(u, l)
BY DEF TypeOK, Becomes, OnlyMoves

\* Moving to a label is such a replacement.
LEMMA GoesOne ==
  ASSUME TypeOK, NEW u \in Updaters, NEW label \in Labels, Goes(u, label)
  PROVE  OnlyMoves(u, [up[u] EXCEPT !.pc = label])
<1>1. [up[u] EXCEPT !.pc = label] \in Local
  BY DEF TypeOK, Local, Labels
<1> QED BY <1>1, BecomesOne DEF Goes

\* Spending from the budget leaves a budget.
LEMMA SpendOne ==
  ASSUME TypeOK, NEW what \in {"faults", "signals", "kills", "crashes"}, Spend(what)
  PROVE  left' \in Bounds
BY DEF TypeOK, Spend, Bounds

-----------------------------------------------------------------------------
\* Every action keeps the invariant. First the actions that only move the
\* label of their updater.

\* The smoke-test server belongs to the holder of the lock.
LEMMA StartSmokeKeeps ==
  ASSUME UpdateInv, NEW u \in Updaters, StartSmoke(u)
  PROVE  UpdateInv'
<1> USE DEF StartSmoke, production, At, UpdateInv, Labels, Active, Trapped,
           Preparing, Switching, Restoring, Ended
<1>1. OnlyMoves(u, [up[u] EXCEPT !.pc = "smoke"])
  BY GoesOne
<1>2. TypeOK'
  BY <1>1, SpendOne
  DEF OnlyMoves, TypeOK, Releases, Local, Paths, Released, Restarted, Undoing, Known
<1>3. (smoke # Free => lock = smoke)' /\ \A w \in Updaters : Held(w)' /\ Built(w)'
  BY <1>1, UpdateAssumption
  DEF OnlyMoves, Held, Built, Undoing, Released, Releases, TypeOK, Local
<1>4. CompleteReleases' /\ \A w \in Updaters : Known(w)' /\ Undoing(w)'
  BY <1>1, UpdateAssumption
  DEF OnlyMoves, CompleteReleases, Complete, Held, Built, Known, Undoing, Restarted,
      Releases, TypeOK, Paths, Local
<1> QED BY <1>2, <1>3, <1>4

\* Ending after the preparation releases the lock.
LEMMA PrepareOnlyKeeps ==
  ASSUME UpdateInv, NEW u \in Updaters, PrepareOnly(u)
  PROVE  UpdateInv'
<1> USE DEF PrepareOnly, production, At, UpdateInv, Labels, Active, Trapped,
           Preparing, Switching, Restoring, Ended
<1>1. OnlyMoves(u, [up[u] EXCEPT !.pc = "done"])
  BY GoesOne
<1>2. TypeOK'
  BY <1>1, SpendOne
  DEF OnlyMoves, TypeOK, Releases, Local, Paths, Released, Restarted, Undoing, Known
<1>3. (smoke # Free => lock = smoke)' /\ \A w \in Updaters : Held(w)' /\ Built(w)'
  BY <1>1, UpdateAssumption
  DEF OnlyMoves, Held, Built, Undoing, Released, Releases, TypeOK, Local
<1>4. CompleteReleases' /\ \A w \in Updaters : Known(w)' /\ Undoing(w)'
  BY <1>1, UpdateAssumption
  DEF OnlyMoves, CompleteReleases, Complete, Held, Built, Known, Undoing, Restarted,
      Releases, TypeOK, Paths, Local
<1> QED BY <1>2, <1>3, <1>4

\* The activation starts with a complete release.
LEMMA ActivateKeeps ==
  ASSUME UpdateInv, NEW u \in Updaters, Activate(u)
  PROVE  UpdateInv'
<1> USE DEF Activate, production, At, UpdateInv, Labels, Active, Trapped,
           Preparing, Switching, Restoring, Ended
<1>1. OnlyMoves(u, [up[u] EXCEPT !.pc = "check"])
  BY GoesOne
<1>2. TypeOK'
  BY <1>1, SpendOne
  DEF OnlyMoves, TypeOK, Releases, Local, Paths, Released, Restarted, Undoing, Known
<1>3. (smoke # Free => lock = smoke)' /\ \A w \in Updaters : Held(w)' /\ Built(w)'
  BY <1>1, UpdateAssumption
  DEF OnlyMoves, Held, Built, Undoing, Released, Releases, TypeOK, Local
<1>4. CompleteReleases' /\ \A w \in Updaters : Known(w)' /\ Undoing(w)'
  BY <1>1, UpdateAssumption
  DEF OnlyMoves, CompleteReleases, Complete, Held, Built, Known, Undoing, Restarted,
      Releases, TypeOK, Paths, Local
<1> QED BY <1>2, <1>3, <1>4

\* A check fails before anything was switched.
LEMMA CheckKeeps ==
  ASSUME UpdateInv, NEW u \in Updaters, Check(u)
  PROVE  UpdateInv'
<1> USE DEF Check, production, At, UpdateInv, Labels, Active, Trapped,
           Preparing, Switching, Restoring, Ended
<1>1. OnlyMoves(u, [up[u] EXCEPT !.pc = IF running # Down THEN "record" ELSE "restore"])
  BY GoesOne
<1>2. TypeOK'
  BY <1>1, SpendOne
  DEF OnlyMoves, TypeOK, Releases, Local, Paths, Released, Restarted, Undoing, Known
<1>3. (smoke # Free => lock = smoke)' /\ \A w \in Updaters : Held(w)' /\ Built(w)'
  BY <1>1, UpdateAssumption
  DEF OnlyMoves, Held, Built, Undoing, Released, Releases, TypeOK, Local
<1>4. CompleteReleases' /\ \A w \in Updaters : Known(w)' /\ Undoing(w)'
  BY <1>1, UpdateAssumption
  DEF OnlyMoves, CompleteReleases, Complete, Held, Built, Known, Undoing, Restarted,
      Releases, TypeOK, Paths, Local
<1> QED BY <1>2, <1>3, <1>4

\* The holder of the lock links a complete release.
LEMMA RelinkKeeps ==
  ASSUME UpdateInv, NEW u \in Updaters, Relink(u)
  PROVE  UpdateInv'
<1> USE DEF Relink, production, At, UpdateInv, Labels, Active, Trapped,
           Preparing, Switching, Restoring, Ended
<1>1. OnlyMoves(u, [up[u] EXCEPT !.pc = "linked"])
  BY GoesOne
<1>2. TypeOK'
  BY <1>1, SpendOne
  DEF OnlyMoves, TypeOK, Releases, Local, Paths, Released, Restarted, Undoing, Known
<1>3. (smoke # Free => lock = smoke)' /\ \A w \in Updaters : Held(w)' /\ Built(w)'
  BY <1>1, UpdateAssumption
  DEF OnlyMoves, Held, Built, Undoing, Released, Releases, TypeOK, Local
<1>4. CompleteReleases' /\ \A w \in Updaters : Known(w)' /\ Undoing(w)'
  BY <1>1, UpdateAssumption
  DEF OnlyMoves, CompleteReleases, Complete, Held, Built, Known, Undoing, Restarted,
      Releases, TypeOK, Paths, Local
<1> QED BY <1>2, <1>3, <1>4

\* The path is nothing for a moment, which leads nowhere wrong.
LEMMA MoveAsideKeeps ==
  ASSUME UpdateInv, NEW u \in Updaters, MoveAside(u)
  PROVE  UpdateInv'
<1> USE DEF MoveAside, production, At, UpdateInv, Labels, Active, Trapped,
           Preparing, Switching, Restoring, Ended
<1>1. OnlyMoves(u, [up[u] EXCEPT !.pc = "moved"])
  BY GoesOne
<1>2. TypeOK'
  BY <1>1, SpendOne
  DEF OnlyMoves, TypeOK, Releases, Local, Paths, Released, Restarted, Undoing, Known
<1>3. (smoke # Free => lock = smoke)' /\ \A w \in Updaters : Held(w)' /\ Built(w)'
  BY <1>1, UpdateAssumption
  DEF OnlyMoves, Held, Built, Undoing, Released, Releases, TypeOK, Local
<1>4. CompleteReleases' /\ \A w \in Updaters : Known(w)' /\ Undoing(w)'
  BY <1>1, UpdateAssumption
  DEF OnlyMoves, CompleteReleases, Complete, Held, Built, Known, Undoing, Restarted,
      Releases, TypeOK, Paths, Local
<1> QED BY <1>2, <1>3, <1>4

\* The link is put where the directory was.
LEMMA PlaceKeeps ==
  ASSUME UpdateInv, NEW u \in Updaters, Place(u)
  PROVE  UpdateInv'
<1> USE DEF Place, production, At, UpdateInv, Labels, Active, Trapped,
           Preparing, Switching, Restoring, Ended
<1>1. OnlyMoves(u, [up[u] EXCEPT !.pc = "restart"])
  BY GoesOne
<1>2. TypeOK'
  BY <1>1, SpendOne
  DEF OnlyMoves, TypeOK, Releases, Local, Paths, Released, Restarted, Undoing, Known
<1>3. (smoke # Free => lock = smoke)' /\ \A w \in Updaters : Held(w)' /\ Built(w)'
  BY <1>1, UpdateAssumption
  DEF OnlyMoves, Held, Built, Undoing, Released, Releases, TypeOK, Local
<1>4. CompleteReleases' /\ \A w \in Updaters : Known(w)' /\ Undoing(w)'
  BY <1>1, UpdateAssumption
  DEF OnlyMoves, CompleteReleases, Complete, Held, Built, Known, Undoing, Restarted,
      Releases, TypeOK, Paths, Local
<1> QED BY <1>2, <1>3, <1>4

\* The service runs what the path leads to.
LEMMA RestartKeeps ==
  ASSUME UpdateInv, NEW u \in Updaters, Restart(u)
  PROVE  UpdateInv'
<1> USE DEF Restart, production, At, UpdateInv, Labels, Active, Trapped,
           Preparing, Switching, Restoring, Ended
<1>1. OnlyMoves(u, [up[u] EXCEPT !.pc = "verify"])
  BY GoesOne
<1>2. TypeOK'
  BY <1>1, SpendOne
  DEF OnlyMoves, TypeOK, Releases, Local, Paths, Released, Restarted, Undoing, Known
<1>3. (smoke # Free => lock = smoke)' /\ \A w \in Updaters : Held(w)' /\ Built(w)'
  BY <1>1, UpdateAssumption
  DEF OnlyMoves, Held, Built, Undoing, Released, Releases, TypeOK, Local
<1>4. CompleteReleases' /\ \A w \in Updaters : Known(w)' /\ Undoing(w)'
  BY <1>1, UpdateAssumption
  DEF OnlyMoves, CompleteReleases, Complete, Held, Built, Known, Undoing, Restarted,
      Releases, TypeOK, Paths, Local
<1> QED BY <1>2, <1>3, <1>4

\* A verified update releases the lock.
LEMMA VerifyKeeps ==
  ASSUME UpdateInv, NEW u \in Updaters, Verify(u)
  PROVE  UpdateInv'
<1> USE DEF Verify, production, At, UpdateInv, Labels, Active, Trapped,
           Preparing, Switching, Restoring, Ended
<1>1. OnlyMoves(u, [up[u] EXCEPT !.pc = "done"])
  BY GoesOne
<1>2. TypeOK'
  BY <1>1, SpendOne
  DEF OnlyMoves, TypeOK, Releases, Local, Paths, Released, Restarted, Undoing, Known
<1>3. (smoke # Free => lock = smoke)' /\ \A w \in Updaters : Held(w)' /\ Built(w)'
  BY <1>1, UpdateAssumption
  DEF OnlyMoves, Held, Built, Undoing, Released, Releases, TypeOK, Local
<1>4. CompleteReleases' /\ \A w \in Updaters : Known(w)' /\ Undoing(w)'
  BY <1>1, UpdateAssumption
  DEF OnlyMoves, CompleteReleases, Complete, Held, Built, Known, Undoing, Restarted,
      Releases, TypeOK, Paths, Local
<1> QED BY <1>2, <1>3, <1>4

\* A verification that runs out starts the roll back.
LEMMA GiveUpKeeps ==
  ASSUME UpdateInv, NEW u \in Updaters, GiveUp(u)
  PROVE  UpdateInv'
<1> USE DEF GiveUp, production, At, UpdateInv, Labels, Active, Trapped,
           Preparing, Switching, Restoring, Ended
<1>1. OnlyMoves(u, [up[u] EXCEPT !.pc = "restore"])
  BY GoesOne
<1>2. TypeOK'
  BY <1>1, SpendOne
  DEF OnlyMoves, TypeOK, Releases, Local, Paths, Released, Restarted, Undoing, Known
<1>3. (smoke # Free => lock = smoke)' /\ \A w \in Updaters : Held(w)' /\ Built(w)'
  BY <1>1, UpdateAssumption
  DEF OnlyMoves, Held, Built, Undoing, Released, Releases, TypeOK, Local
<1>4. CompleteReleases' /\ \A w \in Updaters : Known(w)' /\ Undoing(w)'
  BY <1>1, UpdateAssumption
  DEF OnlyMoves, CompleteReleases, Complete, Held, Built, Known, Undoing, Restarted,
      Releases, TypeOK, Paths, Local
<1> QED BY <1>2, <1>3, <1>4

\* A failure anywhere starts the roll back.
LEMMA FailKeeps ==
  ASSUME UpdateInv, NEW u \in Updaters, Fail(u)
  PROVE  UpdateInv'
<1> USE DEF Fail, production, At, UpdateInv, Labels, Active, Trapped,
           Preparing, Switching, Restoring, Ended
<1>1. OnlyMoves(u, [up[u] EXCEPT !.pc = "restore"])
  BY GoesOne
<1>2. TypeOK'
  BY <1>1, SpendOne
  DEF OnlyMoves, TypeOK, Releases, Local, Paths, Released, Restarted, Undoing, Known
<1>3. (smoke # Free => lock = smoke)' /\ \A w \in Updaters : Held(w)' /\ Built(w)'
  BY <1>1, UpdateAssumption
  DEF OnlyMoves, Held, Built, Undoing, Released, Releases, TypeOK, Local
<1>4. CompleteReleases' /\ \A w \in Updaters : Known(w)' /\ Undoing(w)'
  BY <1>1, UpdateAssumption
  DEF OnlyMoves, CompleteReleases, Complete, Held, Built, Known, Undoing, Restarted,
      Releases, TypeOK, Paths, Local
<1> QED BY <1>2, <1>3, <1>4

\* The directory is complete and back in its place.
LEMMA MoveBackKeeps ==
  ASSUME UpdateInv, NEW u \in Updaters, MoveBack(u)
  PROVE  UpdateInv'
<1> USE DEF MoveBack, production, At, UpdateInv, Labels, Active, Trapped,
           Preparing, Switching, Restoring, Ended
<1>1. OnlyMoves(u, [up[u] EXCEPT !.pc = "again"])
  BY GoesOne
<1>2. TypeOK'
  BY <1>1, SpendOne
  DEF OnlyMoves, TypeOK, Releases, Local, Paths, Released, Restarted, Undoing, Known
<1>3. (smoke # Free => lock = smoke)' /\ \A w \in Updaters : Held(w)' /\ Built(w)'
  BY <1>1, UpdateAssumption
  DEF OnlyMoves, Held, Built, Undoing, Released, Releases, TypeOK, Local
<1>4. CompleteReleases' /\ \A w \in Updaters : Known(w)' /\ Undoing(w)'
  BY <1>1, UpdateAssumption
  DEF OnlyMoves, CompleteReleases, Complete, Held, Built, Known, Undoing, Restarted,
      Releases, TypeOK, Paths, Local
<1> QED BY <1>2, <1>3, <1>4

\* The service runs the restored release again.
LEMMA RestartAgainKeeps ==
  ASSUME UpdateInv, NEW u \in Updaters, RestartAgain(u)
  PROVE  UpdateInv'
<1> USE DEF RestartAgain, production, At, UpdateInv, Labels, Active, Trapped,
           Preparing, Switching, Restoring, Ended
<1>1. OnlyMoves(u, [up[u] EXCEPT !.pc = "clean"])
  BY GoesOne
<1>2. TypeOK'
  BY <1>1, SpendOne
  DEF OnlyMoves, TypeOK, Releases, Local, Paths, Released, Restarted, Undoing, Known
<1>3. (smoke # Free => lock = smoke)' /\ \A w \in Updaters : Held(w)' /\ Built(w)'
  BY <1>1, UpdateAssumption
  DEF OnlyMoves, Held, Built, Undoing, Released, Releases, TypeOK, Local
<1>4. CompleteReleases' /\ \A w \in Updaters : Known(w)' /\ Undoing(w)'
  BY <1>1, UpdateAssumption
  DEF OnlyMoves, CompleteReleases, Complete, Held, Built, Known, Undoing, Restarted,
      Releases, TypeOK, Paths, Local
<1> QED BY <1>2, <1>3, <1>4

\* What is removed is unfinished, so nothing leads to it.
LEMMA CleanKeeps ==
  ASSUME UpdateInv, NEW u \in Updaters, Clean(u)
  PROVE  UpdateInv'
<1> USE DEF Clean, production, At, UpdateInv, Labels, Active, Trapped,
           Preparing, Switching, Restoring, Ended
<1>1. OnlyMoves(u, [up[u] EXCEPT !.pc = "failed"])
  BY GoesOne
<1>2. TypeOK'
  BY <1>1, SpendOne
  DEF OnlyMoves, TypeOK, Releases, Local, Paths, Released, Restarted, Undoing, Known
<1>3. (smoke # Free => lock = smoke)' /\ \A w \in Updaters : Held(w)' /\ Built(w)'
  BY <1>1, UpdateAssumption
  DEF OnlyMoves, Held, Built, Undoing, Released, Releases, TypeOK, Local
<1>4. CompleteReleases' /\ \A w \in Updaters : Known(w)' /\ Undoing(w)'
  BY <1>1, UpdateAssumption
  DEF OnlyMoves, CompleteReleases, Complete, Held, Built, Known, Undoing, Restarted,
      Releases, TypeOK, Paths, Local
<1> QED BY <1>2, <1>3, <1>4

\* A killed updater releases the lock unless its server lives on.
LEMMA KillKeeps ==
  ASSUME UpdateInv, NEW u \in Updaters, Kill(u)
  PROVE  UpdateInv'
<1> USE DEF Kill, production, At, UpdateInv, Labels, Active, Trapped,
           Preparing, Switching, Restoring, Ended
<1>1. OnlyMoves(u, [up[u] EXCEPT !.pc = "killed"])
  BY GoesOne
<1>2. TypeOK'
  BY <1>1, SpendOne
  DEF OnlyMoves, TypeOK, Releases, Local, Paths, Released, Restarted, Undoing, Known
<1>3. (smoke # Free => lock = smoke)' /\ \A w \in Updaters : Held(w)' /\ Built(w)'
  BY <1>1, UpdateAssumption
  DEF OnlyMoves, Held, Built, Undoing, Released, Releases, TypeOK, Local
<1>4. CompleteReleases' /\ \A w \in Updaters : Known(w)' /\ Undoing(w)'
  BY <1>1, UpdateAssumption
  DEF OnlyMoves, CompleteReleases, Complete, Held, Built, Known, Undoing, Restarted,
      Releases, TypeOK, Paths, Local
<1> QED BY <1>2, <1>3, <1>4

-----------------------------------------------------------------------------
\* The actions that change another part of the local state too.

\* A clone is unfinished and not yet in production.
LEMMA CloneKeeps ==
  ASSUME UpdateInv, NEW u \in Updaters, Clone(u)
  PROVE  UpdateInv'
<1> USE DEF Clone, production, At, UpdateInv, Labels, Active, Trapped,
           Preparing, Switching, Restoring, Ended
<1>1. OnlyMoves(u, [up[u] EXCEPT !.build = TRUE, !.pc = "test"])
  BY BecomesOne DEF TypeOK, Local
<1>2. /\ up'[u].pc = "test" /\ up'[u].build /\ up'[u].switched = up[u].switched
      /\ up'[u].old = up[u].old /\ up'[u].wasLink = up[u].wasLink
  BY <1>1 DEF OnlyMoves, TypeOK, Local
<1>3. /\ up' \in [Updaters -> Local]
      /\ \A w \in Updaters \ {u} : up'[w] = up[w]
  BY <1>1 DEF OnlyMoves
<1>4. TypeOK'
  BY <1>2, <1>3 DEF TypeOK, Releases, Known
<1>5. (smoke # Free => lock = smoke)' /\ \A w \in Updaters : Held(w)' /\ Built(w)'
  BY <1>2, <1>3, UpdateAssumption DEF Held, Built, TypeOK, Local
<1>6. CompleteReleases' /\ \A w \in Updaters : Known(w)'
  BY <1>2, <1>3, UpdateAssumption
  DEF CompleteReleases, Complete, Built, Known, Releases, TypeOK, Paths, Local
<1>7. \A w \in Updaters : Undoing(w)'
  BY <1>2, <1>3, UpdateAssumption DEF Undoing, Held, TypeOK, Local
<1> QED BY <1>4, <1>5, <1>6, <1>7

\* A release that passed is complete, and BUILD_DIR empty.
LEMMA PreparedKeeps ==
  ASSUME UpdateInv, NEW u \in Updaters, Prepared(u)
  PROVE  UpdateInv'
<1> USE DEF Prepared, production, At, UpdateInv, Labels, Active, Trapped,
           Preparing, Switching, Restoring, Ended
<1>1. OnlyMoves(u, [up[u] EXCEPT !.build = FALSE, !.pc = "prepared"])
  BY BecomesOne DEF TypeOK, Local
<1>2. /\ up'[u].pc = "prepared" /\ ~ up'[u].build /\ up'[u].switched = up[u].switched
      /\ up'[u].old = up[u].old /\ up'[u].wasLink = up[u].wasLink
  BY <1>1 DEF OnlyMoves, TypeOK, Local
<1>3. /\ up' \in [Updaters -> Local]
      /\ \A w \in Updaters \ {u} : up'[w] = up[w]
  BY <1>1 DEF OnlyMoves
<1>4. TypeOK'
  BY <1>2, <1>3 DEF TypeOK, Releases, Known
<1>5. (smoke # Free => lock = smoke)' /\ \A w \in Updaters : Held(w)' /\ Built(w)'
  BY <1>2, <1>3, UpdateAssumption DEF Held, Built, TypeOK, Local
<1>6. CompleteReleases' /\ \A w \in Updaters : Known(w)'
  BY <1>2, <1>3, UpdateAssumption
  DEF CompleteReleases, Complete, Built, Known, Releases, TypeOK, Paths, Local
<1>7. \A w \in Updaters : Undoing(w)'
  BY <1>2, <1>3, UpdateAssumption DEF Undoing, Held, TypeOK, Local
<1> QED BY <1>4, <1>5, <1>6, <1>7

\* A marked link has a release to go back to.
LEMMA MarkLinkedKeeps ==
  ASSUME UpdateInv, NEW u \in Updaters, MarkLinked(u)
  PROVE  UpdateInv'
<1> USE DEF MarkLinked, production, At, UpdateInv, Labels, Active, Trapped,
           Preparing, Switching, Restoring, Ended
<1>1. OnlyMoves(u, [up[u] EXCEPT !.switched = TRUE, !.pc = "restart"])
  BY BecomesOne DEF TypeOK, Local
<1>2. /\ up'[u].pc = "restart" /\ up'[u].switched /\ up'[u].build = up[u].build
      /\ up'[u].old = up[u].old /\ up'[u].wasLink = up[u].wasLink
  BY <1>1 DEF OnlyMoves, TypeOK, Local
<1>3. /\ up' \in [Updaters -> Local]
      /\ \A w \in Updaters \ {u} : up'[w] = up[w]
  BY <1>1 DEF OnlyMoves
<1>4. TypeOK'
  BY <1>2, <1>3 DEF TypeOK, Releases, Known
<1>5. (smoke # Free => lock = smoke)' /\ \A w \in Updaters : Held(w)' /\ Built(w)'
  BY <1>2, <1>3, UpdateAssumption DEF Held, Built, TypeOK, Local
<1>6. CompleteReleases' /\ \A w \in Updaters : Known(w)'
  BY <1>2, <1>3, UpdateAssumption
  DEF CompleteReleases, Complete, Built, Known, Releases, TypeOK, Paths, Local
<1>7. \A w \in Updaters : Undoing(w)'
  BY <1>2, <1>3, UpdateAssumption DEF Undoing, Held, TypeOK, Local
<1> QED BY <1>4, <1>5, <1>6, <1>7

\* A marked move has a directory to go back to.
LEMMA MarkMovedKeeps ==
  ASSUME UpdateInv, NEW u \in Updaters, MarkMoved(u)
  PROVE  UpdateInv'
<1> USE DEF MarkMoved, production, At, UpdateInv, Labels, Active, Trapped,
           Preparing, Switching, Restoring, Ended
<1>1. OnlyMoves(u, [up[u] EXCEPT !.switched = TRUE, !.pc = "place"])
  BY BecomesOne DEF TypeOK, Local
<1>2. /\ up'[u].pc = "place" /\ up'[u].switched /\ up'[u].build = up[u].build
      /\ up'[u].old = up[u].old /\ up'[u].wasLink = up[u].wasLink
  BY <1>1 DEF OnlyMoves, TypeOK, Local
<1>3. /\ up' \in [Updaters -> Local]
      /\ \A w \in Updaters \ {u} : up'[w] = up[w]
  BY <1>1 DEF OnlyMoves
<1>4. TypeOK'
  BY <1>2, <1>3 DEF TypeOK, Releases, Known
<1>5. (smoke # Free => lock = smoke)' /\ \A w \in Updaters : Held(w)' /\ Built(w)'
  BY <1>2, <1>3, UpdateAssumption DEF Held, Built, TypeOK, Local
<1>6. CompleteReleases' /\ \A w \in Updaters : Known(w)'
  BY <1>2, <1>3, UpdateAssumption
  DEF CompleteReleases, Complete, Built, Known, Releases, TypeOK, Paths, Local
<1>7. \A w \in Updaters : Undoing(w)'
  BY <1>2, <1>3, UpdateAssumption DEF Undoing, Held, TypeOK, Local
<1> QED BY <1>4, <1>5, <1>6, <1>7

\* A new updater has no build and nothing to undo.
LEMMA StartKeeps ==
  ASSUME UpdateInv, NEW u \in Updaters, Start(u)
  PROVE  UpdateInv'
<1> USE DEF Start, production, At, UpdateInv, Labels, Active, Trapped,
           Preparing, Switching, Restoring, Ended
<1>1. PICK activate \in BOOLEAN :
        Becomes(u, [Fresh EXCEPT !.pc = "lock", !.activate = activate])
  OBVIOUS
<1>2. OnlyMoves(u, [Fresh EXCEPT !.pc = "lock", !.activate = activate])
  BY <1>1, BecomesOne DEF Fresh, Local
<1>3. /\ up'[u].pc = "lock" /\ ~ up'[u].build /\ ~ up'[u].switched /\ up'[u].old = Free
      /\ up' \in [Updaters -> Local]
      /\ \A w \in Updaters \ {u} : up'[w] = up[w]
  BY <1>2 DEF OnlyMoves, Fresh
<1>4. TypeOK'
  BY <1>3 DEF TypeOK
<1>5. CompleteReleases' /\ (smoke # Free => lock = smoke)'
  BY DEF CompleteReleases, Complete
<1>6. \A w \in Updaters : Held(w)' /\ Built(w)' /\ Known(w)' /\ Undoing(w)'
  BY <1>3, UpdateAssumption DEF Held, Built, Known, Undoing, Complete
<1> QED BY <1>4, <1>5, <1>6

\* The lock is taken when it is free; otherwise nothing is undone.
LEMMA TakeLockKeeps ==
  ASSUME UpdateInv, NEW u \in Updaters, TakeLock(u)
  PROVE  UpdateInv'
<1> USE DEF TakeLock, production, At, UpdateInv, Labels, Active, Trapped,
           Preparing, Switching, Restoring, Ended
<1>1. CompleteReleases'
  BY DEF CompleteReleases, Complete
<1>2. CASE lock = Free /\ lock' = u /\ Goes(u, "clone")
  <2>1. OnlyMoves(u, [up[u] EXCEPT !.pc = "clone"])
    BY <1>2, GoesOne
  <2>2. TypeOK'
    BY <1>2, <2>1 DEF OnlyMoves, TypeOK, Local
  <2>3. (smoke # Free => lock = smoke)' /\ \A w \in Updaters : Held(w)'
    BY <1>2, <2>1, UpdateAssumption DEF OnlyMoves, Held, TypeOK, Local, Releases
  <2>4. \A w \in Updaters : Built(w)' /\ Known(w)' /\ Undoing(w)'
    BY <1>2, <2>1 DEF OnlyMoves, Built, Known, Undoing, Complete, TypeOK, Local
  <2> QED BY <1>1, <2>2, <2>3, <2>4
<1>3. CASE UNCHANGED lock /\ Goes(u, "restore")
  <2>1. OnlyMoves(u, [up[u] EXCEPT !.pc = "restore"])
    BY <1>3, GoesOne
  <2>2. TypeOK'
    BY <1>3, <2>1 DEF OnlyMoves, TypeOK, Local
  <2>3. \A w \in Updaters : Held(w)' /\ Built(w)' /\ Known(w)' /\ Undoing(w)'
    BY <1>3, <2>1 DEF OnlyMoves, Held, Built, Known, Undoing, Complete, TypeOK, Local
  <2> QED BY <1>1, <1>3, <2>2, <2>3
<1> QED BY <1>2, <1>3

\* The release to go back to is the complete one the path leads to.
LEMMA RecordKeeps ==
  ASSUME UpdateInv, NEW u \in Updaters, Record(u)
  PROVE  UpdateInv'
<1> USE DEF Record, production, At, UpdateInv, Labels, Active, Trapped,
           Preparing, Switching, Restoring, Ended
<1>1. CompleteReleases' /\ (smoke # Free => lock = smoke)'
  BY DEF CompleteReleases, Complete
<1>2. ASSUME NEW link \in BOOLEAN, NEW label \in {"relink", "aside"}, app.kind # "none",
             Becomes(u, [up[u] EXCEPT !.wasLink = link, !.old = app.to, !.pc = label])
      PROVE  UpdateInv'
  <2>1. OnlyMoves(u, [up[u] EXCEPT !.wasLink = link, !.old = app.to, !.pc = label])
    BY <1>2, BecomesOne DEF TypeOK, Local, Paths
  <2>2. /\ up'[u].pc = label /\ up'[u].old = app.to
        /\ up'[u].build = up[u].build /\ up'[u].switched = up[u].switched
        /\ up' \in [Updaters -> Local]
        /\ \A w \in Updaters \ {u} : up'[w] = up[w]
    BY <2>1 DEF OnlyMoves, TypeOK, Local
  <2>3. app.to \in Releases /\ Complete(app.to)
    BY <1>2 DEF TypeOK, Paths, CompleteReleases
  <2>4. TypeOK'
    BY <2>2, <2>3 DEF TypeOK
  <2>5. \A w \in Updaters : Held(w)' /\ Built(w)' /\ Known(w)' /\ Undoing(w)'
    BY <1>2, <2>2, <2>3 DEF Held, Built, Known, Undoing, Complete
  <2> QED BY <1>1, <2>4, <2>5
<1>3. CASE app.kind = "link"
  BY <1>2, <1>3
<1>4. CASE app.kind = "dir"
  BY <1>2, <1>4
<1>5. CASE app.kind = "none"
  <2>1. OnlyMoves(u, [up[u] EXCEPT !.pc = "restore"])
    BY <1>5, GoesOne
  <2>2. TypeOK'
    BY <2>1 DEF OnlyMoves, TypeOK, Local
  <2>3. \A w \in Updaters : Held(w)' /\ Built(w)' /\ Known(w)' /\ Undoing(w)'
    BY <2>1 DEF OnlyMoves, Held, Built, Known, Undoing, Complete, TypeOK, Local
  <2> QED BY <1>1, <2>2, <2>3
<1> QED BY <1>3, <1>4, <1>5 DEF TypeOK, Paths

\* The roll back puts the path where the updater found it.
LEMMA RestoreKeeps ==
  ASSUME UpdateInv, NEW u \in Updaters, Restore(u)
  PROVE  UpdateInv'
<1> USE DEF Restore, production, At, UpdateInv, Labels, Active, Trapped,
           Preparing, Switching, Restoring, Ended
<1>1. ASSUME NEW label \in {"clean", "again", "unlinked"}, Goes(u, label), app' \in Paths,
             label # "clean" => up[u].switched,
             label = "clean" => UNCHANGED app /\ ~ up[u].switched,
             label = "again" => up[u].wasLink /\ app' = [kind |-> "link", to |-> up[u].old],
             label = "unlinked" => ~ up[u].wasLink /\ app'.kind = "none"
      PROVE  UpdateInv'
  <2>1. OnlyMoves(u, [up[u] EXCEPT !.pc = label])
    BY <1>1, GoesOne
  <2>2. /\ up'[u].pc = label /\ up'[u].old = up[u].old /\ up'[u].wasLink = up[u].wasLink
        /\ up'[u].build = up[u].build /\ up'[u].switched = up[u].switched
        /\ up' \in [Updaters -> Local]
        /\ \A w \in Updaters \ {u} : up'[w] = up[w]
    BY <2>1 DEF OnlyMoves, TypeOK, Local
  <2>3. TypeOK'
    BY <1>1, <2>2 DEF TypeOK
  <2>4. (smoke # Free => lock = smoke)' /\ \A w \in Updaters : Held(w)' /\ Built(w)'
    BY <1>1, <2>2, UpdateAssumption DEF Held, Built, TypeOK, Releases
  <2>5. CompleteReleases' /\ \A w \in Updaters : Known(w)'
    BY <1>1, <2>2 DEF CompleteReleases, Complete, Known
  <2>6. \A w \in Updaters : Undoing(w)'
    BY <1>1, <2>2 DEF Undoing, Held
  <2> QED BY <2>3, <2>4, <2>5, <2>6
<1>2. CASE ~ up[u].switched
  BY <1>1, <1>2 DEF TypeOK
<1>3. CASE up[u].switched /\ up[u].wasLink
  BY <1>1, <1>3 DEF TypeOK, Paths
<1>4. CASE up[u].switched /\ ~ up[u].wasLink
  BY <1>1, <1>4 DEF TypeOK, Paths
<1> QED BY <1>2, <1>3, <1>4

\* systemd starts what the path leads to.
LEMMA ServiceKeeps ==
  ASSUME UpdateInv, ServiceCrash \/ ServiceStart
  PROVE  UpdateInv'
<1> USE DEF ServiceCrash, ServiceStart, UpdateInv
<1>1. TypeOK'
  BY SpendOne DEF TypeOK, Paths
<1>2. (smoke # Free => lock = smoke)' /\ CompleteReleases'
  BY UpdateAssumption DEF CompleteReleases, Complete
<1>3. \A w \in Updaters : Held(w)' /\ Built(w)' /\ Known(w)' /\ Undoing(w)'
  BY DEF Held, Built, Known, Undoing, Complete
<1> QED BY <1>1, <1>2, <1>3

-----------------------------------------------------------------------------
\* The invariant holds at first.
LEMMA InitUpdateInv == Init => UpdateInv
<1> SUFFICES ASSUME Init PROVE UpdateInv
  OBVIOUS
<1>1. TypeOK
  BY UpdateAssumption DEF Init, TypeOK, Paths, Local, Fresh, Releases
<1>2. CompleteReleases
  BY UpdateAssumption DEF Init, CompleteReleases, Complete
<1>3. \A u \in Updaters : Held(u) /\ Built(u) /\ Known(u) /\ Undoing(u)
  BY UpdateAssumption
  DEF Init, Fresh, Held, Built, Known, Undoing, Complete, Labels,
      Active, Trapped, Preparing, Switching, Restoring, Ended
<1> QED BY <1>1, <1>2, <1>3 DEF UpdateInv, Init

\* Every step keeps the invariant.
LEMMA NextUpdateInv == UpdateInv /\ [Next]_vars => UpdateInv'
<1> SUFFICES ASSUME UpdateInv, [Next]_vars PROVE UpdateInv'
  OBVIOUS
<1>1. ASSUME NEW u \in Updaters, Prepare(u) PROVE UpdateInv'
  BY <1>1, TakeLockKeeps, CloneKeeps, StartSmokeKeeps, PreparedKeeps, PrepareOnlyKeeps,
     ActivateKeeps DEF Prepare
<1>2. ASSUME NEW u \in Updaters, Switch(u) PROVE UpdateInv'
  BY <1>2, CheckKeeps, RecordKeeps, RelinkKeeps, MarkLinkedKeeps, MoveAsideKeeps,
     MarkMovedKeeps, PlaceKeeps, RestartKeeps, VerifyKeeps, GiveUpKeeps DEF Switch
<1>3. ASSUME NEW u \in Updaters, Undo(u) PROVE UpdateInv'
  BY <1>3, RestoreKeeps, MoveBackKeeps, RestartAgainKeeps, CleanKeeps DEF Undo
<1>4. ASSUME NEW u \in Updaters, Start(u) \/ Fail(u) \/ Kill(u) PROVE UpdateInv'
  BY <1>4, StartKeeps, FailKeeps, KillKeeps
<1>5. CASE UNCHANGED vars
  BY <1>5
  DEF vars, UpdateInv, TypeOK, CompleteReleases, Complete, Held, Built, Known, Undoing
<1> QED BY <1>1, <1>2, <1>3, <1>4, <1>5, ServiceKeeps DEF Next, Step

\* Whatever fails, is interrupted, killed or crashes: the lock, the unfinished
\* builds and the release to go back to stay consistent.
THEOREM UpdateInvariant == Spec => []UpdateInv
BY InitUpdateInv, NextUpdateInv, PTL DEF Spec

\* Type correctness; after a switch the release to go back to is known.
THEOREM UpdateTypeCorrect == Spec => []TypeOK
BY UpdateInvariant, PTL DEF UpdateInv

\* One updater past the lock, and none that meets the smoke-test server of
\* another one.
THEOREM LockAlwaysProtects == Spec => []LockProtects
<1>1. UpdateInv => LockProtects
  BY DEF UpdateInv, LockProtects, Held
<1> QED BY <1>1, UpdateInvariant, PTL

\* Production never leads to an unfinished or a removed release.
THEOREM ProductionComplete == Spec => []CompleteReleases
BY UpdateInvariant, PTL DEF UpdateInv

\* Only the holder of the lock changes where the path leads.
THEOREM HolderSwitches == Spec => OnlyHolderSwitches
<1>1. UpdateInv /\ [Next]_vars
        => [app' # app => \E u \in Updaters : lock = u /\ up'[u] # up[u]]_vars
  <2> SUFFICES ASSUME UpdateInv, Next, app' # app
               PROVE  \E u \in Updaters : lock = u /\ up'[u] # up[u]
    BY DEF vars
  <2>1. PICK u \in Updaters :
          \/ Relink(u) \/ MoveAside(u) \/ Place(u)
          \/ (Restore(u) /\ up[u].switched) \/ MoveBack(u)
    BY DEF Next, Step, Prepare, Switch, Undo, Start, TakeLock, Clone, StartSmoke,
           Prepared, PrepareOnly, Activate, Check, Record, MarkLinked, MarkMoved,
           Restart, Verify, GiveUp, Restore, RestartAgain, Clean, Fail, Kill,
           ServiceCrash, ServiceStart, production
  <2>2. lock = u
    BY <2>1 DEF UpdateInv, Held, Relink, MoveAside, Place, Restore, MoveBack, At,
                Active, Trapped, Preparing, Switching, Restoring
  <2>3. up'[u].pc # up[u].pc
    BY <2>1 DEF UpdateInv, TypeOK, Local, Relink, MoveAside, Place, Restore, MoveBack,
                At, Goes, Becomes
  <2> QED BY <2>2, <2>3
<1> QED BY <1>1, UpdateInvariant, PTL DEF Spec, OnlyHolderSwitches

\* An update that ends after a switch it had marked leaves the release, the form
\* of the path and the service it found.
THEOREM MarkedSwitchUndone == Spec => SwitchUndone
<1> DEFINE Undone ==
      \A u \in Updaters :
        At(u, "clean") /\ up'[u].pc = "failed" /\ up[u].switched
          => /\ app.to = up[u].old
             /\ app.kind = IF up[u].wasLink THEN "link" ELSE "dir"
             /\ running \in {up[u].old, Down}
<1>1. UpdateInv /\ [Next]_vars => [Undone]_vars
  BY DEF UpdateInv, Undoing, At
<1> QED BY <1>1, UpdateInvariant, PTL DEF Spec, SwitchUndone

=============================================================================
