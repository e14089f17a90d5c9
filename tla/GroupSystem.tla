---------------------------- MODULE GroupSystem ----------------------------
(***************************************************************************)
(* The controller process (worker, informer cache, content watcher) with   *)
(* the API server, the driver, the external snapshotter and the user, and  *)
(* what the life of one volume group snapshot must satisfy.                *)
(***************************************************************************)
EXTENDS ContentWatcher

vars == <<groupVars, memberVars, workerVars, watch>>

Init == GroupInit /\ MemberInit /\ WorkerInit /\ WatchInit

\* The process dies and is restarted by its Deployment: local variables, the
\* work queue and undelivered events are gone, the new informers list the
\* stored objects, and every group listed is a creation event.  A content
\* whose snapshot was not yet created is left an orphan.
Restart ==
    /\ work' = Idle
    /\ watch' = Asleep
    /\ copy' = [c \in Copies |-> IF c = "cache" THEN vg ELSE NoGroup]
    /\ stale' = {}
    /\ queue' = IF vg = NoGroup THEN {} ELSE {"ready"}
    /\ orphans' = IF work.pc = "snapshot" THEN orphans \cup {work.cur} ELSE orphans
    /\ seen' = IF "memberlag" \in Disturbances THEN snap ELSE seen
    /\ events' = {}
    /\ UNCHANGED <<vg, class, born, snap, dying, content, owner>>

Crash == Disturb("crash") /\ Restart

Panic == (\E m \in Members : Panics(m)) /\ Restart /\ UNCHANGED faults

EnvironmentStep ==
    \/ /\ UserStep \/ SyncCache \/ BackoffExpires
       /\ UNCHANGED <<memberVars, workerVars, watch>>
    \/ /\ \E m \in Members : MemberStep(m)
       /\ UNCHANGED <<workerVars, watch>>
    \/ Crash

Next ==
    \/ WorkerStep /\ UNCHANGED watch
    \/ WatchStep
    \/ Panic
    \/ EnvironmentStep

Spec == Init /\ [][Next]_vars

-----------------------------------------------------------------------------
(* Fairness: goroutines are scheduled, informers deliver, back-offs end,   *)
(* the snapshotter works; nothing makes the user act.  The ticker and the  *)
(* timer are fair as a pair: one of them ends the wait.                    *)

Fairness ==
    /\ WF_vars((WorkerStep /\ UNCHANGED watch) \/ Panic)
    /\ WF_vars(WatchStep)
    /\ WF_vars(SyncCache /\ UNCHANGED <<memberVars, workerVars, watch>>)
    /\ WF_vars(BackoffExpires /\ UNCHANGED <<memberVars, workerVars, watch>>)
    /\ \A m \in Members :
          /\ WF_vars(SyncSnapshot(m) /\ UNCHANGED <<workerVars, watch>>)
          /\ WF_vars(RemoveSnapshot(m) /\ UNCHANGED <<workerVars, watch>>)
          /\ WF_vars((BindSnapshot(m) \/ MakeReady(m))
                        /\ UNCHANGED <<workerVars, watch>>)

FairSpec == Spec /\ Fairness

-----------------------------------------------------------------------------
(* Safety.                                                                 *)

\* Every variable has its type; a copy that is not stale is the stored
\* object, which is what lets a write from it overwrite the whole status.
TypeOK ==
    /\ GroupTypeOK
    /\ MemberTypeOK
    /\ WorkerTypeOK
    /\ WatchTypeOK
    /\ \A c \in Holders \ stale : copy[c] = vg

\* A group is never shown Complete without the array group it stands for and
\* without the finalizer that makes its deletion pass through deleteVg: the
\* order of the writes in Reconcile, against deletions between any two.
CompleteIsProtected ==
    vg.phase = "Complete" => vg.finalizer /\ vg.gid # 0

\* Complete is final: whoever writes next (a retry working from an old copy,
\* the content watcher, a restarted process), the phase stays, and the list
\* of members only shrinks.
CompleteIsFinal ==
    [][ vg.phase = "Complete" /\ vg'.uid = vg.uid
          => vg'.phase = "Complete" /\ vg'.listed \subseteq vg.listed ]_vars

\* The SnapshotGroupID of an object, once stored, never changes: a retry
\* reuses the array group or fails to write.
GroupIsSticky ==
    [][ vg.gid # 0 /\ vg'.uid = vg.uid => vg'.gid = vg.gid ]_vars

\* The SnapshotGroupID that an object shows is a group that the driver made
\* for that object, not for an earlier one of the same name.
GroupBelongs == vg.gid # 0 => owner[vg.gid] = vg.uid

\* A Complete group leaves the API server only by deleteVg, and under policy
\* Delete no snapshot still on its list is left behind undeleted, whatever
\* failed, conflicted or crashed on the way.
DeletionCleansUp ==
    [][ vg.phase = "Complete" /\ vg'.uid # vg.uid
          => /\ work.pc = "delete"
             /\ vg.deleting
             /\ work.policy = "Delete" =>
                  \A m \in vg.listed : snap[m] = "absent" \/ m \in dying ]_vars

\* No work is forgotten: a group that is Pending, being deleted, or failed
\* before it had an array group is queued, or being worked on, or its latest
\* change is still on the way to the cache, and so is a new group unless a
\* broken watch may hide that it is another one.
NothingForgotten ==
    vg # NoGroup /\ (vg.deleting \/ vg.phase = "Pending"
                        \/ (vg.phase = "" /\ "relist" \notin Disturbances)
                        \/ (vg.phase = "Error" /\ vg.gid = 0))
      => queue # {} \/ work.pc # "idle" \/ "cache" \in stale

-----------------------------------------------------------------------------
(* The member contents and the array groups they stand for.                *)

BecomesComplete == vg.phase # "Complete" /\ vg'.phase = "Complete"

\* A group that becomes Complete in an attempt without a member error shows
\* one moment: each content left among its members stands for the very array
\* group that the object names, also one taken over from an earlier object of
\* the name or made by an attempt that failed.
FlawlessIsOneMoment ==
    [][ BecomesComplete /\ ~work.failed
          => \A m \in vg'.listed :
                content[m] # NoContent => content[m].status = vg'.gid ]_vars

\* Once an object names its array group no content is moved to another one: a
\* retry that works from an older copy is stopped before it reaches them.
MomentIsKept ==
    [][ vg.gid # 0 => \A m \in Members :
          content'[m].status \in {content[m].status, 0, vg.gid} ]_vars

\* A content is never moved back to an array group made earlier, by a retry or
\* for another object of the name.
ContentsMoveForward ==
    [][ \A m \in Members :
          content'[m] # NoContent => content'[m].status >= content[m].status ]_vars

-----------------------------------------------------------------------------
(* Refinement.                                                             *)

Life == INSTANCE GroupLifecycle
          WITH Ids <- 0..MaxGroups, uid <- vg.uid, used <- born,
               stage <- vg.phase, held <- vg.finalizer, leaving <- vg.deleting,
               group <- vg.gid, list <- vg.listed

\* The controller keeps the promise of GroupLifecycle: two writers working
\* from copies, with any call failing or conflicting, look like one that
\* works on an object that is neither Complete nor leaving.
Lifecycle == Life!Spec

-----------------------------------------------------------------------------
(* Progress.                                                               *)

\* How far an attempt is from its end.
Stage == [pend |-> 9, select |-> 8, call |-> 7, finalizer |-> 6, setgid |-> 5,
          member |-> 4, snapshot |-> 4, wait |-> 3, save |-> 2, resave |-> 1,
          policy |-> 2, delete |-> 1, fail |-> 1, idle |-> 0]

\* No attempt goes round in circles, whatever fails: each of its steps gets to
\* a later stage, or leaves fewer members to do, or is between the content and
\* the snapshot of a member.
AttemptsMoveOn ==
    [][ work.pc # "idle" /\ work' # work
          => \/ Stage[work'.pc] < Stage[work.pc]
             \/ /\ Stage[work'.pc] = Stage[work.pc]
                /\ \/ work'.todo \subseteq work.todo /\ work'.todo # work.todo
                   \/ /\ work.pc = "member" /\ work'.pc = "snapshot"
                      /\ work'.todo = work.todo ]_vars

-----------------------------------------------------------------------------
(* Liveness.                                                               *)

\* Every reconcile returns: neither the wait for the snapshots nor a failing
\* call holds the worker for ever.
ReconcileReturns == work.pc # "idle" ~> work.pc = "idle"

\* The deletion of a Complete group ends, through conflicts with the content
\* watcher, failing calls and crashes, unless its class goes and never comes
\* back.
DeletionEnds ==
    vg.deleting /\ vg.phase = "Complete"
      ~> vg.phase # "Complete" \/ [](class = "Missing")

\* A group does not stay Pending, whatever class, claims and array have in
\* store for it, unless the user deletes it or asks for both a label and a
\* list, or something disturbs the controller.
PendingEnds ==
    [](vg.selector = "one") =>
      (vg.phase = "Pending"
         ~> vg.phase # "Pending" \/ vg.deleting \/ faults < MaxFaults)
=============================================================================
