---------------------------- MODULE GroupClaims ----------------------------
(***************************************************************************)
(* What the repository's documents, comments and messages say of the       *)
(* controller and the code does not do.  Each claim is checked by a run of *)
(* its own, which shows the behaviour that breaks it.                      *)
(***************************************************************************)
EXTENDS GroupSystem

\* "wait till snapshot status is updated to done for all snapshots": when the
\* group becomes Complete (and ReadyToUse), every member it lists is there and
\* ready, also if some could not be created.
CompleteMeansReady ==
    [][ BecomesComplete => \A m \in vg'.listed : snap[m] = "ready" ]_vars

\* "All snapshotcontents have been deleted and we can delete the VG object":
\* the content watcher deletes a group only when no member has a content.
WatcherDeletesEmptyGroups ==
    [][ watch.pc = "delete" /\ vg' # vg
          => \A m \in Members : content[m] = NoContent ]_vars

Emptied ==
    /\ vg.phase = "Complete"
    /\ \A m \in Members : snap[m] = "absent" /\ m \notin orphans

\* "If all the snapshots are deleted, the VG will be also deleted
\* automatically": a Complete group none of whose members is left goes away.
EmptiedGroupGoes == Emptied ~> vg.deleting \/ vg = NoGroup

\* "Avoid creation of another snapshot": the phase Pending keeps the driver
\* from making a second snapshot group for the same object.
OneGroupPerObject ==
    \A g, h \in 1..MaxGroups : owner[g] = owner[h] /\ owner[g] # 0 => g = h

\* "crash-consistent snapshots of groups of volumes": when the group becomes
\* Complete, the contents of its members stand for one group of the array,
\* taken at one moment.
CompleteIsOneMoment ==
    [][ BecomesComplete =>
          \A m, n \in vg'.listed :
             content[m] # NoContent /\ content[n] # NoContent
               => content[m].status = content[n].status ]_vars
=============================================================================
