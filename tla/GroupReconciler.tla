-------------------------- MODULE GroupReconciler --------------------------
(***************************************************************************)
(* Reconcile, processResponse and deleteVg: the one worker that the work   *)
(* queue lets run for the group's key.  An action ends where the code      *)
(* calls out (API server, driver, ticker), so that everybody else may act  *)
(* between any two calls.                                                  *)
(***************************************************************************)
EXTENDS MemberObjects

CONSTANT Selections    \* sets of members that the selector may resolve to

ASSUME SelectionsAssumption ==
    Selections \subseteq (SUBSET Members) \ {{}}

VARIABLES
    work,     \* the worker: where it is and its local variables
    owner     \* for which uid the driver reported each group made

workerVars == <<work, owner>>

NoMember == "none"

PCs == {"idle", "pend", "select", "call", "finalizer", "setgid", "member",
        "snapshot", "wait", "save", "resave", "fail", "policy", "delete"}

\* group: the SnapshotGroupID of the response; picked: the members it lists;
\* todo: those the loop has not reached; cur: the member whose content has
\* been created; failed: snapErrors is not empty; ready: the result of
\* checkSnapshotStatus; policy: the class's deletion policy.
Workers == [pc : PCs, group : 0..MaxGroups, picked : SUBSET Members,
            todo : SUBSET Members, cur : Members \cup {NoMember},
            failed : BOOLEAN, ready : BOOLEAN, policy : {"Delete", "Retain"}]

Idle == [pc |-> "idle", group |-> 0, picked |-> {}, todo |-> {},
         cur |-> NoMember, failed |-> FALSE, ready |-> FALSE,
         policy |-> "Retain"]

WorkerTypeOK ==
    /\ work \in Workers
    /\ owner \in [1..MaxGroups -> 0..MaxUID]

WorkerInit ==
    /\ work = Idle
    /\ owner = [g \in 1..MaxGroups |-> 0]

mine == copy["worker"]
cached == copy["cache"]

Goto(pc) == work' = [work EXCEPT !.pc = pc]

\* Reconcile returns: an error puts the key back after the back-off.
Return(err) ==
    /\ work' = Idle
    /\ queue' = IF err THEN queue \cup {"delayed"} ELSE queue

\* Update or Status().Update of the worker's copy: go on, or return the error.
UpdateOrReturn(new, pc) ==
    \/ Write("worker", new, TRUE) /\ Goto(pc) /\ UNCHANGED queue
    \/ WriteFails("worker", new, FALSE) /\ Return(TRUE)

-----------------------------------------------------------------------------
(* Reconcile fetches the group and decides what to do with it.             *)

\* The branches that return at once.
TakeAndReturn(err) ==
    /\ work.pc = "idle"
    /\ "ready" \in queue
    /\ queue' = (queue \ {"ready"}) \cup (IF err THEN {"delayed"} ELSE {})
    /\ UNCHANGED <<vg, copy, stale, class, born, faults>>
    /\ UNCHANGED <<work, owner>>
    /\ UNCHANGED memberVars

TakeTo(pc) ==
    /\ work.pc = "idle"
    /\ "ready" \in queue
    /\ queue' = queue \ {"ready"}
    /\ Fetch("worker")
    /\ Goto(pc)
    /\ UNCHANGED <<vg, class, born, faults, owner>>
    /\ UNCHANGED memberVars

\* Slip: the idempotent case is not recognised.
UnsettledAlways(g) == g # NoGroup /\ ~g.deleting /\ g.phase # "Pending"

\* Slip: the deletion timestamp is looked at only where deleteVg is called.
UnsettledLeaving(g) ==
    /\ g # NoGroup
    /\ g.phase # "Pending"
    /\ ~(g.phase = "Complete" /\ g.gid # 0)

Deletable(g) == g.deleting /\ g.phase = "Complete" /\ g.finalizer
Settled(g) == ~g.deleting /\ g.phase = "Complete" /\ g.gid # 0
Unsettled(g) == g # NoGroup /\ ~g.deleting /\ g.phase # "Pending" /\ ~Settled(g)

ReconcileAbsent == cached = NoGroup /\ TakeAndReturn(FALSE)
ReconcileSettled == Settled(cached) /\ TakeAndReturn(FALSE)
RefusePending == cached.phase = "Pending" /\ ~cached.deleting /\ TakeAndReturn(TRUE)
RefuseDeletion == cached.deleting /\ ~Deletable(cached) /\ TakeAndReturn(TRUE)
ReconcileDeletion == Deletable(cached) /\ TakeTo("policy")
ReconcileCreation == Unsettled(cached) /\ TakeTo("pend")

-----------------------------------------------------------------------------
(* Creation, up to the driver's answer.                                    *)

\* An error of this write is only logged.
MarkPending ==
    /\ work.pc = "pend"
    /\ LET new == [mine EXCEPT !.phase = "Pending"]
       IN Write("worker", new, TRUE) \/ WriteFails("worker", new, TRUE)
    /\ Goto("select")
    /\ UNCHANGED <<queue, class, born, owner>>
    /\ UNCHANGED memberVars

\* Both a label and a list: an error, and the phase stays Pending.
RejectSelector ==
    /\ work.pc = "select"
    /\ mine.selector = "both"
    /\ Drop("worker")
    /\ Return(TRUE)
    /\ UNCHANGED <<vg, class, born, faults, owner>>
    /\ UNCHANGED memberVars

\* Slip: the error is returned but not recorded in the status.
FailSelectionUnrecorded ==
    /\ work.pc = "select"
    /\ mine.selector # "both"
    /\ \/ class \in {"Missing", "Foreign"} /\ UNCHANGED faults
       \/ class \notin {"Missing", "Foreign"} /\ Disturb("pvc")
    /\ Drop("worker")
    /\ Return(TRUE)
    /\ UNCHANGED <<vg, class, born, owner>>
    /\ UNCHANGED memberVars

\* The class is missing or of another driver, or a claim is not usable.
FailSelection ==
    /\ work.pc = "select"
    /\ mine.selector # "both"
    /\ \/ class \in {"Missing", "Foreign"} /\ UNCHANGED faults
       \/ class \notin {"Missing", "Foreign"} /\ Disturb("pvc")
    /\ Goto("fail")
    /\ UNCHANGED <<vg, copy, stale, queue, class, born, owner>>
    /\ UNCHANGED memberVars

SelectVolumes ==
    /\ work.pc = "select"
    /\ mine.selector # "both"
    /\ class \notin {"Missing", "Foreign"}
    /\ \E p \in Selections :
          work' = [work EXCEPT !.pc = "call", !.picked = p, !.todo = p]
    /\ UNCHANGED groupVars
    /\ UNCHANGED owner
    /\ UNCHANGED memberVars

FreeGroups == {g \in 1..MaxGroups : owner[g] = 0}

\* Slip: the driver is not told of the group that exists.
CallDriverAnew ==
    /\ work.pc = "call"
    /\ \E g \in FreeGroups :
          /\ owner' = [owner EXCEPT ![g] = mine.uid]
          /\ work' = [work EXCEPT !.pc = "finalizer", !.group = g]
    /\ UNCHANGED groupVars
    /\ UNCHANGED memberVars

\* Slip: a group made earlier under the name is taken for this object's.
CallDriverByName ==
    /\ work.pc = "call"
    /\ \E g \in 1..MaxGroups :
          /\ \A h \in 1..(g - 1) : owner[h] # 0
          /\ owner' = [owner EXCEPT ![g] = IF @ = 0 THEN mine.uid ELSE @]
          /\ work' = [work EXCEPT !.pc = "finalizer", !.group = g]
    /\ UNCHANGED groupVars
    /\ UNCHANGED memberVars

\* The driver makes a group, unless it is given the id of one to reuse.
CallDriver ==
    /\ work.pc = "call"
    /\ \/ /\ mine.gid = 0
          /\ \E g \in FreeGroups :
                /\ \A h \in FreeGroups : g <= h
                /\ owner' = [owner EXCEPT ![g] = mine.uid]
                /\ work' = [work EXCEPT !.pc = "finalizer", !.group = g]
       \/ /\ mine.gid # 0
          /\ work' = [work EXCEPT !.pc = "finalizer", !.group = mine.gid]
          /\ UNCHANGED owner
    /\ UNCHANGED groupVars
    /\ UNCHANGED memberVars

\* The array is full, the call fails, or it times out (csiclient's own limit)
\* after the array has made the group.
DriverFails ==
    /\ work.pc = "call"
    /\ \/ /\ mine.gid = 0
          /\ FreeGroups = {}
          /\ UNCHANGED <<owner, faults>>
       \/ Disturb("driver") /\ UNCHANGED owner
       \/ /\ mine.gid = 0
          /\ Disturb("driver")
          /\ \E g \in FreeGroups :
                /\ \A h \in FreeGroups : g <= h
                /\ owner' = [owner EXCEPT ![g] = mine.uid]
    /\ Goto("fail")
    /\ UNCHANGED <<vg, copy, stale, queue, class, born>>
    /\ UNCHANGED memberVars

\* Slip: a failure that is recorded is not returned.
FailQuietly ==
    /\ work.pc = "fail"
    /\ LET new == [mine EXCEPT !.phase = "Error"]
       IN Write("worker", new, FALSE) \/ WriteFails("worker", new, FALSE)
    /\ Return(FALSE)
    /\ UNCHANGED <<class, born, owner>>
    /\ UNCHANGED memberVars

\* Before and in the driver's call, a failure is recorded as phase Error.
Fail ==
    /\ work.pc = "fail"
    /\ LET new == [mine EXCEPT !.phase = "Error"]
       IN Write("worker", new, FALSE) \/ WriteFails("worker", new, FALSE)
    /\ Return(TRUE)
    /\ UNCHANGED <<class, born, owner>>
    /\ UNCHANGED memberVars

\* Slip: an error of the update is logged and not returned.
AddFinalizerMaybe ==
    /\ work.pc = "finalizer"
    /\ LET new == [mine EXCEPT !.finalizer = TRUE]
       IN Write("worker", new, TRUE) \/ WriteFails("worker", new, TRUE)
    /\ Goto("setgid")
    /\ UNCHANGED <<queue, class, born, owner>>
    /\ UNCHANGED memberVars

AddFinalizer ==
    /\ work.pc = "finalizer"
    /\ \/ /\ mine.finalizer
          /\ Goto("setgid")
          /\ UNCHANGED <<vg, copy, stale, queue, faults>>
       \/ /\ ~mine.finalizer
          /\ UpdateOrReturn([mine EXCEPT !.finalizer = TRUE], "setgid")
    /\ UNCHANGED <<class, born, owner>>
    /\ UNCHANGED memberVars

\* Slip: an error of the update is logged and not returned.
SetGroupIDMaybe ==
    /\ work.pc = "setgid"
    /\ \/ /\ mine.gid # 0
          /\ UNCHANGED <<vg, copy, stale, faults>>
       \/ /\ mine.gid = 0
          /\ Write("worker", mine, TRUE) \/ WriteFails("worker", mine, TRUE)
    /\ Goto("member")
    /\ UNCHANGED <<queue, class, born, owner>>
    /\ UNCHANGED memberVars

\* The status is a subresource: Update sends the group id and the server
\* ignores it, so a successful write changes nothing, and the local copy's
\* id is overwritten with the stored one.
SetGroupID ==
    /\ work.pc = "setgid"
    /\ \/ /\ mine.gid # 0
          /\ Goto("member")
          /\ UNCHANGED <<vg, copy, stale, queue, faults>>
       \/ /\ mine.gid = 0
          /\ UpdateOrReturn(mine, "member")
    /\ UNCHANGED <<class, born, owner>>
    /\ UNCHANGED memberVars

-----------------------------------------------------------------------------
(* processResponse: one content and one snapshot for each member.          *)

Absent(m) == Seen(m) = "absent"
Present == {m \in Members : snap[m] # "absent"}

\* Some content whose VolumeSnapshotRef names m is there to be found.
HasContent(m) == content[m] # NoContent \/ (snap[m] = "absent" /\ m \in orphans)

\* Slip: a member with an error stays in the loop.
DoneUnlessFailed(m, err) ==
    work' = [work EXCEPT !.pc = "member", !.cur = NoMember,
                         !.todo = IF err THEN @ ELSE @ \ {m}, !.failed = @ \/ err]

\* The loop is done with m, with or without an error for the list.
Done(m, err) ==
    work' = [work EXCEPT !.pc = "member", !.cur = NoMember,
                         !.todo = @ \ {m}, !.failed = @ \/ err]

\* No snapshot found: its content comes first, under a fresh name.
CreateContent(m) ==
    /\ work.pc = "member"
    /\ m \in work.todo
    /\ Absent(m)
    /\ \/ /\ work' = [work EXCEPT !.pc = "snapshot", !.cur = m]
          /\ UNCHANGED <<orphans, faults>>
       \/ Disturb("api") /\ Done(m, TRUE) /\ UNCHANGED orphans
       \/ Disturb("reply") /\ Done(m, TRUE) /\ orphans' = orphans \cup {m}
    /\ UNCHANGED <<vg, copy, stale, queue, class, born, owner>>
    /\ UNCHANGED <<snap, dying, content, seen, events>>

\* Then the snapshot that names it.  Its creation may be refused because a
\* snapshot the cache does not show exists, which leaves the content an
\* orphan.  The content is then read back, which fails if the cache lags.
CreateSnapshot ==
    LET m == work.cur IN
    /\ work.pc = "snapshot"
    /\ \/ /\ snap[m] = "absent"
          /\ snap' = [snap EXCEPT ![m] = "fresh"]
          /\ content' = [content EXCEPT ![m] = ContentOf(work.group)]
          /\ \/ UNCHANGED faults
                /\ \E miss \in {FALSE, "memberlag" \in Disturbances} : Done(m, miss)
             \/ Disturb("reply") /\ Done(m, TRUE)
          /\ UNCHANGED orphans
       \/ /\ \/ snap[m] # "absent" /\ UNCHANGED faults
             \/ snap[m] = "absent" /\ Disturb("api")
          /\ Done(m, TRUE)
          /\ orphans' = orphans \cup {m}
          /\ UNCHANGED <<snap, content>>
    /\ UNCHANGED <<vg, copy, stale, queue, class, born, owner>>
    /\ UNCHANGED <<dying, seen, events>>

\* Slip: a content standing for another group is reused as it is.
ReuseAsItIs(m) ==
    /\ work.pc = "member"
    /\ m \in work.todo
    /\ ~Absent(m)
    /\ HasContent(m)
    /\ Done(m, Seen(m) = "unready")
    /\ UNCHANGED <<vg, copy, stale, queue, class, born, faults, owner>>
    /\ UNCHANGED memberVars

\* A snapshot is found with its content: one that is not ready is an error;
\* otherwise it is reused, and a content standing for another group has its
\* status moved to the new one.
ReuseSnapshot(m) ==
    /\ work.pc = "member"
    /\ m \in work.todo
    /\ ~Absent(m)
    /\ HasContent(m)
    /\ \/ /\ Seen(m) = "unready"
          /\ Done(m, TRUE)
          /\ UNCHANGED <<content, faults>>
       \/ /\ Seen(m) # "unready"
          /\ content[m].spec \in {0, work.group}
          /\ Done(m, FALSE)
          /\ UNCHANGED <<content, faults>>
       \/ /\ Seen(m) # "unready"
          /\ content[m].spec \notin {0, work.group}
          /\ \/ /\ content' = [content EXCEPT ![m].status = work.group]
                /\ Done(m, FALSE)
                /\ UNCHANGED faults
             \/ Disturb("api") /\ Done(m, TRUE) /\ UNCHANGED content
             \/ /\ Disturb("reply")
                /\ content' = [content EXCEPT ![m].status = work.group]
                /\ Done(m, TRUE)
    /\ UNCHANGED <<vg, copy, stale, queue, class, born, owner>>
    /\ UNCHANGED <<snap, dying, orphans, seen, events>>

\* The snapshot is found and its content is not: checkExistingVolSnapshot
\* notes the error and then dereferences the missing handle.
Panics(m) ==
    /\ work.pc = "member"
    /\ m \in work.todo
    /\ ~Absent(m)
    /\ \/ ~HasContent(m)
       \/ "memberlag" \in Disturbances

StartWait ==
    /\ work.pc = "member"
    /\ work.todo = {}
    /\ Goto("wait")
    /\ UNCHANGED groupVars
    /\ UNCHANGED owner
    /\ UNCHANGED memberVars

\* checkReadyToUse passes over a snapshot that is missing or has no status.
ReadyToUse == \A m \in work.picked : Seen(m) # "unready"

EndWait(result) ==
    /\ work.pc = "wait"
    /\ work' = [work EXCEPT !.pc = "save", !.ready = result]
    /\ UNCHANGED groupVars
    /\ UNCHANGED owner
    /\ UNCHANGED memberVars

\* Slip: the timer is looked at only once the snapshots are ready.
TimeOutLate == ReadyToUse /\ EndWait(FALSE)

PollReady == ReadyToUse /\ EndWait(TRUE)
TimeOut == EndWait(FALSE)

\* The status after processing; member errors do not show in it.
Outcome == [mine EXCEPT !.phase = IF work.ready THEN "Complete" ELSE "Error",
                        !.gid = work.group,
                        !.listed = work.picked]

\* processResponse writes it and lists an error with the members' ...
SaveStatus ==
    /\ work.pc = "save"
    /\ \/ Write("worker", Outcome, TRUE) /\ Goto("resave")
       \/ /\ WriteFails("worker", Outcome, TRUE)
          /\ work' = [work EXCEPT !.pc = "resave", !.failed = TRUE]
    /\ UNCHANGED <<queue, class, born, owner>>
    /\ UNCHANGED memberVars

\* ... and Reconcile writes it again.  A timeout alone is not an error.
SaveAgain ==
    /\ work.pc = "resave"
    /\ \/ Write("worker", Outcome, FALSE) /\ Return(work.failed)
       \/ WriteFails("worker", Outcome, FALSE) /\ Return(TRUE)
    /\ UNCHANGED <<class, born, owner>>
    /\ UNCHANGED memberVars

-----------------------------------------------------------------------------
(* deleteVg.                                                               *)

ReadPolicy ==
    /\ work.pc = "policy"
    /\ \/ /\ class = "Missing"
          /\ Drop("worker")
          /\ Return(TRUE)
       \/ /\ class # "Missing"
          /\ LET policy == IF class = "Retain" THEN "Retain" ELSE "Delete"
             IN work' = [work EXCEPT !.pc = "delete", !.policy = policy,
                          !.todo = IF policy = "Delete" THEN mine.listed ELSE {}]
          /\ UNCHANGED <<copy, stale, queue>>
    /\ UNCHANGED <<vg, class, born, faults, owner>>
    /\ UNCHANGED memberVars

\* Slip: an error of a deletion is logged, and the loop goes on.
DeleteMemberMaybe(m) ==
    /\ work.pc = "delete"
    /\ m \in work.todo
    /\ \/ /\ dying' = IF Absent(m) THEN dying ELSE dying \cup ({m} \cap Present)
          /\ UNCHANGED faults
       \/ ~Absent(m) /\ Disturb("api") /\ UNCHANGED dying
    /\ work' = [work EXCEPT !.todo = @ \ {m}]
    /\ UNCHANGED <<vg, copy, stale, queue, class, born, owner>>
    /\ UNCHANGED <<snap, content, orphans, seen, events>>

\* Slip: an error of a deletion ends the attempt but is not returned.
DeleteMemberQuietly(m) ==
    /\ work.pc = "delete"
    /\ m \in work.todo
    /\ \/ /\ Absent(m) \/ m \in Present
          /\ dying' = IF Absent(m) THEN dying ELSE dying \cup {m}
          /\ work' = [work EXCEPT !.todo = @ \ {m}]
          /\ UNCHANGED <<copy, stale, queue, faults>>
       \/ /\ ~Absent(m)
          /\ m \notin Present
          /\ Drop("worker")
          /\ Return(FALSE)
          /\ UNCHANGED <<faults, dying>>
    /\ UNCHANGED <<vg, class, born, owner>>
    /\ UNCHANGED <<snap, content, orphans, seen, events>>

\* A snapshot that is not found is passed over; one that the server cannot
\* delete ends the attempt.
DeleteMember(m) ==
    /\ work.pc = "delete"
    /\ m \in work.todo
    /\ \/ /\ Absent(m) \/ m \in Present
          /\ dying' = IF Absent(m) THEN dying ELSE dying \cup {m}
          /\ work' = [work EXCEPT !.todo = @ \ {m}]
          /\ UNCHANGED <<copy, stale, queue, faults>>
       \/ /\ ~Absent(m)
          /\ \/ m \notin Present /\ UNCHANGED <<faults, dying>>
             \/ Disturb("api") /\ UNCHANGED dying
             \/ Disturb("reply") /\ dying' = dying \cup ({m} \cap Present)
          /\ Drop("worker")
          /\ Return(TRUE)
    /\ UNCHANGED <<vg, class, born, owner>>
    /\ UNCHANGED <<snap, content, orphans, seen, events>>

\* Slip: an error of the update is not returned.
RemoveFinalizerQuietly ==
    /\ work.pc = "delete"
    /\ work.todo = {}
    /\ Write("worker", NoGroup, FALSE) \/ WriteFails("worker", NoGroup, FALSE)
    /\ Return(FALSE)
    /\ UNCHANGED <<class, born, owner>>
    /\ UNCHANGED memberVars

\* Without its finalizer the object is gone.
RemoveFinalizer ==
    /\ work.pc = "delete"
    /\ work.todo = {}
    /\ \/ Write("worker", NoGroup, FALSE) /\ Return(FALSE)
       \/ WriteFails("worker", NoGroup, FALSE) /\ Return(TRUE)
    /\ UNCHANGED <<class, born, owner>>
    /\ UNCHANGED memberVars

-----------------------------------------------------------------------------
CreateStep ==
    \/ MarkPending \/ RejectSelector \/ FailSelection \/ SelectVolumes
    \/ CallDriver \/ DriverFails \/ Fail \/ AddFinalizer \/ SetGroupID
    \/ \E m \in Members : CreateContent(m) \/ ReuseSnapshot(m)
    \/ CreateSnapshot \/ StartWait \/ PollReady \/ TimeOut
    \/ SaveStatus \/ SaveAgain

DeleteStep ==
    ReadPolicy \/ (\E m \in Members : DeleteMember(m)) \/ RemoveFinalizer

TakeStep ==
    \/ ReconcileAbsent \/ ReconcileSettled \/ RefusePending \/ RefuseDeletion
    \/ ReconcileDeletion \/ ReconcileCreation

WorkerStep == TakeStep \/ CreateStep \/ DeleteStep
=============================================================================
