-------------------------- MODULE LifecycleProofs --------------------------
(***************************************************************************)
(* GroupSystem implements GroupLifecycle.  Every step that changes the     *)
(* stored object is a step of the abstract life: a write only takes effect *)
(* from a copy that is the stored object, so it is enough to know of the   *)
(* worker's copy that it is not Complete and not leaving while it is being *)
(* worked on, and that it is Complete and leaving while it is deleted.     *)
(***************************************************************************)
EXTENDS QueueProofs

\* What the worker knows of the object it deletes.
DeletingInv == work.pc \in Deleting => Deletable(mine)

\* deleteVg works only on an object that it saw Complete, held and leaving.
LEMMA DeletingNext ==
    ASSUME IInv, DeletingInv, [Next]_vars
    PROVE  DeletingInv'
<1>1. /\ work \in Workers
      /\ copy \in [Copies -> Groups] /\ Copies = {"cache", "worker", "handler"}
  BY DEF IInv, WorkerTypeOK, ObjectInv, Copies
<1>2. ASSUME work'.pc \notin Deleting
      PROVE  DeletingInv'
  BY <1>2 DEF DeletingInv
<1>3. ASSUME copy'["worker"] = copy["worker"], work'.pc \in Deleting => work.pc \in Deleting
      PROVE  DeletingInv'
  BY <1>3 DEF DeletingInv, mine
<1>4. ASSUME work' = Idle
      PROVE  DeletingInv'
  BY <1>2, <1>4 DEF Idle, Deleting
<1>5. CASE ~WorkerStep
  BY <1>2, <1>3, <1>5, WorkerAlone DEF Deleting
<1>6. CASE TakeStep
  <2>1. CASE ReconcileDeletion
    <3>1. copy'["worker"] = copy["cache"] /\ Deletable(cached)
      BY <1>1, <2>1 DEF ReconcileDeletion, TakeTo, Fetch
    <3> QED  BY <3>1 DEF DeletingInv, mine, cached
  <2>2. CASE ReconcileCreation
    <3>1. work'.pc = "pend"
      BY <1>1, <2>2 DEF ReconcileCreation, TakeTo, Goto, Workers
    <3> QED  BY <1>2, <3>1 DEF Deleting
  <2> QED
    BY <1>3, <1>6, <2>1, <2>2
    DEF TakeStep, ReconcileAbsent, ReconcileSettled, RefusePending, RefuseDeletion,
        TakeAndReturn
<1>7. CASE DeleteStep
  <2>1. CASE ReadPolicy
    BY <1>3, <1>4, <2>1 DEF ReadPolicy, Return, Deleting
  <2>2. ASSUME NEW m \in Members, DeleteMember(m)
        PROVE  DeletingInv'
    BY <1>3, <1>4, <2>2 DEF DeleteMember, Return, Deleting
  <2>3. CASE RemoveFinalizer
    BY <1>4, <2>3 DEF RemoveFinalizer, Return
  <2> QED  BY <1>7, <2>1, <2>2, <2>3 DEF DeleteStep
<1>8. CASE CreateStep
  <2>1. ASSUME NEW pc \in PCs \ Deleting, Goto(pc)
        PROVE  DeletingInv'
    BY <1>1, <1>2, <2>1 DEF Goto, Workers
  <2>2. CASE MarkPending \/ FailSelection \/ DriverFails \/ StartWait
    BY <2>1, <2>2
    DEF MarkPending, FailSelection, DriverFails, StartWait, PCs, Deleting
  <2>3. CASE RejectSelector \/ Fail \/ SaveAgain
    BY <1>4, <2>3 DEF RejectSelector, Fail, SaveAgain, Return
  <2>4. CASE AddFinalizer \/ SetGroupID
    BY <1>4, <2>1, <2>4
    DEF AddFinalizer, SetGroupID, UpdateOrReturn, Return, PCs, Deleting
  <2>5. CASE SelectVolumes \/ CallDriver
    <3>1. work'.pc \in {"call", "finalizer"}
      BY <1>1, <2>5 DEF SelectVolumes, CallDriver, Workers
    <3> QED  BY <1>2, <3>1 DEF Deleting
  <2>6. ASSUME NEW m, NEW err, Done(m, err)
        PROVE  DeletingInv'
    BY <1>1, <1>2, <2>6 DEF Done, Workers, Deleting
  <2>7. ASSUME NEW m \in Members, CreateContent(m) \/ ReuseSnapshot(m)
        PROVE  DeletingInv'
    <3>1. CASE work' = [work EXCEPT !.pc = "snapshot", !.cur = m]
      BY <1>1, <1>2, <3>1 DEF Workers, Deleting
    <3> QED  BY <2>6, <2>7, <3>1 DEF CreateContent, ReuseSnapshot
  <2>8. CASE CreateSnapshot
    <3>1. work.cur \in Members
      BY <2>8 DEF CreateSnapshot, IInv, WorkInv
    <3> QED  BY <2>6, <2>8, <3>1 DEF CreateSnapshot
  <2>9. CASE PollReady \/ TimeOut
    <3>1. work'.pc = "save"
      BY <1>1, <2>9 DEF PollReady, TimeOut, EndWait, Workers
    <3> QED  BY <1>2, <3>1 DEF Deleting
  <2>10. CASE SaveStatus
    <3>1. work'.pc = "resave"
      BY <1>1, <2>10 DEF SaveStatus, Goto, Workers
    <3> QED  BY <1>2, <3>1 DEF Deleting
  <2> QED
    BY <1>8, <2>2, <2>3, <2>4, <2>5, <2>7, <2>8, <2>9, <2>10 DEF CreateStep
<1> QED  BY <1>5, <1>6, <1>7, <1>8 DEF WorkerStep

-----------------------------------------------------------------------------
(* Steps map to steps.                                                     *)

\* A step of the abstract life, or a stutter.
LifeStep == Life!Next \/ UNCHANGED Life!life

\* What does not change the stored object is a stutter of its life.
LEMMA LifeStutter ==
    ASSUME UNCHANGED vg, UNCHANGED born
    PROVE  LifeStep
BY DEF LifeStep, Life!life

\* An object that the worker writes on its way to the outcome is one that the
\* abstract controller still works on.
LEMMA CopyIsWorking ==
    ASSUME IInv, CreationInv, vg = mine,
           work.pc \notin Deleting \cup {"idle", "resave"}
    PROVE  Life!Working
<1>1. mine.uid # 0 /\ mine.phase # "Complete" /\ ~mine.deleting
  BY DEF IInv, WorkInv, CreationInv
<1> QED  BY <1>1 DEF Life!Working

\* The worker's writes are the steps Begin, Fail, Hold, Finish and Go.
LEMMA LifeWorker ==
    ASSUME IInv, CreationInv, DeletingInv, WorkerStep
    PROVE  LifeStep
<1>1. mine \in Groups /\ (work.pc # "idle" => copy["worker"].uid # 0)
  BY DEF IInv, ObjectInv, WorkInv, mine, Copies
<1>2. UNCHANGED born
  BY DEF WorkerStep, TakeStep, CreateStep, DeleteStep, ReconcileAbsent,
         ReconcileSettled, RefusePending, RefuseDeletion, ReconcileDeletion,
         ReconcileCreation, TakeAndReturn, TakeTo, MarkPending, RejectSelector,
         FailSelection, SelectVolumes, CallDriver, DriverFails, Fail, AddFinalizer,
         SetGroupID, CreateContent, ReuseSnapshot, CreateSnapshot, StartWait,
         PollReady, TimeOut, EndWait, SaveStatus, SaveAgain, ReadPolicy,
         DeleteMember, RemoveFinalizer, groupVars
<1>3. ASSUME NEW new, NEW keep \in BOOLEAN, work.pc # "idle",
             Write("worker", new, keep) \/ WriteFails("worker", new, keep),
             vg = mine /\ vg' = new => LifeStep
      PROVE  LifeStep
  BY <1>1, <1>2, <1>3, WriteFromCurrent, LifeStutter DEF mine
<1>4. CASE MarkPending
  <2> DEFINE new == [mine EXCEPT !.phase = "Pending"]
  <2>1. work.pc = "pend" /\ (Write("worker", new, TRUE) \/ WriteFails("worker", new, TRUE))
    BY <1>4 DEF MarkPending
  <2>2. ASSUME vg = mine, vg' = new
        PROVE  LifeStep
    <3>1. Life!Working
      BY <2>1, <2>2, CopyIsWorking DEF Deleting
    <3>2. Life!Begin
      BY <1>1, <1>2, <2>2, <3>1 DEF Life!Begin, Groups
    <3> QED  BY <3>2 DEF LifeStep, Life!Next
  <2> HIDE DEF new
  <2> QED  BY <1>3, <2>1, <2>2
<1>5. CASE Fail
  <2> DEFINE new == [mine EXCEPT !.phase = "Error"]
  <2>1. work.pc = "fail" /\ (Write("worker", new, FALSE) \/ WriteFails("worker", new, FALSE))
    BY <1>5 DEF Fail
  <2>2. ASSUME vg = mine, vg' = new
        PROVE  LifeStep
    <3>1. Life!Working
      BY <2>1, <2>2, CopyIsWorking DEF Deleting
    <3>2. Life!Fail
      BY <1>1, <1>2, <2>2, <3>1 DEF Life!Fail, Groups
    <3> QED  BY <3>2 DEF LifeStep, Life!Next
  <2> HIDE DEF new
  <2> QED  BY <1>3, <2>1, <2>2
<1>6. CASE AddFinalizer
  <2> DEFINE new == [mine EXCEPT !.finalizer = TRUE]
  <2>1. work.pc = "finalizer"
    BY <1>6 DEF AddFinalizer
  <2>2. \/ UNCHANGED vg
        \/ Write("worker", new, TRUE) \/ WriteFails("worker", new, FALSE)
    BY <1>6 DEF AddFinalizer, UpdateOrReturn
  <2>3. ASSUME vg = mine, vg' = new
        PROVE  LifeStep
    <3>1. Life!Working
      BY <2>1, <2>3, CopyIsWorking DEF Deleting
    <3>2. Life!Hold
      BY <1>1, <1>2, <2>3, <3>1 DEF Life!Hold, Groups
    <3> QED  BY <3>2 DEF LifeStep, Life!Next
  <2> HIDE DEF new
  <2> QED  BY <1>2, <1>3, <2>1, <2>2, <2>3, LifeStutter
<1>7. CASE SetGroupID
  <2>1. /\ work.pc = "setgid"
        /\ \/ UNCHANGED vg
           \/ Write("worker", mine, TRUE) \/ WriteFails("worker", mine, FALSE)
    BY <1>7 DEF SetGroupID, UpdateOrReturn
  <2>2. vg = mine /\ vg' = mine => LifeStep
    BY <1>2, LifeStutter
  <2> QED  BY <1>2, <1>3, <2>1, <2>2, LifeStutter
<1>8. CASE SaveStatus \/ SaveAgain
  <2>1. /\ work.pc \in {"save", "resave"}
        /\ \E keep \in BOOLEAN :
             Write("worker", Outcome, keep) \/ WriteFails("worker", Outcome, keep)
    BY <1>8 DEF SaveStatus, SaveAgain
  <2>2. ASSUME vg = mine, vg' = Outcome
        PROVE  LifeStep
    <3>1. /\ mine.finalizer /\ work.group # 0 /\ mine.gid \in {0, work.group}
          /\ mine.uid # 0 /\ ~mine.deleting
          /\ mine.phase = "Complete" => work.ready /\ mine.listed = work.picked
      BY <2>1 DEF IInv, WorkInv, Answered, Guarded, Deleting, CreationInv
    <3>2. /\ vg'.uid = vg.uid /\ vg'.finalizer = vg.finalizer
          /\ vg'.deleting = vg.deleting /\ vg'.selector = vg.selector
          /\ vg'.phase = (IF work.ready THEN "Complete" ELSE "Error")
          /\ vg'.gid = work.group /\ vg'.listed = work.picked
      BY <1>1, <2>2 DEF Outcome, Groups
    <3>3. CASE mine.phase = "Complete"
      <4>1. vg.gid # 0
        BY <2>2, <3>3 DEF IInv, ObjectInv, Sound
      <4>2. UNCHANGED Life!life
        BY <1>2, <2>2, <3>1, <3>2, <3>3, <4>1 DEF Life!life
      <4> QED  BY <4>2 DEF LifeStep
    <3>4. CASE mine.phase # "Complete"
      <4>1. work.group \in 0..MaxGroups /\ work.picked \in SUBSET Members
        BY DEF IInv, WorkerTypeOK, Workers
      <4>2. Life!Working
        BY <2>2, <3>1, <3>4 DEF Life!Working
      <4>3. Life!Finish
        BY <1>2, <2>2, <3>1, <3>2, <4>1, <4>2 DEF Life!Finish
      <4> QED  BY <4>3 DEF LifeStep, Life!Next
    <3> QED  BY <3>3, <3>4
  <2> QED  BY <1>3, <2>1, <2>2
<1>9. CASE RemoveFinalizer
  <2>1. /\ work.pc = "delete"
        /\ Write("worker", NoGroup, FALSE) \/ WriteFails("worker", NoGroup, FALSE)
    BY <1>9 DEF RemoveFinalizer
  <2>2. ASSUME vg = mine, vg' = NoGroup
        PROVE  LifeStep
    <3>1. vg.deleting /\ vg.phase = "Complete" /\ vg.uid # 0
      BY <2>1, <2>2 DEF DeletingInv, Deleting, Deletable, IInv, WorkInv
    <3>2. Life!Go
      BY <1>2, <2>2, <3>1, NoGroupFields DEF Life!Go
    <3> QED  BY <3>2 DEF LifeStep, Life!Next
  <2> QED  BY <1>3, <2>1, <2>2
<1>10. CASE UNCHANGED vg
  BY <1>2, <1>10, LifeStutter
<1> QED
  BY <1>4, <1>5, <1>6, <1>7, <1>8, <1>9, <1>10
  DEF WorkerStep, TakeStep, ReconcileAbsent, ReconcileSettled, RefusePending,
      RefuseDeletion, ReconcileDeletion, ReconcileCreation, TakeAndReturn, TakeTo,
      CreateStep, RejectSelector, FailSelection, SelectVolumes, CallDriver,
      DriverFails, CreateContent, ReuseSnapshot, CreateSnapshot, StartWait,
      PollReady, TimeOut, EndWait, DeleteStep, ReadPolicy, DeleteMember, groupVars

\* A delete request is the step Leave or, of an object not held, Go.
LEMMA LifeRemoval ==
    ASSUME IInv, vg' = Deleted(vg), UNCHANGED born
    PROVE  LifeStep
<1>1. vg \in Groups /\ (vg.uid = 0 => vg = NoGroup)
  BY DEF IInv, ObjectInv, Sound
<1>2. CASE vg = NoGroup
  BY <1>2, LifeStutter, NoGroupFields DEF Deleted
<1>3. CASE vg # NoGroup /\ vg.finalizer
  <2>1. Life!Leave
    BY <1>1, <1>3 DEF Life!Leave, Deleted, Groups
  <2> QED  BY <2>1 DEF LifeStep, Life!Next
<1>4. CASE vg # NoGroup /\ ~vg.finalizer
  <2>1. Life!Go
    BY <1>1, <1>4, NoGroupFields DEF Life!Go, Deleted
  <2> QED  BY <2>1 DEF LifeStep, Life!Next
<1> QED  BY <1>2, <1>3, <1>4

\* Every step of the system is a step of the abstract life or a stutter.
LEMMA LifeNext ==
    ASSUME IInv, CreationInv, DeletingInv, [Next]_vars
    PROVE  LifeStep
<1>1. vg \in Groups
  BY DEF IInv, ObjectInv, Sound
<1>2. CASE WorkerStep
  BY <1>2, LifeWorker
<1>3. CASE StrikeOff
  <2> DEFINE left == copy["handler"].listed \ {watch.member}
             new == [copy["handler"] EXCEPT !.listed = left]
  <2>1. /\ copy["handler"].uid # 0
        /\ UNCHANGED born
        /\ Write("handler", new, FALSE) \/ WriteFails("handler", new, FALSE)
    BY <1>3 DEF StrikeOff, IInv, HandlerInv
  <2>2. ASSUME vg = copy["handler"], vg' = new
        PROVE  LifeStep
    <3>1. /\ vg'.uid = vg.uid /\ vg'.phase = vg.phase /\ vg'.gid = vg.gid
          /\ vg'.finalizer = vg.finalizer /\ vg'.deleting = vg.deleting
          /\ vg'.listed = vg.listed \ {watch.member}
      BY <1>1, <2>2 DEF Groups
    <3>2. CASE watch.member \in vg.listed
      <4>1. Life!Strike
        BY <2>1, <3>1, <3>2 DEF Life!Strike
      <4> QED  BY <4>1 DEF LifeStep, Life!Next
    <3>3. CASE watch.member \notin vg.listed
      <4>1. vg'.listed = vg.listed
        BY <3>1, <3>3
      <4> QED  BY <2>1, <3>1, <4>1 DEF LifeStep, Life!life
    <3> QED  BY <3>2, <3>3
  <2> HIDE DEF new
  <2> QED  BY <2>1, <2>2, WriteFromCurrent, LifeStutter
<1>4. CASE DeleteEmptyGroup \/ DeleteGroup
  BY <1>4, LifeRemoval, LifeStutter DEF DeleteEmptyGroup, DeleteGroup
<1>5. CASE CreateGroup
  <2>1. PICK s \in Selectors : vg' = [NoGroup EXCEPT !.uid = born + 1, !.selector = s]
    BY <1>5 DEF CreateGroup
  <2>2. /\ vg = NoGroup /\ born' = born + 1 /\ vg'.uid = born + 1
        /\ vg'.phase = NoGroup.phase /\ vg'.gid = NoGroup.gid
        /\ vg'.finalizer = NoGroup.finalizer /\ vg'.deleting = NoGroup.deleting
        /\ vg'.listed = NoGroup.listed
    BY <1>5, <2>1 DEF CreateGroup, NoGroup
  <2>3. Life!Request
    BY <2>2, NoGroupFields DEF Life!Request
  <2> QED  BY <2>3 DEF LifeStep, Life!Next
<1>6. CASE FixSelector
  BY <1>1, <1>6 DEF FixSelector, Groups, LifeStep, Life!life
<1>7. CASE UNCHANGED <<vg, born>>
  BY <1>7, LifeStutter
<1>8. ASSUME NEW m \in Members, MemberStep(m)
      PROVE  UNCHANGED <<vg, born>>
  BY <1>8
  DEF MemberStep, SyncSnapshot, BindSnapshot, MakeReady, RemoveSnapshot,
      RemoveContent, RemoveOrphan, DeleteSnapshot, groupVars
<1> QED
  BY <1>2, <1>3, <1>4, <1>5, <1>6, <1>7, <1>8
  DEF Next, WatchStep, HandleContentDelete, DropTombstone, Panic, Restart,
      EnvironmentStep, UserStep, TouchGroup, ChangeClass, SyncCache,
      BackoffExpires, Crash, vars, groupVars

\* The detailed system implements the abstract life of a group: the lagging
\* caches, the conflicting writers, the retries and the restarts of the code
\* show in no behaviour of the object that the abstract one does not have.
THEOREM Implements == Spec => Lifecycle
<1>1. Init => Life!Init
  BY NoGroupFields DEF Init, GroupInit, Life!Init
<1>2. Init => CreationInv /\ DeletingInv
  BY DEF Init, WorkerInit, Idle, CreationInv, DeletingInv, Deleting
<1>3. IInv /\ CreationInv /\ DeletingInv /\ [Next]_vars
        => CreationInv' /\ DeletingInv'
  BY CreationNext, DeletingNext
<1>4. IInv /\ CreationInv /\ DeletingInv /\ [Next]_vars => [Life!Next]_(Life!life)
  BY LifeNext DEF LifeStep
<1> QED
  BY <1>1, <1>2, <1>3, <1>4, Invariance, PTL DEF Spec, Lifecycle, Life!Spec
=============================================================================
