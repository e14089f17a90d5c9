---------------------------- MODULE QueueProofs ----------------------------
(***************************************************************************)
(* No work is forgotten.  The work queue is fed only by changes that the   *)
(* event filter lets through, so the invariant must say more than the      *)
(* property: when nothing is queued for an unfinished group and nobody     *)
(* works on it, the change that the cache has still to deliver is one the  *)
(* filter lets through.  That rests on every copy being an earlier version *)
(* of the stored object.                                                   *)
(***************************************************************************)
EXTENDS GroupSystemProofs

Unfinished(g) ==
    g # NoGroup /\ (g.deleting \/ g.phase = "Pending"
                       \/ (g.phase = "" /\ "relist" \notin Disturbances)
                       \/ (g.phase = "Error" /\ g.gid = 0))

\* Every copy is of an earlier object or an earlier version of this one.
HistoryInv ==
    /\ vg.uid \in 0..born
    /\ \A c \in Copies :
          /\ copy[c].uid \in 0..born
          /\ copy[c].uid = vg.uid => Kept(copy[c], vg)

CreationInv == work.pc \notin Deleting \cup {"idle"} => ~mine.deleting

\* An object that the cache has not shown yet is as the user made it.
UnseenInv ==
    vg # NoGroup /\ copy["cache"].uid # vg.uid =>
      /\ vg.phase = "" /\ ~vg.deleting /\ ~vg.finalizer
      /\ \A c \in Copies : copy[c].uid # vg.uid

PendingWorkInv ==
    Unfinished(vg) /\ queue = {} /\ work.pc = "idle"
      => Reconcilable(copy["cache"], vg)

QInv == HistoryInv /\ CreationInv /\ UnseenInv /\ PendingWorkInv

\* uid 0 is below every bound.
LEMMA ZeroIsFirst == \A n \in Nat : 0 \in 0..n
OBVIOUS

\* Being kept is reflexive and transitive, so it survives any number of steps.
LEMMA KeptIsPreorder ==
    /\ \A g : Kept(g, g)
    /\ \A g, h, i : Kept(g, h) /\ Kept(h, i) => Kept(g, i)
BY DEF Kept

\* Initially there is no object and nothing to remember.
LEMMA QInit == Init => QInv
<1> SUFFICES ASSUME Init PROVE QInv
  OBVIOUS
<1>1. /\ vg = NoGroup /\ born = 0 /\ work.pc = "idle"
      /\ \A c \in Copies : copy[c] = NoGroup
  BY DEF Init, GroupInit, WorkerInit, Idle
<1>2. HistoryInv
  <2>1. NoGroup.uid \in 0..born
    BY <1>1, NoGroupFields, ZeroIsFirst, 0 \in Nat
  <2>2. Kept(NoGroup, NoGroup)
    BY KeptIsPreorder
  <2> QED  BY <1>1, <2>1, <2>2 DEF HistoryInv
<1> QED  BY <1>1, <1>2 DEF QInv, CreationInv, UnseenInv, PendingWorkInv, Unfinished

-----------------------------------------------------------------------------
(* Copies are earlier versions.                                            *)

\* A copy comes from the cache or from the stored object.
LEMMA CopyStep ==
    ASSUME IInv, [Next]_vars, NEW c \in Copies
    PROVE  copy'[c] \in {copy[c], copy["cache"], NoGroup, vg, vg'}
<1>1. copy \in [Copies -> Groups] /\ Copies = {"cache", "worker", "handler"}
  BY DEF IInv, ObjectInv, Copies
<1>2. ASSUME NEW d \in Copies, NEW new, NEW keep \in BOOLEAN,
             Write(d, new, keep) \/ WriteFails(d, new, keep)
      PROVE  copy'[c] \in {copy[c], NoGroup, vg'}
  BY <1>1, <1>2 DEF Write, WriteFails
<1>3. ASSUME NEW d \in Copies, Fetch(d)
      PROVE  copy'[c] \in {copy[c], copy["cache"]}
  BY <1>1, <1>3 DEF Fetch
<1>4. ASSUME NEW d \in Copies, Drop(d)
      PROVE  copy'[c] \in {copy[c], NoGroup}
  BY <1>1, <1>4 DEF Drop
<1>5. CASE TakeStep
  BY <1>1, <1>3, <1>5
  DEF TakeStep, ReconcileAbsent, ReconcileSettled, RefusePending, RefuseDeletion,
      ReconcileDeletion, ReconcileCreation, TakeAndReturn, TakeTo
<1>6. CASE CreateStep
  <2>1. CASE MarkPending \/ Fail \/ SaveStatus \/ SaveAgain
    BY <1>1, <1>2, <2>1 DEF MarkPending, Fail, SaveStatus, SaveAgain
  <2>2. CASE AddFinalizer \/ SetGroupID
    BY <1>1, <1>2, <2>2 DEF AddFinalizer, SetGroupID, UpdateOrReturn
  <2>3. CASE RejectSelector
    BY <1>1, <1>4, <2>3 DEF RejectSelector
  <2>4. CASE UNCHANGED copy
    BY <2>4
  <2> QED
    BY <1>6, <2>1, <2>2, <2>3, <2>4
    DEF CreateStep, FailSelection, SelectVolumes, CallDriver, DriverFails,
        CreateContent, ReuseSnapshot, CreateSnapshot, StartWait, PollReady,
        TimeOut, EndWait, groupVars
<1>7. CASE DeleteStep
  <2>1. CASE RemoveFinalizer
    BY <1>1, <1>2, <2>1 DEF RemoveFinalizer
  <2>2. CASE UNCHANGED copy \/ Drop("worker")
    BY <1>1, <1>4, <2>2
  <2> QED  BY <1>7, <2>1, <2>2 DEF DeleteStep, ReadPolicy, DeleteMember
<1>8. CASE WatchStep
  <2>1. CASE StrikeOff
    BY <1>1, <1>2, <2>1 DEF StrikeOff
  <2>2. CASE UNCHANGED copy \/ Fetch("handler")
    BY <1>1, <1>3, <2>2
  <2> QED
    BY <1>8, <2>1, <2>2
    DEF WatchStep, HandleContentDelete, DropTombstone, DeleteEmptyGroup
<1>9. ASSUME NEW m \in Members, MemberStep(m)
      PROVE  UNCHANGED copy
  BY <1>9
  DEF MemberStep, SyncSnapshot, BindSnapshot, MakeReady, RemoveSnapshot,
      RemoveContent, RemoveOrphan, DeleteSnapshot, groupVars
<1>10. CASE Restart
  BY <1>1, <1>10 DEF Restart
<1>11. CASE SyncCache
  BY <1>1, <1>11 DEF SyncCache
<1>12. CASE UNCHANGED copy
  BY <1>12
<1> QED
  BY <1>5, <1>6, <1>7, <1>8, <1>9, <1>10, <1>11, <1>12
  DEF Next, WorkerStep, Panic, EnvironmentStep, UserStep, CreateGroup,
      DeleteGroup, FixSelector, TouchGroup, ChangeClass, BackoffExpires, Crash,
      vars, groupVars

\* uids are given in order, and only when no object exists.
LEMMA BornStep ==
    ASSUME IInv, [Next]_vars
    PROVE  born' = born \/ (born' = born + 1 /\ vg = NoGroup /\ vg'.uid = born + 1)
<1>1. CASE CreateGroup
  BY <1>1, NoGroupSound DEF CreateGroup, Sound, Groups
<1>2. ASSUME NEW m \in Members, MemberStep(m)
      PROVE  UNCHANGED born
  BY <1>2
  DEF MemberStep, SyncSnapshot, BindSnapshot, MakeReady, RemoveSnapshot,
      RemoveContent, RemoveOrphan, DeleteSnapshot, groupVars
<1> QED
  BY <1>1, <1>2
  DEF Next, WorkerStep, TakeStep, ReconcileAbsent, ReconcileSettled, RefusePending,
      RefuseDeletion, ReconcileDeletion, ReconcileCreation, TakeAndReturn, TakeTo,
      CreateStep, MarkPending, RejectSelector, FailSelection, SelectVolumes,
      CallDriver, DriverFails, Fail, AddFinalizer, SetGroupID, CreateContent,
      ReuseSnapshot, CreateSnapshot, StartWait, PollReady, TimeOut, EndWait,
      SaveStatus, SaveAgain, DeleteStep, ReadPolicy, DeleteMember, RemoveFinalizer,
      WatchStep, HandleContentDelete, DropTombstone, StrikeOff, DeleteEmptyGroup,
      Panic, Restart, Crash, EnvironmentStep, UserStep, DeleteGroup, FixSelector,
      TouchGroup, ChangeClass, SyncCache, BackoffExpires, vars, groupVars

\* Every copy remains an earlier version of the object it is a copy of.
LEMMA HistoryNext ==
    ASSUME IInv, HistoryInv, [Next]_vars
    PROVE  HistoryInv'
<1>1. born \in Nat /\ VgStep
  BY NextVgStep, BoundsAssumption DEF IInv, QueueTypeOK
<1>2. born' \in Nat /\ 0..born \subseteq 0..born' /\ 0 \in 0..born'
  BY <1>1, BornStep
<1>3. vg'.uid \in 0..born'
  <2>1. vg.uid \in 0..born'
    BY <1>2 DEF HistoryInv
  <2>2. CASE born' = born + 1 /\ vg'.uid = born + 1
    BY <1>2, <2>2
  <2> QED  BY <1>1, <1>2, <2>1, <2>2, NoGroupFields DEF VgStep
<1>4. ASSUME NEW c \in Copies
      PROVE  /\ copy'[c].uid \in 0..born'
             /\ copy'[c].uid = vg'.uid => Kept(copy'[c], vg')
  <2>1. ASSUME NEW o, Sound(o), o.uid \in 0..born, o.uid = vg.uid => Kept(o, vg)
        PROVE  o.uid \in 0..born' /\ (o.uid = vg'.uid => Kept(o, vg'))
    <3>1. o.uid \in 0..born'
      BY <1>2, <2>1
    <3>2. CASE vg' = vg
      BY <2>1, <3>1, <3>2
    <3>3. CASE vg'.uid = born + 1
      BY <1>1, <2>1, <3>1, <3>3
    <3>4. CASE vg' = NoGroup
      BY <2>1, <3>1, <3>4, NoGroupFields, KeptIsPreorder DEF Sound
    <3>5. CASE vg'.uid = vg.uid /\ Kept(vg, vg')
      BY <2>1, <3>1, <3>5, KeptIsPreorder
    <3> QED  BY <1>1, <3>2, <3>3, <3>4, <3>5 DEF VgStep
  <2>2. CASE copy'[c] \in {copy[c], copy["cache"]}
    BY <2>1, <2>2 DEF HistoryInv, IInv, ObjectInv, Copies
  <2>3. CASE copy'[c] = NoGroup
    <3>1. NoGroup.uid = vg.uid => NoGroup = vg
      BY NoGroupFields DEF IInv, ObjectInv, Sound
    <3>2. NoGroup.uid \in 0..born
      BY <1>1, NoGroupFields, ZeroIsFirst
    <3> QED
      BY <2>1, <2>3, <3>1, <3>2, NoGroupSound, KeptIsPreorder
  <2>4. CASE copy'[c] = vg
    BY <2>1, <2>4, KeptIsPreorder DEF HistoryInv, IInv, ObjectInv
  <2>5. CASE copy'[c] = vg'
    BY <1>3, <2>5, KeptIsPreorder
  <2> QED  BY <2>2, <2>3, <2>4, <2>5, CopyStep
<1> QED  BY <1>3, <1>4 DEF HistoryInv

-----------------------------------------------------------------------------
(* What the cache has not shown, the controller has not touched.           *)

\* The cache takes over the stored object and nothing else.
LEMMA CacheStep ==
    ASSUME IInv, [Next]_vars
    PROVE  copy'["cache"] \in {copy["cache"], vg}
<1>1. copy \in [Copies -> Groups] /\ Copies = {"cache", "worker", "handler"}
  BY DEF IInv, ObjectInv, Copies
<1>2. ASSUME NEW d \in {"worker", "handler"}, NEW new, NEW keep \in BOOLEAN,
             Write(d, new, keep) \/ WriteFails(d, new, keep) \/ Fetch(d) \/ Drop(d)
      PROVE  copy'["cache"] = copy["cache"]
  BY <1>1, <1>2 DEF Write, WriteFails, Fetch, Drop
<1>3. CASE TakeStep
  BY <1>2, <1>3
  DEF TakeStep, ReconcileAbsent, ReconcileSettled, RefusePending, RefuseDeletion,
      ReconcileDeletion, ReconcileCreation, TakeAndReturn, TakeTo
<1>4. CASE MarkPending \/ Fail \/ SaveStatus \/ SaveAgain
  BY <1>2, <1>4 DEF MarkPending, Fail, SaveStatus, SaveAgain
<1>5. CASE AddFinalizer \/ SetGroupID \/ RejectSelector
  BY <1>2, <1>5 DEF AddFinalizer, SetGroupID, RejectSelector, UpdateOrReturn
<1>6. CASE DeleteStep
  <2>1. CASE RemoveFinalizer
    BY <1>2, <2>1 DEF RemoveFinalizer
  <2>2. CASE UNCHANGED copy \/ Drop("worker")
    BY <1>2, <2>2
  <2> QED  BY <1>6, <2>1, <2>2 DEF DeleteStep, ReadPolicy, DeleteMember
<1>7. CASE WatchStep
  <2>1. CASE StrikeOff
    BY <1>2, <2>1 DEF StrikeOff
  <2>2. CASE UNCHANGED copy \/ Fetch("handler")
    BY <1>2, <2>2
  <2> QED
    BY <1>7, <2>1, <2>2
    DEF WatchStep, HandleContentDelete, DropTombstone, DeleteEmptyGroup
<1>8. ASSUME NEW m \in Members, MemberStep(m)
      PROVE  UNCHANGED copy
  BY <1>8
  DEF MemberStep, SyncSnapshot, BindSnapshot, MakeReady, RemoveSnapshot,
      RemoveContent, RemoveOrphan, DeleteSnapshot, groupVars
<1>9. CASE Restart \/ SyncCache
  BY <1>1, <1>9 DEF Restart, SyncCache
<1>10. CASE UNCHANGED copy
  BY <1>10
<1> QED
  BY <1>3, <1>4, <1>5, <1>6, <1>7, <1>8, <1>9, <1>10
  DEF Next, WorkerStep, CreateStep, FailSelection, SelectVolumes, CallDriver,
      DriverFails, CreateContent, ReuseSnapshot, CreateSnapshot, StartWait,
      PollReady, TimeOut, EndWait, Panic, EnvironmentStep, UserStep, CreateGroup,
      DeleteGroup, FixSelector, TouchGroup, ChangeClass, BackoffExpires, Crash,
      vars, groupVars

\* While no copy is of the stored object, every write of the controller fails,
\* and a deletion removes the object at once.
LEMMA UnseenStep ==
    ASSUME IInv, [Next]_vars, vg # NoGroup, ~vg.finalizer,
           \A c \in Copies : copy[c].uid # vg.uid
    PROVE  \/ vg' = NoGroup
           \/ vg' = vg /\ copy'["cache"] = vg
           \/ /\ vg' = vg \/ vg' = [vg EXCEPT !.selector = "one"]
              /\ \A c \in Copies : copy'[c] \in {copy[c], copy["cache"], NoGroup}
<1> DEFINE Same == /\ vg' = vg
                   /\ \A c \in Copies : copy'[c] \in {copy[c], copy["cache"], NoGroup}
<1>1. copy \in [Copies -> Groups] /\ Copies = {"cache", "worker", "handler"}
  BY DEF IInv, ObjectInv, Copies
<1>2. ASSUME NEW d \in {"worker", "handler"}, copy[d].uid # 0,
             NEW new, NEW keep \in BOOLEAN,
             Write(d, new, keep) \/ WriteFails(d, new, keep)
      PROVE  Same
  <2>1. d \in stale
    BY <1>1, <1>2, NoGroupFields DEF IInv, ObjectInv, Holders
  <2> QED  BY <1>1, <1>2, <2>1 DEF Write, WriteFails
<1>3. ASSUME NEW d \in Copies, Fetch(d) \/ Drop(d), vg' = vg
      PROVE  Same
  BY <1>1, <1>3 DEF Fetch, Drop
<1>4. CASE UNCHANGED <<vg, copy>>
  BY <1>4
<1>5. CASE TakeStep
  BY <1>1, <1>3, <1>4, <1>5
  DEF TakeStep, ReconcileAbsent, ReconcileSettled, RefusePending, RefuseDeletion,
      ReconcileDeletion, ReconcileCreation, TakeAndReturn, TakeTo
<1>6. CASE CreateStep
  <2>1. work.pc # "idle" => copy["worker"].uid # 0
    BY DEF IInv, WorkInv, mine
  <2>2. ASSUME work.pc # "idle", NEW new, NEW keep \in BOOLEAN,
               Write("worker", new, keep) \/ WriteFails("worker", new, keep)
        PROVE  Same
    BY <1>2, <2>1, <2>2
  <2>3. CASE MarkPending \/ Fail
    BY <2>2, <2>3 DEF MarkPending, Fail
  <2>4. CASE SaveStatus \/ SaveAgain
    BY <2>2, <2>4 DEF SaveStatus, SaveAgain
  <2>5. CASE AddFinalizer \/ SetGroupID
    BY <1>4, <2>2, <2>5 DEF AddFinalizer, SetGroupID, UpdateOrReturn
  <2>6. CASE RejectSelector
    BY <1>1, <1>3, <2>6 DEF RejectSelector
  <2> QED
    BY <1>4, <1>6, <2>3, <2>4, <2>5, <2>6
    DEF CreateStep, FailSelection, SelectVolumes, CallDriver, DriverFails,
        CreateContent, ReuseSnapshot, CreateSnapshot, StartWait, PollReady,
        TimeOut, EndWait, groupVars
<1>7. CASE DeleteStep
  <2>1. CASE RemoveFinalizer
    <3>1. copy["worker"].uid # 0
      BY <2>1 DEF RemoveFinalizer, IInv, WorkInv, mine
    <3> QED  BY <1>2, <2>1, <3>1 DEF RemoveFinalizer
  <2>2. CASE vg' = vg /\ (UNCHANGED copy \/ Drop("worker"))
    BY <1>1, <1>3, <1>4, <2>2
  <2> QED  BY <1>7, <2>1, <2>2 DEF DeleteStep, ReadPolicy, DeleteMember
<1>8. CASE WatchStep
  <2>1. CASE StrikeOff
    <3>1. copy["handler"].uid # 0
      BY <2>1 DEF StrikeOff, IInv, HandlerInv
    <3> QED  BY <1>2, <2>1, <3>1 DEF StrikeOff
  <2>2. CASE DeleteEmptyGroup
    BY <1>4, <2>2 DEF DeleteEmptyGroup, Deleted
  <2>3. CASE vg' = vg /\ (UNCHANGED copy \/ Fetch("handler"))
    BY <1>1, <1>3, <1>4, <2>3
  <2> QED
    BY <1>8, <2>1, <2>2, <2>3 DEF WatchStep, HandleContentDelete, DropTombstone
<1>9. ASSUME NEW m \in Members, MemberStep(m)
      PROVE  UNCHANGED <<vg, copy>>
  BY <1>9
  DEF MemberStep, SyncSnapshot, BindSnapshot, MakeReady, RemoveSnapshot,
      RemoveContent, RemoveOrphan, DeleteSnapshot, groupVars
<1>10. CASE Restart \/ SyncCache
  BY <1>1, <1>10 DEF Restart, SyncCache
<1>11. CASE UserStep
  BY <1>4, <1>11
  DEF UserStep, CreateGroup, DeleteGroup, Deleted, FixSelector, TouchGroup, ChangeClass
<1> QED
  BY <1>4, <1>5, <1>6, <1>7, <1>8, <1>9, <1>10, <1>11
  DEF Next, WorkerStep, Panic, EnvironmentStep, BackoffExpires, Crash, vars, groupVars

\* An object is untouched until the cache shows it.
LEMMA UnseenNext ==
    ASSUME IInv, HistoryInv, UnseenInv, [Next]_vars
    PROVE  UnseenInv'
<1>1. /\ vg \in Groups /\ copy \in [Copies -> Groups] /\ "cache" \in Copies
      /\ born \in Nat /\ VgStep
  BY NextVgStep, BoundsAssumption DEF IInv, ObjectInv, Sound, Copies, QueueTypeOK
<1>2. CASE vg' = NoGroup \/ copy'["cache"].uid = vg'.uid
  BY <1>2 DEF UnseenInv
<1>3. CASE vg = NoGroup /\ vg' # NoGroup
  <2>1. CreateGroup /\ UNCHANGED copy
    <3>1. vg'.uid = 0 => vg' = NoGroup
      BY NextInv DEF IInv, ObjectInv, Sound
    <3>2. vg'.uid # vg.uid
      BY <1>3, <3>1, NoGroupFields
    <3> QED  BY <1>1, <1>3, <3>2 DEF VgStep, CreateGroup
  <2>2. vg'.uid = born + 1 /\ vg'.phase = "" /\ ~vg'.deleting /\ ~vg'.finalizer
    BY <2>1, NoGroupSound DEF CreateGroup, Sound, Groups, NoGroup
  <2>3. \A c \in Copies : copy'[c].uid # vg'.uid
    <3>1. \A n \in 0..born : n # born + 1
      BY <1>1
    <3>2. \A c \in Copies : copy[c].uid \in 0..born
      BY DEF HistoryInv
    <3> QED  BY <2>1, <2>2, <3>1, <3>2
  <2> QED  BY <2>2, <2>3 DEF UnseenInv
<1>4. CASE vg # NoGroup /\ vg' # NoGroup /\ copy'["cache"].uid # vg'.uid
  <2>1. vg'.uid = vg.uid
    BY <1>4, <1>1 DEF VgStep
  <2>2. CASE copy["cache"].uid = vg.uid
    <3>1. copy'["cache"] \in {copy["cache"], vg}
      BY CacheStep
    <3> QED  BY <1>4, <2>1, <2>2, <3>1
  <2>3. CASE copy["cache"].uid # vg.uid
    <3>1. /\ vg.phase = "" /\ ~vg.deleting /\ ~vg.finalizer
          /\ \A c \in Copies : copy[c].uid # vg.uid
      BY <1>4, <2>3 DEF UnseenInv
    <3>2. /\ vg' = vg \/ vg' = [vg EXCEPT !.selector = "one"]
          /\ \A c \in Copies : copy'[c] \in {copy[c], copy["cache"], NoGroup}
      BY <1>4, <2>1, <3>1, UnseenStep
    <3>3. vg'.phase = "" /\ ~vg'.deleting /\ ~vg'.finalizer
      BY <1>1, <3>1, <3>2 DEF Groups
    <3>4. vg.uid # NoGroup.uid
      BY <1>4, NoGroupFields DEF IInv, ObjectInv, Sound
    <3>5. \A c \in Copies : copy'[c].uid # vg'.uid
      BY <1>1, <2>1, <3>1, <3>2, <3>4
    <3> QED  BY <3>3, <3>5 DEF UnseenInv
  <2> QED  BY <2>2, <2>3
<1> QED  BY <1>2, <1>3, <1>4

-----------------------------------------------------------------------------
(* While a group is being created the worker's copy is not deleted.        *)

\* The creation path never works on an object it sees being deleted.
LEMMA CreationNext ==
    ASSUME IInv, CreationInv, [Next]_vars
    PROVE  CreationInv'
<1>1. /\ work \in Workers
      /\ mine \in Groups
      /\ copy \in [Copies -> Groups] /\ Copies = {"cache", "worker", "handler"}
  BY DEF IInv, WorkerTypeOK, ObjectInv, Copies, mine
<1>2. ASSUME work'.pc \in Deleting \cup {"idle"}
      PROVE  CreationInv'
  BY <1>2 DEF CreationInv, Deleting
<1>3. ASSUME mine'.deleting = mine.deleting, work.pc \notin Deleting \cup {"idle"}
      PROVE  CreationInv'
  BY <1>3 DEF CreationInv
<1>4. ASSUME work' = work, copy'["worker"] = copy["worker"]
      PROVE  CreationInv'
  BY <1>4 DEF CreationInv, mine
<1>5. CASE ~WorkerStep
  BY <1>2, <1>4, <1>5, WorkerAlone
<1>6. CASE TakeStep
  <2>1. CASE ReconcileCreation
    <3>1. copy'["worker"] = copy["cache"] /\ ~cached.deleting
      BY <1>1, <2>1 DEF ReconcileCreation, Unsettled, TakeTo, Fetch
    <3> QED  BY <3>1 DEF CreationInv, mine, cached
  <2>2. CASE ReconcileDeletion
    <3>1. work'.pc = "policy"
      BY <1>1, <2>2 DEF ReconcileDeletion, TakeTo, Goto, Workers
    <3> QED  BY <1>2, <3>1 DEF Deleting
  <2> QED
    BY <1>4, <1>6, <2>1, <2>2
    DEF TakeStep, ReconcileAbsent, ReconcileSettled, RefusePending, RefuseDeletion,
        TakeAndReturn
<1>7. CASE DeleteStep
  <2>1. CASE \E err \in BOOLEAN : Return(err)
    BY <1>2, <2>1 DEF Return, Idle
  <2>2. ASSUME NEW policy, NEW todo,
               work' = [work EXCEPT !.pc = "delete", !.policy = policy, !.todo = todo]
        PROVE  CreationInv'
    BY <1>1, <1>2, <2>2 DEF Deleting, Workers
  <2>3. ASSUME NEW todo, work.pc = "delete", work' = [work EXCEPT !.todo = todo]
        PROVE  CreationInv'
    BY <1>1, <1>2, <2>3 DEF Deleting, Workers
  <2>4. CASE ReadPolicy
    BY <2>1, <2>2, <2>4 DEF ReadPolicy
  <2>5. ASSUME NEW m \in Members, DeleteMember(m)
        PROVE  CreationInv'
    BY <2>1, <2>3, <2>5 DEF DeleteMember
  <2>6. CASE RemoveFinalizer
    BY <2>1, <2>6 DEF RemoveFinalizer
  <2> QED  BY <1>7, <2>4, <2>5, <2>6 DEF DeleteStep
<1>8. CASE CreateStep
  <2>1. work.pc \notin Deleting \cup {"idle"}
    BY <1>8
    DEF Deleting, CreateStep, MarkPending, RejectSelector, FailSelection,
        SelectVolumes, CallDriver, DriverFails, Fail, AddFinalizer, SetGroupID,
        CreateContent, ReuseSnapshot, CreateSnapshot, StartWait, PollReady,
        TimeOut, EndWait, SaveStatus, SaveAgain
  <2>2. CASE MarkPending
    <3> DEFINE new == [mine EXCEPT !.phase = "Pending"]
    <3>1. new.deleting = mine.deleting
      BY <1>1 DEF Groups
    <3> HIDE DEF new
    <3>2. Write("worker", new, TRUE) \/ WriteFails("worker", new, TRUE)
      BY <2>2 DEF MarkPending, new
    <3>3. mine' \in {mine, new}
      BY <1>1, <3>2 DEF Write, WriteFails, mine
    <3> QED  BY <1>3, <2>1, <3>1, <3>3
  <2>3. CASE AddFinalizer
    <3> DEFINE new == [mine EXCEPT !.finalizer = TRUE]
    <3>1. new.deleting = mine.deleting
      BY <1>1 DEF Groups
    <3> HIDE DEF new
    <3>2. \/ UNCHANGED copy
          \/ Write("worker", new, TRUE)
          \/ Return(TRUE)
      BY <2>3 DEF AddFinalizer, UpdateOrReturn, new
    <3> QED
      BY <1>1, <1>2, <1>3, <2>1, <3>1, <3>2 DEF Write, Return, Idle, mine
  <2>4. CASE SetGroupID
    <3>1. \/ UNCHANGED copy
          \/ Write("worker", mine, TRUE)
          \/ Return(TRUE)
      BY <2>4 DEF SetGroupID, UpdateOrReturn
    <3> QED
      BY <1>1, <1>2, <1>3, <2>1, <3>1 DEF Write, Return, Idle, mine
  <2>5. CASE SaveStatus
    <3>1. Outcome.deleting = mine.deleting
      BY <1>1 DEF Outcome, Groups
    <3>2. mine' \in {mine, Outcome}
      BY <1>1, <2>5 DEF SaveStatus, Write, WriteFails, mine
    <3> QED  BY <1>3, <2>1, <3>1, <3>2
  <2>6. CASE RejectSelector \/ Fail \/ SaveAgain
    <3>1. work' = Idle
      BY <2>6 DEF RejectSelector, Fail, SaveAgain, Return
    <3> QED  BY <1>2, <3>1 DEF Idle
  <2>7. CASE UNCHANGED copy
    BY <1>3, <2>1, <2>7 DEF mine
  <2> QED
    BY <1>8, <2>2, <2>3, <2>4, <2>5, <2>6, <2>7
    DEF CreateStep, FailSelection, SelectVolumes, CallDriver, DriverFails,
        CreateContent, ReuseSnapshot, CreateSnapshot, StartWait, PollReady,
        TimeOut, EndWait, groupVars
<1> QED  BY <1>5, <1>6, <1>7, <1>8 DEF WorkerStep

-----------------------------------------------------------------------------
(* The work that is left is queued, in progress, or about to be delivered. *)

\* A change of the stored object under a cache that is an earlier version.
LEMMA PendingWorkChange ==
    ASSUME IInv, HistoryInv, PendingWorkInv,
           queue = {}, work.pc = "idle", UNCHANGED copy,
           CreateGroup \/ FixSelector \/ vg' = Deleted(vg) \/ vg' = vg
    PROVE  PendingWorkInv'
<1>1. /\ vg \in Groups /\ born \in Nat
      /\ copy["cache"].uid \in 0..born
      /\ copy["cache"].uid = vg.uid => Kept(copy["cache"], vg)
  BY BoundsAssumption DEF IInv, ObjectInv, Sound, QueueTypeOK, HistoryInv, Copies
<1>2. ASSUME Unfinished(vg') => Reconcilable(copy["cache"], vg')
      PROVE  PendingWorkInv'
  BY <1>2 DEF PendingWorkInv, Unfinished, Reconcilable, SameGeneration
<1>3. CASE CreateGroup
  <2>1. vg'.uid = born + 1
    BY <1>3, NoGroupSound DEF CreateGroup, Sound, Groups
  <2>2. copy["cache"].uid # vg'.uid
    BY <1>1, <2>1
  <2> QED  BY <1>2, <2>2 DEF Reconcilable, SameGeneration
<1>4. CASE FixSelector
  <2>1. vg.selector = "both" /\ vg'.selector = "one" /\ vg'.uid = vg.uid
    BY <1>1, <1>4 DEF FixSelector, Groups
  <2>2. copy["cache"].uid = vg'.uid => copy["cache"].selector # vg'.selector
    BY <1>1, <2>1 DEF Kept
  <2> QED  BY <1>2, <2>2 DEF Reconcilable, SameGeneration
<1>5. CASE vg' = Deleted(vg)
  <2>1. CASE ~vg.finalizer
    BY <1>2, <1>5, <2>1 DEF Deleted, Unfinished
  <2>2. CASE vg.finalizer /\ ~vg.deleting
    <3>1. vg'.deleting = TRUE /\ vg'.uid = vg.uid
      BY <1>1, <1>5, <2>2 DEF Deleted, Groups
    <3>2. copy["cache"].uid = vg'.uid => ~copy["cache"].deleting
      BY <1>1, <2>2, <3>1 DEF Kept
    <3> QED  BY <1>2, <3>1, <3>2 DEF Reconcilable, SameGeneration
  <2>3. CASE vg.finalizer /\ vg.deleting
    <3>1. vg' = vg
      BY <1>1, <1>5, <2>3 DEF Deleted, Groups
    <3> QED  BY <1>2, <3>1 DEF PendingWorkInv
  <2> QED  BY <2>1, <2>2, <2>3
<1>6. CASE vg' = vg
  BY <1>2, <1>6 DEF PendingWorkInv
<1> QED  BY <1>3, <1>4, <1>5, <1>6

\* The worker: what it drops is finished or queued again.
LEMMA PendingWorkWorker ==
    ASSUME IInv, QInv, WorkerStep
    PROVE  PendingWorkInv'
<1>1. /\ work \in Workers
      /\ mine \in Groups
      /\ cached \in Groups /\ (cached.uid = vg.uid => Kept(cached, vg))
      /\ Sound(vg)
      /\ Copies = {"cache", "worker", "handler"}
  BY DEF IInv, WorkerTypeOK, ObjectInv, Copies, mine, cached, QInv, HistoryInv
<1>2. ASSUME work'.pc # "idle" \/ queue' # {} \/ ~Unfinished(vg')
      PROVE  PendingWorkInv'
  BY <1>2 DEF PendingWorkInv, Unfinished
<1>3. CASE Return(TRUE)
  BY <1>2, <1>3 DEF Return
<1>4. CASE RefusePending \/ RefuseDeletion
  BY <1>2, <1>4 DEF RefusePending, RefuseDeletion, TakeAndReturn
<1>5. CASE ReconcileAbsent \/ ReconcileSettled
  <2>1. UNCHANGED <<vg, copy>>
    BY <1>5 DEF ReconcileAbsent, ReconcileSettled, TakeAndReturn
  <2>2. Unfinished(vg) => Reconcilable(cached, vg)
    <3>1. CASE cached = NoGroup
      BY <1>1, <3>1, NoGroupFields DEF Sound, Unfinished, Reconcilable, SameGeneration
    <3>2. CASE Settled(cached)
      BY <1>1, <3>2 DEF Settled, Kept, Unfinished, Reconcilable, SameGeneration
    <3> QED  BY <1>5, <3>1, <3>2 DEF ReconcileAbsent, ReconcileSettled
  <2> QED  BY <2>1, <2>2 DEF PendingWorkInv, Unfinished, Reconcilable, SameGeneration, cached
<1>6. CASE ReconcileDeletion \/ ReconcileCreation
  BY <1>1, <1>2, <1>6
  DEF ReconcileDeletion, ReconcileCreation, TakeTo, Goto, Workers
<1>7. ASSUME NEW pc \in PCs \ {"idle"}, Goto(pc)
      PROVE  PendingWorkInv'
  BY <1>1, <1>2, <1>7 DEF Goto, Workers
<1>8. CASE MarkPending \/ RejectSelector \/ FailSelection \/ DriverFails \/ StartWait
  BY <1>3, <1>7, <1>8
  DEF MarkPending, RejectSelector, FailSelection, DriverFails, StartWait, PCs
<1>9. CASE AddFinalizer \/ SetGroupID
  BY <1>3, <1>7, <1>9 DEF AddFinalizer, SetGroupID, UpdateOrReturn, PCs
<1>10. CASE SelectVolumes \/ CallDriver \/ PollReady \/ TimeOut
  <2>1. work'.pc # "idle"
    BY <1>1, <1>10
    DEF SelectVolumes, CallDriver, PollReady, TimeOut, EndWait, Workers
  <2> QED  BY <1>2, <2>1
<1>11. CASE Fail
  BY <1>3, <1>11 DEF Fail
<1>12. ASSUME NEW m, NEW err, Done(m, err)
       PROVE  PendingWorkInv'
  BY <1>1, <1>2, <1>12 DEF Done, Workers
<1>13. ASSUME NEW m \in Members, CreateContent(m) \/ ReuseSnapshot(m)
       PROVE  PendingWorkInv'
  <2>1. CASE work' = [work EXCEPT !.pc = "snapshot", !.cur = m]
    BY <1>1, <1>2, <2>1 DEF Workers
  <2> QED  BY <1>12, <1>13, <2>1 DEF CreateContent, ReuseSnapshot
<1>14. CASE CreateSnapshot
  BY <1>12, <1>14 DEF CreateSnapshot
<1>15. CASE SaveStatus
  <2>1. work'.pc = "resave"
    BY <1>1, <1>15 DEF SaveStatus, Goto, Workers
  <2> QED  BY <1>2, <2>1
<1>16. CASE SaveAgain
  <2>1. CASE Write("worker", Outcome, FALSE)
    <3>1. vg' = Outcome
      BY <2>1 DEF Write
    <3>2. ~mine.deleting /\ work.group # 0
      BY <1>16 DEF SaveAgain, QInv, CreationInv, Deleting, IInv, WorkInv, Answered
    <3>3. /\ Outcome.deleting = mine.deleting
          /\ Outcome.phase \in {"Complete", "Error"}
          /\ Outcome.gid = work.group
      BY <1>1 DEF Outcome, Groups
    <3>4. ~Unfinished(vg')
      BY <3>1, <3>2, <3>3 DEF Unfinished
    <3> QED  BY <1>2, <3>4
  <2> QED  BY <1>3, <1>16, <2>1 DEF SaveAgain
<1>17. CASE ReadPolicy
  <2>1. CASE \E policy, todo :
               work' = [work EXCEPT !.pc = "delete", !.policy = policy, !.todo = todo]
    BY <1>1, <1>2, <2>1 DEF Workers
  <2> QED  BY <1>3, <1>17, <2>1 DEF ReadPolicy
<1>18. ASSUME NEW m \in Members, DeleteMember(m)
       PROVE  PendingWorkInv'
  <2>1. CASE work' = [work EXCEPT !.todo = @ \ {m}]
    <3>1. work'.pc = "delete"
      BY <1>1, <1>18, <2>1 DEF DeleteMember, Workers
    <3> QED  BY <1>2, <3>1
  <2> QED  BY <1>3, <1>18, <2>1 DEF DeleteMember
<1>19. CASE RemoveFinalizer
  <2>1. CASE Write("worker", NoGroup, FALSE)
    BY <1>2, <2>1 DEF Write, Unfinished
  <2> QED  BY <1>3, <1>19, <2>1 DEF RemoveFinalizer
<1> QED
  BY <1>4, <1>5, <1>6, <1>8, <1>9, <1>10, <1>11, <1>13, <1>14, <1>15, <1>16,
     <1>17, <1>18, <1>19
  DEF WorkerStep, TakeStep, CreateStep, DeleteStep

\* Work that is nowhere remains to be delivered: every step that ends an
\* attempt on unfinished work leaves the key queued or the cache behind.
LEMMA PendingWorkNext ==
    ASSUME IInv, QInv, [Next]_vars
    PROVE  PendingWorkInv'
<1>1. PendingWorkInv /\ HistoryInv /\ UnseenInv
  BY DEF QInv
<1>2. CASE WorkerStep
  BY <1>2, PendingWorkWorker
<1>3. CASE Restart
  BY <1>3 DEF Restart, PendingWorkInv, Unfinished
<1>4. ASSUME UNCHANGED <<queue, work, copy>>,
             CreateGroup \/ FixSelector \/ vg' = Deleted(vg) \/ vg' = vg
      PROVE  PendingWorkInv'
  <2>1. CASE queue = {} /\ work.pc = "idle"
    BY <1>1, <1>4, <2>1, PendingWorkChange
  <2>2. CASE ~(queue = {} /\ work.pc = "idle")
    BY <1>4, <2>2 DEF PendingWorkInv
  <2> QED  BY <2>1, <2>2
<1>5. CASE WatchStep
  <2>1. ASSUME UNCHANGED <<vg, queue, work>>, copy'["cache"] = copy["cache"]
        PROVE  PendingWorkInv'
    BY <1>1, <2>1 DEF PendingWorkInv, Unfinished, Reconcilable, SameGeneration
  <2>2. copy \in [Copies -> Groups] /\ Copies = {"cache", "worker", "handler"}
    BY DEF IInv, ObjectInv, Copies
  <2>3. ASSUME NEW m \in Members, HandleContentDelete(m) \/ DropTombstone(m)
        PROVE  PendingWorkInv'
    BY <2>1, <2>2, <2>3 DEF HandleContentDelete, DropTombstone, Fetch, workerVars
  <2>4. CASE StrikeOff
    <3> DEFINE left == copy["handler"].listed \ {watch.member}
               new == [copy["handler"] EXCEPT !.listed = left]
    <3>1. copy["handler"].uid # 0
      BY <2>4 DEF StrikeOff, IInv, HandlerInv
    <3>2. Write("handler", new, FALSE) \/ WriteFails("handler", new, FALSE)
      BY <2>4 DEF StrikeOff
    <3>3. vg' = vg \/ (vg = copy["handler"] /\ vg' = new)
      BY <3>1, <3>2, WriteFromCurrent
    <3>4. \/ vg' = vg
          \/ vg # NoGroup /\ \E listed : vg' = [vg EXCEPT !.listed = listed]
      BY <3>1, <3>3, NoGroupFields
    <3>5. copy'["cache"] = copy["cache"] /\ UNCHANGED <<queue, work>>
      BY <2>2, <2>4 DEF StrikeOff, Write, WriteFails, workerVars
    <3>6. CASE vg # NoGroup /\ \E listed : vg' = [vg EXCEPT !.listed = listed]
      <4>1. /\ vg'.uid = vg.uid /\ vg'.selector = vg.selector
            /\ vg'.deleting = vg.deleting /\ vg'.phase = vg.phase /\ vg'.gid = vg.gid
        BY <3>6 DEF IInv, ObjectInv, Sound, Groups
      <4> QED
        BY <1>1, <3>5, <3>6, <4>1 DEF PendingWorkInv, Unfinished, Reconcilable, SameGeneration
    <3> QED  BY <2>1, <3>4, <3>5, <3>6
  <2>5. CASE DeleteEmptyGroup
    BY <1>4, <2>5 DEF DeleteEmptyGroup, workerVars
  <2> QED  BY <1>5, <2>3, <2>4, <2>5 DEF WatchStep
<1>6. CASE /\ UserStep \/ SyncCache \/ BackoffExpires
           /\ UNCHANGED <<memberVars, workerVars, watch>>
  <2>1. CASE SyncCache
    <3>1. copy'["cache"] = vg
      BY <2>1 DEF SyncCache, IInv, ObjectInv, Copies
    <3>2. CASE queue' = IF Reconcilable(copy["cache"], vg)
                        THEN queue \cup {"ready"} ELSE queue
      BY <1>1, <1>6, <2>1, <3>1, <3>2
      DEF SyncCache, PendingWorkInv, Unfinished, workerVars
    <3>3. CASE RelistedAsUpdate(copy["cache"], vg) /\ UNCHANGED queue
      <4>1. "relist" \in Disturbances /\ SameGeneration(copy["cache"], vg)
        BY <3>3 DEF RelistedAsUpdate, Disturb
      <4>2. CASE copy["cache"].uid = vg.uid
        BY <1>1, <1>6, <2>1, <3>3, <4>1, <4>2
        DEF SyncCache, PendingWorkInv, Unfinished, Reconcilable, workerVars
      <4>3. CASE copy["cache"].uid # vg.uid
        BY <1>1, <2>1, <4>1, <4>3
        DEF SyncCache, UnseenInv, PendingWorkInv, Unfinished
      <4> QED  BY <4>2, <4>3
    <3> QED  BY <2>1, <3>2, <3>3 DEF SyncCache
  <2>2. CASE BackoffExpires
    BY <2>2 DEF BackoffExpires, PendingWorkInv
  <2> QED
    BY <1>4, <1>6, <2>1, <2>2
    DEF UserStep, CreateGroup, DeleteGroup, FixSelector, TouchGroup, ChangeClass,
        workerVars
<1>7. ASSUME NEW m \in Members, MemberStep(m), UNCHANGED <<workerVars, watch>>
      PROVE  PendingWorkInv'
  BY <1>4, <1>7
  DEF MemberStep, SyncSnapshot, BindSnapshot, MakeReady, RemoveSnapshot,
      RemoveContent, RemoveOrphan, DeleteSnapshot, groupVars, workerVars
<1>8. CASE UNCHANGED vars
  BY <1>4, <1>8 DEF vars, groupVars, workerVars
<1> QED
  BY <1>2, <1>3, <1>5, <1>6, <1>7, <1>8 DEF Next, Panic, EnvironmentStep, Crash

\* No work is forgotten: an object that is new, Pending, being deleted or
\* failed before it had an array group is queued, or in progress, or its
\* latest change is on the way to the cache, through failed calls, requeues
\* and restarts, and whatever the content watcher and the user do.
THEOREM Remembered == Spec => []NothingForgotten
<1>1. Spec => []QInv
  <2>1. IInv /\ QInv /\ [Next]_vars => QInv'
    BY HistoryNext, CreationNext, UnseenNext, PendingWorkNext DEF QInv
  <2> QED  BY <2>1, QInit, Invariance, PTL DEF Spec
<1>2. IInv /\ QInv => NothingForgotten
  <2> SUFFICES ASSUME IInv, QInv, Unfinished(vg), queue = {}, work.pc = "idle"
               PROVE  "cache" \in stale
    BY DEF NothingForgotten, Unfinished
  <2>1. Reconcilable(copy["cache"], vg)
    BY DEF QInv, PendingWorkInv
  <2>2. copy["cache"] # vg
    BY <2>1 DEF Reconcilable, SameGeneration
  <2> QED  BY <2>2 DEF IInv, ObjectInv, Holders, Copies
<1> QED  BY <1>1, <1>2, Invariance, PTL
=============================================================================
