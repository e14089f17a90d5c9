------------------------- MODULE GroupSystemProofs -------------------------
(***************************************************************************)
(* Proofs about GroupSystem, for every number of members, objects, groups  *)
(* and disturbances.                                                       *)
(*                                                                         *)
(* The safety properties are not inductive as they stand.  IInv adds what  *)
(* the code relies on between two calls: that every copy of the object is  *)
(* as sound as the stored one and equal to it unless it is stale, and what *)
(* the worker knows of its copy and of the array group at each place.      *)
(***************************************************************************)
EXTENDS GroupSystem, TLAPS

-----------------------------------------------------------------------------
(* The inductive invariant.                                                *)

\* An object is none at all or has a uid; the id it shows is of a group made
\* for it; and it is protected if it is Complete.
Sound(g) ==
    /\ g \in Groups
    /\ g.uid = 0 => g = NoGroup
    /\ g.gid # 0 => owner[g.gid] = g.uid
    /\ g.phase = "Complete" => g.finalizer /\ g.gid # 0

\* What holds of the stored object and its copies.
ObjectInv ==
    /\ Sound(vg)
    /\ copy \in [Copies -> Groups]
    /\ \A c \in Copies : Sound(copy[c])
    /\ stale \subseteq Copies
    /\ faults \in 0..MaxFaults
    /\ \A c \in Holders \ stale : copy[c] = vg

QueueTypeOK ==
    /\ queue \subseteq {"ready", "delayed"}
    /\ class \in {"Delete", "Retain", "Foreign", "Missing"}
    /\ born \in 0..MaxUID

\* Where the worker knows the array group, and where its copy already has
\* the finalizer.
Answered == {"finalizer", "setgid", "member", "snapshot", "wait", "save", "resave"}
Guarded == Answered \ {"finalizer"}
Deleting == {"policy", "delete"}

\* What the worker knows of its copy at each place, and the handler of its.
WorkInv ==
    /\ work.pc # "idle" => mine.uid # 0
    /\ work.pc = "snapshot" => work.cur \in Members
    /\ work.pc \in Answered =>
         /\ work.group # 0
         /\ owner[work.group] = mine.uid
         /\ mine.gid \in {0, work.group}
    /\ work.pc \in Guarded => mine.finalizer
    /\ mine.phase = "Complete" => work.pc \in Deleting \cup {"idle", "resave"}
    /\ work.pc = "resave" /\ mine.phase = "Complete"
         => work.ready /\ mine.listed = work.picked

HandlerInv == watch.pc = "save" => copy["handler"].uid # 0

IInv ==
    /\ ObjectInv
    /\ QueueTypeOK
    /\ MemberTypeOK
    /\ WorkerTypeOK
    /\ WatchTypeOK
    /\ WorkInv
    /\ HandlerInv

-----------------------------------------------------------------------------
(* What the calls to the API server do to the stored object and its copies. *)

\* The numbers of array groups are ids, and none is the empty id.
LEMMA GroupNumbers == \A g \in 1..MaxGroups : g # 0 /\ g \in 0..MaxGroups
  BY BoundsAssumption

\* The fields of NoGroup, so that its record need not be expanded elsewhere.
LEMMA NoGroupFields ==
    /\ NoGroup.uid = 0 /\ NoGroup.gid = 0
    /\ NoGroup.phase = "" /\ NoGroup.listed = {}
    /\ NoGroup.finalizer = FALSE /\ NoGroup.deleting = FALSE
  BY DEF NoGroup

\* No object is a sound object.
LEMMA NoGroupSound == Sound(NoGroup)
<1>1. NoGroup \in Groups
  BY BoundsAssumption, 0 \in 0..MaxUID, 0 \in 0..MaxGroups
  DEF NoGroup, Groups, Phases
<1> QED  BY <1>1 DEF Sound, NoGroup

\* The object that a call writes from an up-to-date copy.
LEMMA WriteKeepsObjects ==
    ASSUME ObjectInv, UNCHANGED owner,
           NEW c \in {"worker", "handler"}, NEW new, Sound(new),
           NEW keep \in BOOLEAN,
           Write(c, new, keep) \/ WriteFails(c, new, keep)
    PROVE  /\ ObjectInv'
           /\ copy'[c] \in {copy[c], new, NoGroup}
           /\ Write(c, new, keep) => copy'[c] = IF keep THEN new ELSE NoGroup
           /\ WriteFails(c, new, keep) => copy'[c] = IF keep THEN copy[c] ELSE NoGroup
           /\ \A d \in Copies \ {c} : copy'[d] = copy[d]
<1> USE DEF ObjectInv, Copies
<1>1. Sound(NoGroup) /\ NoGroup \in Groups
  BY NoGroupSound DEF Sound
<1>2. vg' \in {vg, new} /\ Sound(vg)'
  BY DEF Write, WriteFails, Sound
<1>3. /\ copy' \in [Copies -> Groups]
      /\ copy'[c] \in {copy[c], new, NoGroup}
      /\ \A d \in Copies \ {c} : copy'[d] = copy[d]
  BY <1>1 DEF Write, WriteFails, Sound
<1>4. \A d \in Copies : Sound(copy[d])'
  BY <1>1, <1>3 DEF Sound
<1>5. stale' \subseteq Copies
  BY DEF Write, WriteFails, StaleAfter, Holders
<1>6. faults' \in 0..MaxFaults
  BY BoundsAssumption DEF Write, WriteFails, Disturb
<1>7. \A d \in Holders' \ stale' : copy'[d] = vg'
  <2>1. CASE Write(c, new, keep)
    BY <2>1, <1>3 DEF Write, StaleAfter, Holders
  <2>2. CASE WriteFails(c, new, keep)
    BY <2>2, <1>3 DEF WriteFails, StaleAfter, Holders
  <2> QED  BY <2>1, <2>2
<1>8. /\ Write(c, new, keep) => copy'[c] = IF keep THEN new ELSE NoGroup
      /\ WriteFails(c, new, keep) => copy'[c] = IF keep THEN copy[c] ELSE NoGroup
  BY DEF Write, WriteFails
<1> QED  BY <1>2, <1>3, <1>4, <1>5, <1>6, <1>7, <1>8

\* A copy fetched from the cache is as stale as the cache.
LEMMA FetchKeepsObjects ==
    ASSUME ObjectInv, UNCHANGED <<vg, faults, owner>>,
           NEW c \in {"worker", "handler"}, Fetch(c)
    PROVE  /\ ObjectInv'
           /\ copy'[c] = copy["cache"]
           /\ \A d \in Copies \ {c} : copy'[d] = copy[d]
<1> USE DEF ObjectInv, Copies, Fetch
<1>1. /\ copy' \in [Copies -> Groups]
      /\ copy'[c] = copy["cache"]
      /\ \A d \in Copies \ {c} : copy'[d] = copy[d]
  OBVIOUS
<1>2. Sound(vg)' /\ \A d \in Copies : Sound(copy[d])'
  BY <1>1 DEF Sound
<1>3. stale' \subseteq Copies
  OBVIOUS
<1>4. \A d \in Holders' \ stale' : copy'[d] = vg'
  BY <1>1 DEF Holders
<1> QED  BY <1>1, <1>2, <1>3, <1>4

\* A copy that is dropped leaves the objects in order.
LEMMA DropKeepsObjects ==
    ASSUME ObjectInv, UNCHANGED <<vg, owner>>,
           faults' = faults \/ (\E kind \in Disturbances : Disturb(kind)),
           NEW c \in {"worker", "handler"}, Drop(c)
    PROVE  /\ ObjectInv'
           /\ copy'[c] = NoGroup
           /\ \A d \in Copies \ {c} : copy'[d] = copy[d]
<1> USE DEF ObjectInv, Copies, Drop
<1>1. /\ copy' \in [Copies -> Groups]
      /\ copy'[c] = NoGroup
      /\ \A d \in Copies \ {c} : copy'[d] = copy[d]
  BY NoGroupSound DEF Sound
<1>2. Sound(vg)' /\ \A d \in Copies : Sound(copy[d])'
  BY <1>1, NoGroupSound DEF Sound
<1>3. stale' \subseteq Copies /\ faults' \in 0..MaxFaults
  BY BoundsAssumption DEF Disturb
<1>4. \A d \in Holders' \ stale' : copy'[d] = vg'
  BY <1>1 DEF Holders
<1> QED  BY <1>1, <1>2, <1>3, <1>4

\* An action that leaves the objects alone, but for the disturbances left.
LEMMA FrameKeepsObjects ==
    ASSUME ObjectInv, UNCHANGED <<vg, copy, stale, owner>>,
           faults' = faults \/ (\E kind \in Disturbances : Disturb(kind))
    PROVE  ObjectInv'
<1>1. faults' \in 0..MaxFaults
  BY BoundsAssumption DEF ObjectInv, Disturb
<1>2. Sound(vg)' /\ (\A c \in Copies : Sound(copy[c])')
  BY DEF ObjectInv, Sound
<1> QED  BY <1>1, <1>2 DEF ObjectInv, Holders

\* A delete request.
LEMMA RemovalKeepsObjects ==
    ASSUME ObjectInv, UNCHANGED <<copy, faults, owner>>,
           vg' = Deleted(vg), stale' = StaleAfter(Deleted(vg))
    PROVE  ObjectInv'
<1>1. Sound(vg)'
  <2>1. CASE vg.finalizer
    <3>1. vg.uid # 0
      BY <2>1, NoGroupFields DEF ObjectInv, Sound
    <3>2. vg' = [vg EXCEPT !.deleting = TRUE]
      BY <2>1 DEF Deleted
    <3> QED  BY <3>1, <3>2 DEF ObjectInv, Sound, Groups
  <2>2. CASE ~vg.finalizer
    BY <2>2, NoGroupSound DEF Deleted, Sound
  <2> QED  BY <2>1, <2>2
<1>2. \A c \in Copies : Sound(copy[c])'
  BY DEF ObjectInv, Sound
<1>3. stale' \subseteq Copies /\ \A c \in Holders' \ stale' : copy'[c] = vg'
  BY DEF ObjectInv, StaleAfter, Holders
<1> QED  BY <1>1, <1>2, <1>3 DEF ObjectInv

\* A delete request changes any object that is not yet being deleted.
LEMMA DeletedChanges ==
    ASSUME ObjectInv, vg # NoGroup, ~vg.deleting
    PROVE  Deleted(vg) # vg
<1>1. vg.finalizer => [vg EXCEPT !.deleting = TRUE].deleting
  BY DEF ObjectInv, Sound, Groups
<1> QED  BY <1>1 DEF Deleted

\* The driver makes a group that was free: no object can refer to it.
LEMMA MakeKeepsObjects ==
    ASSUME ObjectInv, UNCHANGED <<vg, copy, stale>>,
           faults' = faults \/ (\E kind \in Disturbances : Disturb(kind)),
           owner \in [1..MaxGroups -> 0..MaxUID],
           NEW g \in FreeGroups, NEW uid,
           owner' = [owner EXCEPT ![g] = uid]
    PROVE  ObjectInv'
<1>1. ASSUME NEW o, Sound(o), o.gid # 0
      PROVE  owner'[o.gid] = o.uid
  <2>1. o.uid # 0 /\ owner[o.gid] = o.uid
    BY <1>1, NoGroupFields DEF Sound
  <2>2. o.gid \in 0..MaxGroups
    BY <1>1 DEF Sound, Groups
  <2>3. o.gid \in 1..MaxGroups
    BY <1>1, <2>2, BoundsAssumption
  <2>4. o.gid # g
    BY <2>1 DEF FreeGroups
  <2> QED  BY <2>1, <2>3, <2>4
<1>2. Sound(vg)' /\ \A c \in Copies : Sound(copy[c])'
  BY <1>1 DEF ObjectInv, Sound
<1>3. faults' \in 0..MaxFaults
  BY BoundsAssumption DEF ObjectInv, Disturb
<1> QED  BY <1>2, <1>3 DEF ObjectInv, Holders

-----------------------------------------------------------------------------
(* The initial state, and the worker's steps.                              *)

\* The initial states satisfy the inductive invariant.
LEMMA InitInv == Init => IInv
<1> SUFFICES ASSUME Init PROVE IInv
  OBVIOUS
<1> USE DEF Init, GroupInit, MemberInit, WorkerInit, WatchInit
<1>1. ObjectInv
  <2>1. Sound(NoGroup) /\ NoGroup \in Groups
    BY NoGroupSound DEF Sound
  <2>2. faults \in 0..MaxFaults
    BY BoundsAssumption
  <2> QED  BY <2>1, <2>2 DEF ObjectInv, Copies, Holders
<1>2. QueueTypeOK
  BY BoundsAssumption, ChoicesAssumption DEF QueueTypeOK
<1>3. MemberTypeOK
  BY BoundsAssumption DEF MemberTypeOK, SnapStates, Contents, NoContent
<1>4. WorkerTypeOK /\ WatchTypeOK
  <2>1. 0 \in 0..MaxUID /\ 0 \in 0..MaxGroups
    BY BoundsAssumption
  <2> QED  BY <2>1 DEF WorkerTypeOK, Workers, PCs, Idle, WatchTypeOK, Asleep
<1>5. WorkInv /\ HandlerInv
  BY DEF WorkInv, HandlerInv, Idle, Asleep, Answered, Guarded, Copies, NoGroup
<1> QED  BY <1>1, <1>2, <1>3, <1>4, <1>5 DEF IInv

\* Reconcile's first decision keeps the invariant.
LEMMA TakeStepInv ==
    ASSUME IInv, TakeStep, UNCHANGED watch
    PROVE  IInv'
<1> USE DEF IInv, Copies
<1>1. ASSUME NEW err \in BOOLEAN, TakeAndReturn(err)
      PROVE  IInv'
  <2> USE <1>1 DEF TakeAndReturn, memberVars
  <2>1. ObjectInv'
    BY FrameKeepsObjects
  <2>2. QueueTypeOK' /\ MemberTypeOK' /\ WorkerTypeOK' /\ WatchTypeOK'
    BY DEF QueueTypeOK, MemberTypeOK, WorkerTypeOK, WatchTypeOK
  <2>3. WorkInv' /\ HandlerInv'
    BY DEF WorkInv, HandlerInv, mine
  <2> QED  BY <2>1, <2>2, <2>3
<1>2. ASSUME NEW pc \in {"policy", "pend"}, TakeTo(pc),
             pc = "pend" => cached.phase # "Complete",
             cached.uid # 0
      PROVE  IInv'
  <2> USE <1>2 DEF TakeTo, memberVars
  <2>1. /\ ObjectInv'
        /\ copy'["worker"] = copy["cache"]
        /\ copy'["handler"] = copy["handler"]
    BY FetchKeepsObjects
  <2>2. QueueTypeOK' /\ MemberTypeOK' /\ WatchTypeOK'
    BY DEF QueueTypeOK, MemberTypeOK, WatchTypeOK
  <2>3. work' \in Workers /\ work'.pc = pc
    BY DEF WorkerTypeOK, Goto, Workers, PCs
  <2>4. WorkerTypeOK'
    BY <2>3 DEF WorkerTypeOK
  <2>5. WorkInv'
    BY <2>1, <2>3 DEF WorkInv, mine, cached, Answered, Guarded, Deleting
  <2>6. HandlerInv'
    BY <2>1 DEF HandlerInv
  <2> QED  BY <2>1, <2>2, <2>4, <2>5, <2>6
<1>3. Sound(cached)
  BY DEF ObjectInv, cached
<1>4. cached.uid # 0 \/ cached = NoGroup
  BY <1>3 DEF Sound
<1>5. CASE ReconcileAbsent \/ ReconcileSettled \/ RefusePending \/ RefuseDeletion
  BY <1>1, <1>5 DEF ReconcileAbsent, ReconcileSettled, RefusePending, RefuseDeletion
<1>6. CASE ReconcileDeletion
  <2>1. Deletable(cached) /\ TakeTo("policy")
    BY <1>6 DEF ReconcileDeletion
  <2>2. cached.uid # 0
    BY <1>4, <2>1, NoGroupFields DEF Deletable
  <2> QED  BY <1>2, <2>1, <2>2
<1>7. CASE ReconcileCreation
  BY <1>2, <1>3, <1>4, <1>7 DEF ReconcileCreation, Unsettled, Settled, Sound
<1> QED  BY <1>5, <1>6, <1>7 DEF TakeStep

\* What is left to show of a step of the worker that does not move its group.
LEMMA WorkerFrame ==
    ASSUME IInv, ObjectInv', MemberTypeOK', WorkInv',
           work' \in Workers, copy'["handler"] = copy["handler"],
           queue' \subseteq queue \cup {"delayed"},
           UNCHANGED <<class, born, owner, watch>>
    PROVE  IInv'
<1> USE DEF IInv
<1>1. QueueTypeOK' /\ WorkerTypeOK' /\ WatchTypeOK'
  BY DEF QueueTypeOK, WorkerTypeOK, WatchTypeOK
<1>2. HandlerInv'
  BY DEF HandlerInv
<1> QED  BY <1>1, <1>2

\* Reconcile returns and its copy is garbage.
LEMMA ReturnInv ==
    ASSUME IInv, ObjectInv', MemberTypeOK',
           NEW err \in BOOLEAN, Return(err),
           copy'["worker"] = NoGroup, copy'["handler"] = copy["handler"],
           UNCHANGED <<class, born, owner, watch>>
    PROVE  IInv'
<1>1. work' = Idle /\ queue' \subseteq queue \cup {"delayed"}
  BY DEF Return
<1>2. Idle \in Workers
  <2>1. 0 \in 0..MaxGroups
    BY BoundsAssumption
  <2> QED  BY <2>1 DEF Idle, Workers, PCs
<1>3. WorkInv'
  BY <1>1 DEF WorkInv, Idle, mine, NoGroup, Answered, Guarded
<1> QED  BY <1>1, <1>2, <1>3, WorkerFrame

\* A worker that has its copy moves on, with the same copy.
LEMMA SameCopyInv ==
    ASSUME IInv, ObjectInv', MemberTypeOK',
           work' \in Workers, work.pc # "idle",
           copy'["worker"] = copy["worker"], copy'["handler"] = copy["handler"],
           queue' \subseteq queue \cup {"delayed"},
           UNCHANGED <<class, born, owner, watch>>,
           work'.pc = "snapshot" => work'.cur \in Members,
           work'.pc \in Answered => work.pc \in Answered /\ work'.group = work.group,
           work'.pc \in Guarded => mine.finalizer,
           work'.pc \notin Deleting => mine.phase # "Complete"
    PROVE  IInv'
<1>1. WorkInv'
  BY DEF IInv, WorkInv, mine, Deleting
<1> QED  BY <1>1, WorkerFrame

\* The worker writes its copy and goes on with what is stored, or fails.
LEMMA UpdateOrReturnInv ==
    ASSUME IInv, UNCHANGED <<class, born, owner, watch>>, UNCHANGED memberVars,
           NEW new, Sound(new), new.uid = mine.uid, new.gid = mine.gid,
           new.finalizer, new.phase # "Complete",
           NEW pc \in {"setgid", "member"}, UpdateOrReturn(new, pc),
           work.pc \in Answered
    PROVE  IInv'
<1> USE DEF IInv, memberVars
<1>1. MemberTypeOK'
  BY DEF MemberTypeOK
<1>2. CASE Write("worker", new, TRUE) /\ Goto(pc) /\ UNCHANGED queue
  <2>1. /\ ObjectInv'
        /\ copy'["worker"] = new
        /\ copy'["handler"] = copy["handler"]
    BY <1>2, WriteKeepsObjects DEF Copies
  <2>2. /\ work' \in Workers
        /\ work'.pc = pc
        /\ work'.group = work.group
    BY <1>2 DEF Goto, WorkerTypeOK, Workers, PCs
  <2>3. work.pc # "idle"
    BY DEF Answered
  <2>4. WorkInv'
    BY <2>1, <2>2, <2>3 DEF WorkInv, mine, Answered, Guarded
  <2> QED  BY <1>1, <1>2, <2>1, <2>2, <2>4, WorkerFrame
<1>3. CASE WriteFails("worker", new, FALSE) /\ Return(TRUE)
  <2>1. /\ ObjectInv'
        /\ copy'["worker"] = NoGroup
        /\ copy'["handler"] = copy["handler"]
    BY <1>3, WriteKeepsObjects DEF Copies
  <2> QED  BY <1>1, <1>3, <2>1, ReturnInv
<1> QED  BY <1>2, <1>3 DEF UpdateOrReturn

\* The creation path up to the driver's answer.
LEMMA BeforeMembersInv ==
    ASSUME IInv, UNCHANGED watch,
           \/ MarkPending \/ RejectSelector \/ FailSelection \/ SelectVolumes
           \/ CallDriver \/ DriverFails \/ Fail \/ AddFinalizer \/ SetGroupID
    PROVE  IInv'
<1> USE DEF IInv, memberVars
<1>1. mine \in Groups /\ Sound(mine)
  BY DEF ObjectInv, Copies, mine, Sound
<1>2. work \in Workers /\ Copies = {"cache", "worker", "handler"}
  BY DEF WorkerTypeOK, Copies
<1>3. UNCHANGED memberVars => MemberTypeOK'
  BY DEF MemberTypeOK
<1>4. CASE MarkPending
  <2> DEFINE new == [mine EXCEPT !.phase = "Pending"]
  <2> USE <1>4 DEF MarkPending
  <2>1. Sound(new) /\ new.uid = mine.uid /\ new.gid = mine.gid /\ new.phase = "Pending"
    BY <1>1, NoGroupSound DEF Sound, Groups, Phases, WorkInv
  <2> HIDE DEF new
  <2>2. Write("worker", new, TRUE) \/ WriteFails("worker", new, TRUE)
    BY DEF new
  <2>3. /\ ObjectInv'
        /\ copy'["worker"] \in {mine, new}
        /\ copy'["handler"] = copy["handler"]
    BY <1>2, <2>1, <2>2, WriteKeepsObjects DEF mine
  <2>4. work' \in Workers /\ work'.pc = "select"
    BY <1>2 DEF Goto, Workers, PCs
  <2>5. WorkInv'
    BY <2>1, <2>3, <2>4 DEF WorkInv, mine, Answered, Guarded, Deleting
  <2> QED  BY <1>3, <2>3, <2>4, <2>5, WorkerFrame
<1>5. CASE RejectSelector
  <2> USE <1>5 DEF RejectSelector
  <2>1. /\ ObjectInv'
        /\ copy'["worker"] = NoGroup
        /\ copy'["handler"] = copy["handler"]
    BY <1>2, DropKeepsObjects
  <2> QED  BY <1>3, <2>1, ReturnInv
<1>6. CASE FailSelection \/ (DriverFails /\ UNCHANGED owner)
  <2> USE <1>6 DEF FailSelection, DriverFails
  <2>1. ObjectInv'
    BY FrameKeepsObjects DEF Disturb
  <2>2. work' \in Workers /\ work'.pc = "fail" /\ work.pc \in {"select", "call"}
    BY <1>2 DEF Goto, Workers, PCs
  <2>3. mine.phase # "Complete"
    BY <2>2 DEF WorkInv, Deleting
  <2> QED
    BY <1>3, <2>1, <2>2, <2>3, SameCopyInv DEF Answered, Guarded
<1>7. CASE SelectVolumes
  <2> USE <1>7 DEF SelectVolumes, groupVars
  <2>1. ObjectInv'
    BY FrameKeepsObjects
  <2>2. PICK p \in SUBSET Members :
          work' = [work EXCEPT !.pc = "call", !.picked = p, !.todo = p]
    BY SelectionsAssumption
  <2>4. work' \in Workers /\ work'.pc = "call"
    BY <1>2, <2>2 DEF Workers, PCs
  <2>3. mine.phase # "Complete"
    BY DEF WorkInv, Deleting
  <2> QED
    BY <1>3, <2>1, <2>3, <2>4, SameCopyInv DEF Answered, Guarded
<1>8. CASE Fail
  <2> DEFINE new == [mine EXCEPT !.phase = "Error"]
  <2> USE <1>8 DEF Fail
  <2>1. Sound(new)
    BY <1>1, NoGroupSound DEF Sound, Groups, Phases, WorkInv
  <2> HIDE DEF new
  <2>2. Write("worker", new, FALSE) \/ WriteFails("worker", new, FALSE)
    BY DEF new
  <2>3. /\ ObjectInv'
        /\ copy'["worker"] = NoGroup
        /\ copy'["handler"] = copy["handler"]
    BY <1>2, <2>1, <2>2, WriteKeepsObjects
  <2> QED  BY <1>3, <2>3, ReturnInv
<1>9. CASE AddFinalizer
  <2> USE <1>9 DEF AddFinalizer
  <2>1. work.pc = "finalizer" /\ mine.phase # "Complete" /\ mine.uid # 0
    BY DEF WorkInv, Deleting
  <2>2. CASE mine.finalizer /\ Goto("setgid") /\ UNCHANGED <<vg, copy, stale, queue, faults>>
    <3>1. ObjectInv'
      BY <2>2, FrameKeepsObjects
    <3>2. work' \in Workers /\ work'.pc = "setgid" /\ work'.group = work.group
      BY <1>2, <2>2 DEF Goto, Workers, PCs
    <3> QED
      BY <1>3, <2>1, <2>2, <3>1, <3>2, SameCopyInv DEF Answered
  <2>3. CASE UpdateOrReturn([mine EXCEPT !.finalizer = TRUE], "setgid")
    <3> DEFINE new == [mine EXCEPT !.finalizer = TRUE]
    <3>1. /\ Sound(new)
          /\ new.uid = mine.uid /\ new.gid = mine.gid
          /\ new.finalizer /\ new.phase # "Complete"
      BY <1>1, <2>1 DEF Sound, Groups
    <3> HIDE DEF new
    <3>2. UpdateOrReturn(new, "setgid")
      BY <2>3 DEF new
    <3> QED  BY <2>1, <3>1, <3>2, UpdateOrReturnInv DEF Answered
  <2> QED  BY <2>2, <2>3
<1>10. CASE SetGroupID
  <2> USE <1>10 DEF SetGroupID
  <2>1. work.pc = "setgid" /\ mine.phase # "Complete" /\ mine.finalizer
    BY DEF WorkInv, Deleting, Guarded, Answered
  <2>2. CASE Goto("member") /\ UNCHANGED <<vg, copy, stale, queue, faults>>
    <3>1. ObjectInv'
      BY <2>2, FrameKeepsObjects
    <3>2. work' \in Workers /\ work'.pc = "member" /\ work'.group = work.group
      BY <1>2, <2>2 DEF Goto, Workers, PCs
    <3> QED
      BY <1>3, <2>1, <2>2, <3>1, <3>2, SameCopyInv DEF Answered
  <2>3. CASE UpdateOrReturn(mine, "member")
    BY <1>1, <2>1, <2>3, UpdateOrReturnInv DEF Answered
  <2> QED  BY <2>2, <2>3
<1>11. CASE CallDriver
  <2> USE <1>11 DEF CallDriver, groupVars
  <2>1. work.pc = "call" /\ mine.phase # "Complete" /\ mine.uid # 0
    BY DEF WorkInv, Deleting
  <2>2. QueueTypeOK' /\ WatchTypeOK' /\ HandlerInv'
    BY DEF QueueTypeOK, WatchTypeOK, HandlerInv
  <2>3. CASE mine.gid = 0
    <3>1. PICK g \in FreeGroups :
            /\ owner' = [owner EXCEPT ![g] = mine.uid]
            /\ work' = [work EXCEPT !.pc = "finalizer", !.group = g]
      BY <2>3
    <3>2. /\ g # 0 /\ g \in 0..MaxGroups /\ g \in 1..MaxGroups
          /\ owner \in [1..MaxGroups -> 0..MaxUID]
      <4>1. g \in 1..MaxGroups /\ owner \in [1..MaxGroups -> 0..MaxUID]
        BY DEF FreeGroups, WorkerTypeOK
      <4>2. g # 0 /\ g \in 0..MaxGroups
        BY <4>1, GroupNumbers
      <4> QED  BY <4>1, <4>2
    <3>3. mine.uid \in 0..MaxUID
      BY <1>1 DEF Groups
    <3>4. ObjectInv'
      BY <3>1, <3>2, <3>3, MakeKeepsObjects
    <3>5. /\ work' \in Workers
          /\ work'.pc = "finalizer" /\ work'.group = g
      BY <1>2, <3>1, <3>2 DEF Workers, PCs
    <3>6. owner' \in [1..MaxGroups -> 0..MaxUID] /\ owner'[g] = mine.uid
      BY <3>1, <3>2, <3>3
    <3>7. UNCHANGED mine
      BY DEF mine
    <3>8. WorkInv'
      BY <2>1, <2>3, <3>2, <3>5, <3>6, <3>7 DEF WorkInv, Answered, Guarded
    <3> QED
      BY <1>3, <2>2, <3>4, <3>5, <3>6, <3>8 DEF WorkerTypeOK
  <2>4. CASE mine.gid # 0
    <3>1. UNCHANGED owner /\ work' = [work EXCEPT !.pc = "finalizer", !.group = mine.gid]
      BY <2>4
    <3>2. ObjectInv'
      BY <3>1, FrameKeepsObjects
    <3>3. mine.gid \in 0..MaxGroups /\ owner[mine.gid] = mine.uid
      BY <1>1, <2>4 DEF Sound, Groups
    <3>4. /\ work' \in Workers
          /\ work'.pc = "finalizer" /\ work'.group = mine.gid
      BY <1>2, <3>1, <3>3 DEF Workers, PCs
    <3>5. WorkInv'
      BY <2>1, <2>4, <3>1, <3>3, <3>4 DEF WorkInv, mine, Answered, Guarded
    <3> QED  BY <1>3, <3>1, <3>2, <3>4, <3>5, WorkerFrame
  <2> QED  BY <2>3, <2>4
<1>12. CASE DriverFails /\ ~UNCHANGED owner
  <2> USE <1>12 DEF DriverFails
  <2>1. work.pc = "call" /\ mine.phase # "Complete" /\ mine.uid # 0
    BY DEF WorkInv, Deleting
  <2>2. QueueTypeOK' /\ WatchTypeOK' /\ HandlerInv'
    BY DEF QueueTypeOK, WatchTypeOK, HandlerInv
  <2>3. PICK g \in FreeGroups : owner' = [owner EXCEPT ![g] = mine.uid]
    OBVIOUS
  <2>4. owner \in [1..MaxGroups -> 0..MaxUID] /\ mine.uid \in 0..MaxUID
    BY <1>1 DEF WorkerTypeOK, Groups
  <2>5. ObjectInv'
    BY <2>3, <2>4, MakeKeepsObjects DEF Disturb
  <2>6. work' \in Workers /\ work'.pc = "fail"
    BY <1>2 DEF Goto, Workers, PCs
  <2>7. owner' \in [1..MaxGroups -> 0..MaxUID]
    BY <2>3, <2>4
  <2>8. UNCHANGED mine
    BY DEF mine
  <2>9. WorkInv'
    BY <2>1, <2>6, <2>8 DEF WorkInv, Answered, Guarded, Deleting
  <2> QED  BY <1>3, <2>2, <2>5, <2>6, <2>7, <2>9 DEF WorkerTypeOK
<1> QED
  BY <1>4, <1>5, <1>6, <1>7, <1>8, <1>9, <1>10, <1>11, <1>12

\* The members' loop and the wait: the worker keeps its copy.
LEMMA MemberLoopInv ==
    ASSUME IInv, UNCHANGED watch,
           \/ \E m \in Members : CreateContent(m) \/ ReuseSnapshot(m)
           \/ CreateSnapshot \/ StartWait \/ PollReady \/ TimeOut
    PROVE  IInv'
<1> USE DEF memberVars
<1>1. /\ work \in Workers
      /\ MemberTypeOK /\ UNCHANGED memberVars => MemberTypeOK'
  BY DEF IInv, WorkerTypeOK, MemberTypeOK
<1>2. work.pc \in {"member", "snapshot", "wait"} => 
         mine.finalizer /\ mine.phase # "Complete"
  BY DEF IInv, WorkInv, Guarded, Answered, Deleting
<1>3. ASSUME UNCHANGED <<vg, copy, stale, queue, class, born, owner>>,
             faults' = faults \/ (\E kind \in Disturbances : Disturb(kind)),
             MemberTypeOK', work' \in Workers,
             work.pc \in {"member", "snapshot", "wait"},
             work'.pc \in {"member", "snapshot", "wait", "save"},
             work'.pc = "snapshot" => work'.cur \in Members,
             work'.group = work.group
      PROVE  IInv'
  <2>1. ObjectInv'
    BY <1>3, FrameKeepsObjects DEF IInv
  <2> QED
    BY <1>2, <1>3, <2>1, SameCopyInv DEF Answered
<1>4. ASSUME NEW m, NEW err \in BOOLEAN, Done(m, err)
      PROVE  work' \in Workers /\ work'.pc = "member" /\ work'.group = work.group
  BY <1>1, <1>4 DEF Done, Workers, PCs
<1>5. ASSUME NEW m \in Members, CreateContent(m)
      PROVE  IInv'
  <2>1. MemberTypeOK'
    BY <1>5 DEF CreateContent, IInv, MemberTypeOK
  <2>2. CASE work' = [work EXCEPT !.pc = "snapshot", !.cur = m]
    <3>1. work' \in Workers /\ work'.pc = "snapshot" /\ work'.cur = m /\ work'.group = work.group
      BY <1>1, <2>2 DEF Workers, PCs
    <3> QED  BY <1>3, <1>5, <2>1, <3>1 DEF CreateContent, Disturb
  <2>3. CASE Done(m, TRUE)
    BY <1>3, <1>4, <1>5, <2>1, <2>3 DEF CreateContent, Disturb
  <2> QED  BY <1>5, <2>2, <2>3 DEF CreateContent
<1>6. ASSUME NEW m \in Members, ReuseSnapshot(m)
      PROVE  IInv'
  <2>1. MemberTypeOK'
    <3>1. UNCHANGED <<snap, dying, orphans, seen, events>>
      BY <1>6 DEF ReuseSnapshot
    <3>2. content' = content \/ content' = [content EXCEPT ![m].status = work.group]
      BY <1>6 DEF ReuseSnapshot
    <3>3. content \in [Members -> Contents] /\ work.group \in 0..MaxGroups
      BY <1>1 DEF IInv, MemberTypeOK, Workers
    <3>4. content' \in [Members -> Contents]
      BY <3>2, <3>3 DEF Contents
    <3> QED  BY <3>1, <3>4 DEF IInv, MemberTypeOK
  <2>2. Done(m, TRUE) \/ Done(m, FALSE)
    BY <1>6 DEF ReuseSnapshot
  <2> QED  BY <1>3, <1>4, <1>6, <2>1, <2>2 DEF ReuseSnapshot, Disturb
<1>7. CASE CreateSnapshot
  <2>1. work.cur \in Members /\ work.group \in 0..MaxGroups
    BY <1>1, <1>7 DEF CreateSnapshot, IInv, WorkInv, Workers
  <2>2. MemberTypeOK'
    <3>1. ContentOf(work.group) \in Contents
      BY <2>1 DEF ContentOf, Contents
    <3>2. snap' \in [Members -> SnapStates]
      BY <1>7, <2>1 DEF CreateSnapshot, IInv, MemberTypeOK, SnapStates
    <3>3. content' \in [Members -> Contents]
      BY <1>7, <2>1, <3>1 DEF CreateSnapshot, IInv, MemberTypeOK
    <3>4. orphans' \subseteq Members
      BY <1>7, <2>1 DEF CreateSnapshot, IInv, MemberTypeOK
    <3> QED
      BY <1>7, <3>2, <3>3, <3>4 DEF CreateSnapshot, IInv, MemberTypeOK
  <2>3. \E err \in BOOLEAN : Done(work.cur, err)
    <3>1. \/ Done(work.cur, TRUE)
          \/ \E miss \in {FALSE, "memberlag" \in Disturbances} : Done(work.cur, miss)
      BY <1>7 DEF CreateSnapshot
    <3>2. {FALSE, "memberlag" \in Disturbances} \subseteq BOOLEAN
      OBVIOUS
    <3> QED  BY <3>1, <3>2
  <2> QED  BY <1>3, <1>4, <1>7, <2>2, <2>3 DEF CreateSnapshot, Disturb
<1>8. CASE StartWait
  <2>1. work' \in Workers /\ work'.pc = "wait" /\ work'.group = work.group
    BY <1>1, <1>8 DEF StartWait, Goto, Workers, PCs
  <2> QED  BY <1>1, <1>3, <1>8, <2>1 DEF StartWait, groupVars, IInv
<1>9. CASE PollReady \/ TimeOut
  <2>1. PICK result \in BOOLEAN : EndWait(result)
    BY <1>9 DEF PollReady, TimeOut
  <2>2. work' \in Workers /\ work'.pc = "save" /\ work'.group = work.group
    BY <1>1, <2>1 DEF EndWait, Workers, PCs
  <2> QED  BY <1>1, <1>3, <2>1, <2>2 DEF EndWait, groupVars, IInv
<1> QED  BY <1>5, <1>6, <1>7, <1>8, <1>9

\* What the worker saves is sound.
LEMMA OutcomeSound ==
    ASSUME IInv, work.pc \in {"save", "resave"}
    PROVE  /\ Sound(Outcome)
           /\ Outcome.uid = mine.uid /\ Outcome.uid # 0
           /\ Outcome.gid = work.group
           /\ Outcome.finalizer
           /\ Outcome.listed = work.picked
           /\ Outcome.phase = "Complete" => work.ready
<1>1. mine \in Groups /\ work \in Workers
  BY DEF IInv, ObjectInv, Copies, mine, WorkerTypeOK
<1>2. /\ mine.uid # 0 /\ mine.finalizer /\ work.group # 0
      /\ owner[work.group] = mine.uid
  BY DEF IInv, WorkInv, Guarded, Answered
<1>3. /\ Outcome \in Groups
      /\ Outcome.uid = mine.uid /\ Outcome.gid = work.group
      /\ Outcome.finalizer = mine.finalizer /\ Outcome.listed = work.picked
      /\ Outcome.phase = "Complete" => work.ready
  BY <1>1 DEF Outcome, Groups, Workers, Phases
<1> QED  BY <1>2, <1>3 DEF Sound

\* The two writes of the final status keep the invariant: Outcome is sound
\* because the finalizer and the array group came before it.
LEMMA SaveInv ==
    ASSUME IInv, UNCHANGED watch, SaveStatus \/ SaveAgain
    PROVE  IInv'
<1> USE DEF memberVars
<1>1. /\ work \in Workers /\ MemberTypeOK'
      /\ Copies = {"cache", "worker", "handler"}
      /\ UNCHANGED <<class, born, owner, watch>>
      /\ IInv /\ ObjectInv
  BY DEF IInv, WorkerTypeOK, MemberTypeOK, Copies, SaveStatus, SaveAgain
<1>2. /\ Sound(Outcome)
      /\ Outcome.uid = mine.uid /\ Outcome.uid # 0
      /\ Outcome.gid = work.group
      /\ Outcome.finalizer
      /\ Outcome.listed = work.picked
      /\ Outcome.phase = "Complete" => work.ready
  BY OutcomeSound DEF SaveStatus, SaveAgain
<1>3. CASE SaveStatus
  <2>1. Write("worker", Outcome, TRUE) \/ WriteFails("worker", Outcome, TRUE)
    BY <1>3 DEF SaveStatus
  <2>2. /\ ObjectInv'
        /\ copy'["worker"] \in {mine, Outcome}
        /\ copy'["handler"] = copy["handler"]
    BY <1>1, <1>2, <2>1, WriteKeepsObjects DEF mine
  <2>3. /\ work' \in Workers
        /\ work'.pc = "resave" /\ work'.group = work.group
        /\ work'.ready = work.ready /\ work'.picked = work.picked
    BY <1>1, <1>3 DEF SaveStatus, Goto, Workers, PCs
  <2>4. /\ work.pc = "save" /\ mine.uid # 0 /\ mine.phase # "Complete"
        /\ mine.finalizer
        /\ mine.gid \in {0, work.group}
        /\ work.group # 0 /\ owner[work.group] = mine.uid
    BY <1>3 DEF SaveStatus, IInv, WorkInv, Guarded, Answered, Deleting
  <2>5. mine' \in {mine, Outcome}
    BY <2>2 DEF mine
  <2>6. WorkInv'
    BY <1>1, <1>2, <2>3, <2>4, <2>5 DEF WorkInv, Guarded, Answered
  <2> QED
    BY <1>1, <1>3, <2>2, <2>3, <2>6, WorkerFrame DEF SaveStatus
<1>4. CASE SaveAgain
  <2>1. Write("worker", Outcome, FALSE) \/ WriteFails("worker", Outcome, FALSE)
    BY <1>4 DEF SaveAgain
  <2>2. /\ ObjectInv'
        /\ copy'["worker"] = NoGroup
        /\ copy'["handler"] = copy["handler"]
    BY <1>1, <1>2, <2>1, WriteKeepsObjects
  <2>3. work.failed \in BOOLEAN /\ (Return(work.failed) \/ Return(TRUE))
    BY <1>1, <1>4 DEF SaveAgain, Workers
  <2> QED  BY <1>1, <2>2, <2>3, ReturnInv
<1> QED  BY <1>3, <1>4

\* The creation path keeps the invariant.
LEMMA CreateStepInv ==
    ASSUME IInv, CreateStep, UNCHANGED watch
    PROVE  IInv'
BY BeforeMembersInv, MemberLoopInv, SaveInv DEF CreateStep

\* deleteVg keeps the invariant.
LEMMA DeleteStepInv ==
    ASSUME IInv, DeleteStep, UNCHANGED watch
    PROVE  IInv'
<1> USE DEF memberVars
<1>1. /\ work \in Workers
      /\ Copies = {"cache", "worker", "handler"}
      /\ IInv /\ ObjectInv
      /\ mine \in Groups
  BY DEF IInv, WorkerTypeOK, Copies, ObjectInv, mine
<1>2. ASSUME UNCHANGED <<class, born, owner>>, MemberTypeOK',
             ObjectInv', copy'["worker"] = NoGroup,
             copy'["handler"] = copy["handler"],
             NEW err \in BOOLEAN, Return(err)
      PROVE  IInv'
  BY <1>2, ReturnInv
<1>3. ASSUME UNCHANGED <<class, born, owner, queue>>, MemberTypeOK',
             ObjectInv', UNCHANGED copy,
             work.pc # "idle", work' \in Workers, work'.pc = "delete"
      PROVE  IInv'
  BY <1>3, SameCopyInv DEF Answered, Guarded, Deleting
<1>4. CASE ReadPolicy
  <2>1. MemberTypeOK'
    BY <1>1, <1>4 DEF ReadPolicy, IInv, MemberTypeOK
  <2>2. CASE Drop("worker") /\ Return(TRUE)
    <3>1. /\ ObjectInv'
          /\ copy'["worker"] = NoGroup
          /\ copy'["handler"] = copy["handler"]
      BY <1>1, <1>4, <2>2, DropKeepsObjects DEF ReadPolicy
    <3> QED  BY <1>2, <1>4, <2>1, <2>2, <3>1 DEF ReadPolicy
  <2>3. CASE UNCHANGED <<copy, stale, queue>>
             /\ \E policy \in {"Delete", "Retain"} :
                  work' = [work EXCEPT !.pc = "delete", !.policy = policy,
                             !.todo = IF policy = "Delete" THEN mine.listed ELSE {}]
    <3>1. ObjectInv'
      BY <1>1, <1>4, <2>3, FrameKeepsObjects DEF ReadPolicy
    <3>2. mine.listed \subseteq Members
      BY <1>1 DEF Groups
    <3>3. work' \in Workers /\ work'.pc = "delete"
      BY <1>1, <2>3, <3>2 DEF Workers, PCs
    <3> QED  BY <1>3, <1>4, <2>1, <2>3, <3>1, <3>3 DEF ReadPolicy
  <2> QED  BY <1>4, <2>2, <2>3 DEF ReadPolicy
<1>5. ASSUME NEW m \in Members, DeleteMember(m)
      PROVE  IInv'
  <2>1. MemberTypeOK'
    BY <1>1, <1>5 DEF DeleteMember, IInv, MemberTypeOK
  <2>2. CASE UNCHANGED <<copy, stale, queue, faults>>
             /\ work' = [work EXCEPT !.todo = @ \ {m}]
    <3>1. ObjectInv'
      BY <1>1, <1>5, <2>2, FrameKeepsObjects DEF DeleteMember
    <3>2. work' \in Workers /\ work'.pc = "delete"
      BY <1>1, <1>5, <2>2 DEF DeleteMember, Workers
    <3> QED  BY <1>3, <1>5, <2>1, <2>2, <3>1, <3>2 DEF DeleteMember
  <2>3. CASE Drop("worker") /\ Return(TRUE)
             /\ (faults' = faults \/ \E kind \in Disturbances : Disturb(kind))
    <3>1. /\ ObjectInv'
          /\ copy'["worker"] = NoGroup
          /\ copy'["handler"] = copy["handler"]
      BY <1>1, <1>5, <2>3, DropKeepsObjects DEF DeleteMember
    <3> QED  BY <1>2, <1>5, <2>1, <2>3, <3>1 DEF DeleteMember
  <2> QED  BY <1>5, <2>2, <2>3 DEF DeleteMember, Disturb
<1>6. CASE RemoveFinalizer
  <2>1. MemberTypeOK'
    BY <1>1, <1>6 DEF RemoveFinalizer, IInv, MemberTypeOK
  <2>2. Write("worker", NoGroup, FALSE) \/ WriteFails("worker", NoGroup, FALSE)
    BY <1>6 DEF RemoveFinalizer
  <2>3. /\ ObjectInv'
        /\ copy'["worker"] = NoGroup
        /\ copy'["handler"] = copy["handler"]
    BY <1>1, <1>6, <2>2, NoGroupSound, WriteKeepsObjects DEF RemoveFinalizer
  <2> QED  BY <1>2, <1>6, <2>1, <2>3 DEF RemoveFinalizer
<1> QED  BY <1>4, <1>5, <1>6 DEF DeleteStep

-----------------------------------------------------------------------------
(* The content watcher, restarts and the environment.                      *)

\* A step of somebody else: what it leaves to show when the worker's copy
\* and variables stay.
LEMMA OtherFrame ==
    ASSUME IInv, ObjectInv', QueueTypeOK', MemberTypeOK', WatchTypeOK',
           HandlerInv', copy'["worker"] = copy["worker"],
           UNCHANGED workerVars
    PROVE  IInv'
<1>1. WorkerTypeOK' /\ WorkInv'
  BY DEF workerVars, IInv, WorkerTypeOK, WorkInv, mine
<1> QED  BY <1>1 DEF IInv

\* The content watcher keeps the invariant, although it writes and deletes
\* from a copy of its own.
LEMMA WatchStepInv ==
    ASSUME IInv, WatchStep
    PROVE  IInv'
<1>1. /\ Copies = {"cache", "worker", "handler"}
      /\ ObjectInv
      /\ UNCHANGED <<queue, class, born>> => QueueTypeOK'
      /\ UNCHANGED memberVars => MemberTypeOK'
  BY DEF IInv, Copies, QueueTypeOK, MemberTypeOK, memberVars
<1>2. ASSUME NEW m \in Members, HandleContentDelete(m)
      PROVE  IInv'
  <2> USE <1>2 DEF HandleContentDelete
  <2>1. MemberTypeOK'
    BY DEF IInv, MemberTypeOK
  <2>2. CASE UNCHANGED <<watch, copy, stale>>
    <3>1. ObjectInv'
      BY <2>2, FrameKeepsObjects, <1>1 DEF workerVars
    <3>2. WatchTypeOK' /\ HandlerInv'
      BY <2>2 DEF IInv, WatchTypeOK, HandlerInv
    <3> QED  BY <1>1, <2>1, <2>2, <3>1, <3>2, OtherFrame
  <2>3. CASE cached # NoGroup /\ Fetch("handler")
             /\ watch' = [pc |-> "save", member |-> m]
    <3>1. /\ ObjectInv'
          /\ copy'["handler"] = copy["cache"]
          /\ copy'["worker"] = copy["worker"]
      BY <1>1, <2>3, FetchKeepsObjects DEF workerVars
    <3>2. copy["cache"].uid # 0
      BY <1>1, <2>3 DEF ObjectInv, Sound, cached
    <3>3. WatchTypeOK' /\ HandlerInv'
      BY <2>3, <3>1, <3>2 DEF WatchTypeOK, HandlerInv
    <3> QED  BY <1>1, <2>1, <3>1, <3>3, OtherFrame
  <2> QED  BY <2>2, <2>3
<1>3. ASSUME NEW m \in Members, DropTombstone(m)
      PROVE  IInv'
  <2> USE <1>3 DEF DropTombstone
  <2>1. MemberTypeOK' /\ WatchTypeOK' /\ HandlerInv'
    BY DEF IInv, MemberTypeOK, WatchTypeOK, HandlerInv
  <2>2. ObjectInv'
    BY <1>1, FrameKeepsObjects DEF workerVars, Disturb
  <2> QED  BY <1>1, <2>1, <2>2, OtherFrame
<1>4. CASE StrikeOff
  <2> DEFINE new == [copy["handler"] EXCEPT
                       !.listed = copy["handler"].listed \ {watch.member}]
  <2>1. Sound(new)
    <3>1. copy["handler"].uid # 0 /\ Sound(copy["handler"])
      BY <1>1, <1>4 DEF StrikeOff, IInv, HandlerInv, ObjectInv
    <3> QED  BY <3>1 DEF Sound, Groups
  <2> HIDE DEF new
  <2>2. Write("handler", new, FALSE) \/ WriteFails("handler", new, FALSE)
    BY <1>4 DEF StrikeOff, new
  <2>3. /\ ObjectInv'
        /\ copy'["worker"] = copy["worker"]
    BY <1>1, <1>4, <2>1, <2>2, WriteKeepsObjects DEF StrikeOff, workerVars
  <2>4. watch' = [Asleep EXCEPT !.pc = "delete"] \/ watch' = Asleep
    BY <1>4 DEF StrikeOff
  <2>5. WatchTypeOK' /\ HandlerInv'
    BY <2>4 DEF WatchTypeOK, HandlerInv, Asleep
  <2> QED  BY <1>1, <1>4, <2>3, <2>5, OtherFrame DEF StrikeOff
<1>5. CASE DeleteEmptyGroup
  <2>1. WatchTypeOK' /\ HandlerInv'
    BY <1>5 DEF DeleteEmptyGroup, WatchTypeOK, HandlerInv, Asleep
  <2>2. ObjectInv'
    <3>1. CASE vg' = Deleted(vg) /\ stale' = StaleAfter(Deleted(vg)) /\ UNCHANGED faults
      BY <1>1, <1>5, <3>1, RemovalKeepsObjects DEF DeleteEmptyGroup, workerVars
    <3>2. CASE Disturb("api") /\ UNCHANGED <<vg, stale>>
      BY <1>1, <1>5, <3>2, FrameKeepsObjects DEF DeleteEmptyGroup, workerVars, Disturb
    <3> QED  BY <1>5, <3>1, <3>2 DEF DeleteEmptyGroup
  <2> QED  BY <1>1, <1>5, <2>1, <2>2, OtherFrame DEF DeleteEmptyGroup
<1> QED  BY <1>2, <1>3, <1>4, <1>5 DEF WatchStep

\* A restart, after a crash or a panic, keeps the invariant.
LEMMA RestartInv ==
    ASSUME IInv, Restart,
           faults' = faults \/ Disturb("crash")
    PROVE  IInv'
<1> USE DEF Restart
<1>1. Copies = {"cache", "worker", "handler"} /\ ObjectInv
  BY DEF IInv, Copies
<1>2. ObjectInv'
  <2>1. faults' \in 0..MaxFaults
    BY <1>1, BoundsAssumption DEF ObjectInv, Disturb
  <2>2. Sound(vg)' /\ vg \in Groups
    BY <1>1 DEF ObjectInv, Sound
  <2>3. NoGroup \in Groups /\ Sound(NoGroup)'
    BY NoGroupSound DEF Sound
  <2>4. \A c \in Copies : copy'[c] \in {vg, NoGroup} /\ (c # "cache" => copy'[c] = NoGroup)
                           /\ (c = "cache" => copy'[c] = vg)
    OBVIOUS
  <2>5. copy' \in [Copies -> Groups]
    BY <2>2, <2>3
  <2>6. \A c \in Copies : Sound(copy[c])'
    BY <2>2, <2>3, <2>4 DEF Sound
  <2>7. \A c \in Holders' \ stale' : copy'[c] = vg'
    BY <2>4 DEF Holders
  <2> QED  BY <2>1, <2>2, <2>5, <2>6, <2>7 DEF ObjectInv
<1>3. QueueTypeOK' /\ WatchTypeOK' /\ HandlerInv'
  BY DEF IInv, QueueTypeOK, WatchTypeOK, HandlerInv, Asleep
<1>4. MemberTypeOK'
  <2>1. work.pc = "snapshot" => work.cur \in Members
    BY DEF IInv, WorkInv
  <2> QED  BY <2>1 DEF IInv, MemberTypeOK
<1>5. WorkerTypeOK' /\ WorkInv'
  <2>1. 0 \in 0..MaxGroups
    BY BoundsAssumption
  <2>2. Idle \in Workers /\ Idle.pc = "idle"
    BY <2>1 DEF Idle, Workers, PCs
  <2>3. mine' = NoGroup
    BY DEF mine, Copies
  <2> QED
    BY <2>2, <2>3 DEF IInv, WorkerTypeOK, WorkInv, Answered, Guarded, NoGroup
<1> QED  BY <1>2, <1>3, <1>4, <1>5 DEF IInv

\* The user's edits of the stored object, which leave every copy behind.
LEMMA EditKeepsObjects ==
    ASSUME ObjectInv, UNCHANGED <<copy, owner>>,
           Sound(vg)', stale' = Holders,
           faults' = faults \/ (\E kind \in Disturbances : Disturb(kind))
    PROVE  ObjectInv'
<1>1. faults' \in 0..MaxFaults
  BY BoundsAssumption DEF ObjectInv, Disturb
<1>2. \A c \in Copies : Sound(copy[c])'
  BY DEF ObjectInv, Sound
<1> QED  BY <1>1, <1>2 DEF ObjectInv, Holders

\* What the user does keeps the invariant.
LEMMA UserStepInv ==
    ASSUME IInv, UserStep, UNCHANGED <<memberVars, workerVars, watch>>
    PROVE  IInv'
<1>1. ObjectInv /\ Sound(vg) /\ UNCHANGED owner
  BY DEF IInv, ObjectInv, workerVars
<1>2. MemberTypeOK' /\ WatchTypeOK'
  BY DEF memberVars, IInv, MemberTypeOK, WatchTypeOK
<1>3. ASSUME ObjectInv', QueueTypeOK', UNCHANGED copy
      PROVE  IInv'
  BY <1>2, <1>3, OtherFrame DEF HandlerInv, IInv
<1>4. CASE CreateGroup
  <2>1. Sound(vg)'
    <3>1. PICK s \in {"one", "both"} :
             vg' = [NoGroup EXCEPT !.uid = born + 1, !.selector = s]
      BY <1>4, ChoicesAssumption DEF CreateGroup
    <3>2. born + 1 \in 0..MaxUID /\ born + 1 # 0
      BY <1>4, BoundsAssumption DEF CreateGroup, IInv, QueueTypeOK
    <3>3. /\ vg' \in Groups
          /\ vg'.uid = born + 1 /\ vg'.gid = 0 /\ vg'.phase = ""
      BY <3>1, <3>2, NoGroupSound, NoGroupFields DEF Sound, Groups
    <3> QED  BY <3>2, <3>3 DEF Sound
  <2>2. QueueTypeOK'
    BY <1>4, BoundsAssumption DEF CreateGroup, IInv, QueueTypeOK
  <2> QED  BY <1>1, <1>3, <1>4, <2>1, <2>2, EditKeepsObjects DEF CreateGroup
<1>5. CASE DeleteGroup
  <2>1. ObjectInv'
    BY <1>1, <1>5, RemovalKeepsObjects, DeletedChanges DEF DeleteGroup, StaleAfter
  <2> QED  BY <1>3, <1>5, <2>1 DEF DeleteGroup, IInv, QueueTypeOK
<1>6. CASE FixSelector
  <2>1. Sound(vg)'
    BY <1>1, <1>6, NoGroupFields DEF FixSelector, Sound, Groups, NoGroup
  <2>2. ObjectInv'
    BY <1>1, <1>6, <2>1, EditKeepsObjects DEF FixSelector
  <2> QED  BY <1>3, <1>6, <2>2 DEF FixSelector, IInv, QueueTypeOK
<1>7. CASE TouchGroup
  <2>1. Sound(vg)'
    BY <1>1, <1>7 DEF TouchGroup, Sound
  <2>2. ObjectInv'
    BY <1>1, <1>7, <2>1, EditKeepsObjects DEF TouchGroup, Disturb
  <2> QED  BY <1>3, <1>7, <2>2 DEF TouchGroup, IInv, QueueTypeOK
<1>8. CASE ChangeClass
  <2>1. ObjectInv'
    BY <1>1, <1>8, FrameKeepsObjects DEF ChangeClass, Disturb
  <2> QED
    BY <1>3, <1>8, <2>1, ChoicesAssumption DEF ChangeClass, IInv, QueueTypeOK
<1> QED  BY <1>4, <1>5, <1>6, <1>7, <1>8 DEF UserStep

\* The informer catching up, and the end of a back-off.
LEMMA QueueStepInv ==
    ASSUME IInv, SyncCache \/ BackoffExpires,
           UNCHANGED <<memberVars, workerVars, watch>>
    PROVE  IInv'
<1>1. MemberTypeOK' /\ WatchTypeOK' /\ UNCHANGED owner /\ ObjectInv
  BY DEF memberVars, workerVars, IInv, MemberTypeOK, WatchTypeOK
<1>2. QueueTypeOK'
  BY DEF SyncCache, BackoffExpires, RelistedAsUpdate, IInv, QueueTypeOK
<1>3. /\ copy'["worker"] = copy["worker"]
      /\ copy'["handler"] = copy["handler"]
      /\ ObjectInv'
  <2>1. CASE SyncCache
    <3>1. /\ copy' \in [Copies -> Groups]
          /\ copy'["cache"] = vg
          /\ \A c \in Copies \ {"cache"} : copy'[c] = copy[c]
      BY <1>1, <2>1 DEF SyncCache, ObjectInv, Sound, Copies
    <3>2. Sound(vg)' /\ \A c \in Copies : Sound(copy[c])'
      BY <1>1, <2>1, <3>1 DEF SyncCache, ObjectInv, Sound
    <3>3. faults' \in 0..MaxFaults
      BY <1>1, <2>1, BoundsAssumption
      DEF SyncCache, RelistedAsUpdate, Disturb, ObjectInv
    <3> QED
      BY <1>1, <2>1, <3>1, <3>2, <3>3 DEF SyncCache, ObjectInv, Holders, Copies
  <2>2. CASE BackoffExpires
    BY <1>1, <2>2, FrameKeepsObjects DEF BackoffExpires
  <2> QED  BY <2>1, <2>2
<1> QED  BY <1>1, <1>2, <1>3, OtherFrame DEF HandlerInv, IInv

\* The external snapshotter and the members' changes keep the invariant.
LEMMA MemberStepInv ==
    ASSUME IInv, NEW m \in Members, MemberStep(m),
           UNCHANGED <<workerVars, watch>>
    PROVE  IInv'
<1>1. MemberTypeOK'
  BY BoundsAssumption
  DEF MemberStep, SyncSnapshot, BindSnapshot, MakeReady, RemoveSnapshot,
      RemoveContent, RemoveOrphan, DeleteSnapshot,
      IInv, MemberTypeOK, SnapStates, Contents, NoContent
<1>2. /\ UNCHANGED <<vg, copy, stale, queue, class, born>>
      /\ faults' = faults \/ \E kind \in Disturbances : Disturb(kind)
  BY DEF MemberStep, SyncSnapshot, BindSnapshot, MakeReady, RemoveSnapshot,
         RemoveContent, RemoveOrphan, DeleteSnapshot, groupVars, Disturb
<1>3. ObjectInv'
  BY <1>2, FrameKeepsObjects DEF IInv, workerVars
<1>4. QueueTypeOK' /\ WatchTypeOK' /\ HandlerInv'
  BY <1>2 DEF IInv, QueueTypeOK, WatchTypeOK, HandlerInv
<1> QED  BY <1>1, <1>2, <1>3, <1>4, OtherFrame

\* Whoever is not the worker leaves its copy and variables, or restarts it.
LEMMA WorkerAlone ==
    ASSUME IInv, [Next]_vars, ~WorkerStep
    PROVE  \/ work'.pc = "idle"
           \/ work' = work /\ copy'["worker"] = copy["worker"]
<1>1. copy \in [Copies -> Groups] /\ Copies = {"cache", "worker", "handler"}
  BY DEF IInv, ObjectInv, Copies
<1>2. Idle.pc = "idle"
  BY DEF Idle
<1>3. CASE StrikeOff
  BY <1>1, <1>3 DEF StrikeOff, Write, WriteFails, workerVars
<1>4. ASSUME NEW m \in Members, MemberStep(m)
      PROVE  copy'["worker"] = copy["worker"]
  BY <1>4
  DEF MemberStep, SyncSnapshot, BindSnapshot, MakeReady, RemoveSnapshot,
      RemoveContent, RemoveOrphan, DeleteSnapshot, groupVars
<1>5. SyncCache \/ (\E m \in Members : HandleContentDelete(m))
        => copy'["worker"] = copy["worker"]
  BY <1>1 DEF SyncCache, HandleContentDelete, Fetch
<1> QED
  BY <1>2, <1>3, <1>4, <1>5
  DEF Next, WatchStep, HandleContentDelete, DropTombstone, DeleteEmptyGroup,
      Panic, Restart, Crash, EnvironmentStep, UserStep, CreateGroup, DeleteGroup,
      FixSelector, TouchGroup, ChangeClass, BackoffExpires, SyncCache,
      workerVars, groupVars, vars

\* The invariant is inductive.
LEMMA NextInv == IInv /\ [Next]_vars => IInv'
<1> SUFFICES ASSUME IInv, [Next]_vars PROVE IInv'
  OBVIOUS
<1>1. CASE WorkerStep /\ UNCHANGED watch
  BY <1>1, TakeStepInv, CreateStepInv, DeleteStepInv DEF WorkerStep
<1>2. CASE WatchStep
  BY <1>2, WatchStepInv
<1>3. CASE Panic
  BY <1>3, RestartInv DEF Panic
<1>4. CASE EnvironmentStep
  BY <1>4, UserStepInv, QueueStepInv, MemberStepInv, RestartInv
  DEF EnvironmentStep, Crash
<1>5. CASE UNCHANGED vars
  BY <1>5
  DEF vars, groupVars, memberVars, workerVars, IInv, ObjectInv, Sound, Holders,
      QueueTypeOK, MemberTypeOK, WorkerTypeOK, WatchTypeOK, WorkInv, HandlerInv,
      mine
<1> QED  BY <1>1, <1>2, <1>3, <1>4, <1>5 DEF Next

\* IInv holds in every reachable state.
THEOREM Invariance == Spec => []IInv
BY InitInv, NextInv, PTL DEF Spec

-----------------------------------------------------------------------------
(* The properties of the stored object.                                    *)

\* In every reachable state each variable has its type, and a copy that is
\* not stale is the stored object: a write from it cannot undo anything.
THEOREM TypeCorrect == Spec => []TypeOK
<1>1. IInv => TypeOK
  BY DEF IInv, ObjectInv, QueueTypeOK, Sound, TypeOK, GroupTypeOK
<1> QED  BY <1>1, Invariance, PTL

\* A Complete group has its finalizer and the id of its array group, however
\* many members, objects, failures and crashes there are.
THEOREM Protected == Spec => []CompleteIsProtected
<1>1. IInv => CompleteIsProtected
  BY DEF IInv, ObjectInv, Sound, CompleteIsProtected
<1> QED  BY <1>1, Invariance, PTL

\* The id that an object shows is of an array group made for that object,
\* also when objects are deleted and re-created under the name.
THEOREM Belongs == Spec => []GroupBelongs
<1>1. IInv => GroupBelongs
  BY DEF IInv, ObjectInv, Sound, GroupBelongs
<1> QED  BY <1>1, Invariance, PTL

\* What a call of the worker or the handler can do to the stored object.
LEMMA WriteFromCurrent ==
    ASSUME IInv, NEW c \in {"worker", "handler"}, copy[c].uid # 0,
           NEW new, NEW keep \in BOOLEAN,
           Write(c, new, keep) \/ WriteFails(c, new, keep)
    PROVE  vg' = vg \/ (vg = copy[c] /\ vg' = new)
<1>1. c \in Holders
  BY NoGroupFields DEF Holders, Copies
<1>2. c \notin stale => copy[c] = vg
  BY <1>1 DEF IInv, ObjectInv
<1> QED  BY <1>2 DEF Write, WriteFails

\* How the stored object changes: not at all, or to another object or none,
\* or keeping its group id, its deletion and, if Complete, its phase, with
\* no new member.  An object that goes with its finalizer on goes by deleteVg.
Kept(old, new) ==
    /\ old.gid # 0 => new.gid = old.gid
    /\ old.deleting => new.deleting
    /\ old.selector = "one" => new.selector = "one"
    /\ old.phase = "Complete" =>
         new.phase = "Complete" /\ new.listed \subseteq old.listed

VgStep ==
    \/ vg' = vg
    \/ CreateGroup /\ vg = NoGroup /\ vg'.uid = born + 1 /\ born' = born + 1
    \/ /\ vg' = NoGroup
       /\ vg.finalizer => work.pc = "delete" /\ work.todo = {} /\ vg = mine
    \/ vg'.uid = vg.uid /\ Kept(vg, vg')

\* What a step of the worker may do to the stored object: nothing, or one of
\* its few writes from an up-to-date copy.
LEMMA WorkerVgStep ==
    ASSUME IInv, WorkerStep
    PROVE  VgStep
<1>1. mine \in Groups /\ (work.pc # "idle" => copy["worker"].uid # 0)
  BY DEF IInv, ObjectInv, WorkInv, mine, Copies
<1>2. ASSUME NEW new, NEW keep \in BOOLEAN, work.pc # "idle",
             Write("worker", new, keep) \/ WriteFails("worker", new, keep),
             new.uid = mine.uid, Kept(mine, new)
      PROVE  VgStep
  BY <1>1, <1>2, WriteFromCurrent DEF VgStep, mine
<1>3. CASE MarkPending
  <2> DEFINE new == [mine EXCEPT !.phase = "Pending"]
  <2>1. work.pc # "idle" /\ mine.phase # "Complete"
    BY <1>3 DEF MarkPending, IInv, WorkInv, Deleting
  <2>2. Kept(mine, new) /\ new.uid = mine.uid
    BY <1>1, <2>1 DEF Kept, Groups
  <2> HIDE DEF new
  <2>3. Write("worker", new, TRUE) \/ WriteFails("worker", new, TRUE)
    BY <1>3 DEF MarkPending, new
  <2> QED  BY <1>2, <2>1, <2>2, <2>3
<1>4. CASE Fail
  <2> DEFINE new == [mine EXCEPT !.phase = "Error"]
  <2>1. work.pc # "idle" /\ mine.phase # "Complete"
    BY <1>4 DEF Fail, IInv, WorkInv, Deleting
  <2>2. Kept(mine, new) /\ new.uid = mine.uid
    BY <1>1, <2>1 DEF Kept, Groups
  <2> HIDE DEF new
  <2>3. Write("worker", new, FALSE) \/ WriteFails("worker", new, FALSE)
    BY <1>4 DEF Fail, new
  <2> QED  BY <1>2, <2>1, <2>2, <2>3
<1>5. CASE AddFinalizer
  <2> DEFINE new == [mine EXCEPT !.finalizer = TRUE]
  <2>1. work.pc # "idle"
    BY <1>5 DEF AddFinalizer
  <2>2. Kept(mine, new) /\ new.uid = mine.uid
    BY <1>1 DEF Kept, Groups
  <2> HIDE DEF new
  <2>3. \/ UNCHANGED vg
        \/ Write("worker", new, TRUE) \/ WriteFails("worker", new, FALSE)
    BY <1>5 DEF AddFinalizer, UpdateOrReturn, new
  <2> QED  BY <1>2, <2>1, <2>2, <2>3 DEF VgStep
<1>6. CASE SetGroupID
  <2>1. work.pc # "idle" /\ Kept(mine, mine)
    BY <1>6 DEF SetGroupID, Kept
  <2>2. \/ UNCHANGED vg
        \/ Write("worker", mine, TRUE) \/ WriteFails("worker", mine, FALSE)
    BY <1>6 DEF SetGroupID, UpdateOrReturn
  <2> QED  BY <1>2, <2>1, <2>2 DEF VgStep
<1>7. CASE SaveStatus \/ SaveAgain
  <2>1. /\ work.pc \in {"save", "resave"}
        /\ \E keep \in BOOLEAN :
             Write("worker", Outcome, keep) \/ WriteFails("worker", Outcome, keep)
    BY <1>7 DEF SaveStatus, SaveAgain
  <2>2. /\ mine.gid \in {0, work.group}
        /\ mine.phase = "Complete" => work.ready /\ mine.listed = work.picked
    BY <2>1 DEF IInv, WorkInv, Answered, Deleting
  <2>3. Outcome.uid = mine.uid /\ Kept(mine, Outcome)
    BY <1>1, <2>1, <2>2 DEF Kept, Outcome, Groups
  <2> QED  BY <1>2, <2>1, <2>3
<1>8. CASE RemoveFinalizer
  <2>1. /\ work.pc = "delete" /\ work.todo = {}
        /\ Write("worker", NoGroup, FALSE) \/ WriteFails("worker", NoGroup, FALSE)
    BY <1>8 DEF RemoveFinalizer
  <2> QED  BY <1>1, <2>1, WriteFromCurrent DEF VgStep, mine
<1>9. CASE UNCHANGED vg
  BY <1>9 DEF VgStep
<1> QED
  BY <1>3, <1>4, <1>5, <1>6, <1>7, <1>8, <1>9
  DEF WorkerStep, TakeStep, ReconcileAbsent, ReconcileSettled, RefusePending,
      RefuseDeletion, ReconcileDeletion, ReconcileCreation, TakeAndReturn, TakeTo,
      CreateStep, RejectSelector, FailSelection, SelectVolumes, CallDriver,
      DriverFails, CreateContent, ReuseSnapshot, CreateSnapshot, StartWait,
      PollReady, TimeOut, EndWait, DeleteStep, ReadPolicy, DeleteMember, groupVars

\* What a delete request may do to the stored object.
LEMMA RemovalVgStep ==
    ASSUME IInv, vg' = Deleted(vg)
    PROVE  VgStep
<1>1. vg \in Groups
  BY DEF IInv, ObjectInv, Sound
<1>2. CASE vg.finalizer
  BY <1>1, <1>2 DEF Deleted, VgStep, Kept, Groups
<1>3. CASE ~vg.finalizer
  BY <1>3 DEF Deleted, VgStep
<1> QED  BY <1>2, <1>3

\* What any step may do to the stored object: the action properties follow
\* from this case list.
LEMMA NextVgStep ==
    ASSUME IInv, [Next]_vars
    PROVE  VgStep
<1>1. CASE StrikeOff
  <2> DEFINE new == [copy["handler"] EXCEPT
                       !.listed = copy["handler"].listed \ {watch.member}]
  <2>1. copy["handler"].uid # 0 /\ copy["handler"] \in Groups
    BY <1>1 DEF StrikeOff, IInv, HandlerInv, ObjectInv, Copies
  <2>2. Kept(copy["handler"], new) /\ new.uid = copy["handler"].uid
    BY <2>1 DEF Kept, Groups
  <2> HIDE DEF new
  <2>3. Write("handler", new, FALSE) \/ WriteFails("handler", new, FALSE)
    BY <1>1 DEF StrikeOff, new
  <2> QED  BY <2>1, <2>2, <2>3, WriteFromCurrent DEF VgStep
<1>2. CASE DeleteEmptyGroup \/ DeleteGroup
  BY <1>2, RemovalVgStep DEF DeleteEmptyGroup, DeleteGroup, VgStep
<1>3. CASE CreateGroup
  BY <1>3, NoGroupSound DEF CreateGroup, VgStep, Sound, Groups
<1>4. CASE FixSelector
  <2>1. vg \in Groups
    BY DEF IInv, ObjectInv, Sound
  <2> QED  BY <1>4, <2>1 DEF FixSelector, VgStep, Kept, Groups
<1>5. CASE UNCHANGED vg
  BY <1>5 DEF VgStep
<1>6. CASE WorkerStep
  BY <1>6, WorkerVgStep
<1>7. ASSUME NEW m \in Members, MemberStep(m)
      PROVE  UNCHANGED vg
  BY <1>7
  DEF MemberStep, SyncSnapshot, BindSnapshot, MakeReady, RemoveSnapshot,
      RemoveContent, RemoveOrphan, DeleteSnapshot, groupVars
<1> QED
  BY <1>1, <1>2, <1>3, <1>4, <1>5, <1>6, <1>7
  DEF Next, WatchStep, HandleContentDelete, DropTombstone, Panic, Restart,
      EnvironmentStep, UserStep, TouchGroup, ChangeClass, SyncCache,
      BackoffExpires, Crash, vars, groupVars

\* A Complete group stays Complete and gets no new member, whoever writes:
\* the worker of this or an earlier attempt, the content watcher, or a
\* process restarted in between.
THEOREM Final == Spec => CompleteIsFinal
<1>1. IInv /\ [Next]_vars =>
        [ vg.phase = "Complete" /\ vg'.uid = vg.uid
            => vg'.phase = "Complete" /\ vg'.listed \subseteq vg.listed ]_vars
  <2> SUFFICES ASSUME IInv, [Next]_vars,
                      vg.phase = "Complete", vg'.uid = vg.uid
               PROVE  vg'.phase = "Complete" /\ vg'.listed \subseteq vg.listed
    OBVIOUS
  <2>1. vg.uid # 0
    BY NoGroupFields DEF IInv, ObjectInv, Sound
  <2> QED  BY <2>1, NextVgStep, NoGroupFields DEF VgStep, Kept
<1> QED  BY <1>1, Invariance, PTL DEF Spec, CompleteIsFinal

\* The group id of an object never changes once it is stored.
THEOREM Sticky == Spec => GroupIsSticky
<1>1. IInv /\ [Next]_vars =>
        [ vg.gid # 0 /\ vg'.uid = vg.uid => vg'.gid = vg.gid ]_vars
  <2> SUFFICES ASSUME IInv, [Next]_vars, vg.gid # 0, vg'.uid = vg.uid
               PROVE  vg'.gid = vg.gid
    OBVIOUS
  <2>1. vg.uid # 0
    BY NoGroupFields DEF IInv, ObjectInv, Sound
  <2> QED  BY <2>1, NextVgStep, NoGroupFields DEF VgStep, Kept
<1> QED  BY <1>1, Invariance, PTL DEF Spec, GroupIsSticky
=============================================================================
