--------------------------- MODULE AttemptProofs ---------------------------
(***************************************************************************)
(* What a single attempt to create a group does to the members, and that   *)
(* it comes to an end.                                                     *)
(*                                                                         *)
(* The contents are safe from a retry that works from an old copy because  *)
(* of a write that stores nothing: the update of SetGroupID sends an       *)
(* unchanged object, and conflicts unless the copy is the stored object.   *)
(* An attempt that reaches the members therefore holds the array group of  *)
(* the object, or the object names none yet (LoopInv); and as array groups *)
(* are numbered in the order in which they are made, no content stands for *)
(* one later than the attempt's (BoundInv).                                *)
(***************************************************************************)
EXTENDS QueueProofs

-----------------------------------------------------------------------------
(* An attempt ends.                                                        *)

\* The member whose content has been made is still to be done.
TodoInv == work.pc = "snapshot" => work.cur \in work.todo

MovesOn ==
    work.pc # "idle" /\ work' # work
      => \/ Stage[work'.pc] < Stage[work.pc]
         \/ /\ Stage[work'.pc] = Stage[work.pc]
            /\ \/ work'.todo \subseteq work.todo /\ work'.todo # work.todo
               \/ /\ work.pc = "member" /\ work'.pc = "snapshot"
                  /\ work'.todo = work.todo

\* The stages, one by one.
LEMMA Stages ==
    /\ Stage["pend"] = 9 /\ Stage["select"] = 8 /\ Stage["call"] = 7
    /\ Stage["finalizer"] = 6 /\ Stage["setgid"] = 5
    /\ Stage["member"] = 4 /\ Stage["snapshot"] = 4 /\ Stage["wait"] = 3
    /\ Stage["save"] = 2 /\ Stage["resave"] = 1
    /\ Stage["policy"] = 2 /\ Stage["delete"] = 1 /\ Stage["fail"] = 1
    /\ Stage["idle"] = 0
BY DEF Stage

\* The end is below every stage.
LEMMA EndIsNext ==
    ASSUME work \in Workers, work'.pc = "idle"
    PROVE  MovesOn
<1>1. work.pc # "idle" => Stage["idle"] < Stage[work.pc]
  BY Stages DEF Workers, PCs
<1> QED  BY <1>1 DEF MovesOn

\* To be done with a member is to have fewer to do.
LEMMA DoneMovesOn ==
    ASSUME work \in Workers, work.pc \in {"member", "snapshot"},
           NEW m \in work.todo, NEW err, Done(m, err)
    PROVE  MovesOn /\ work'.pc = "member"
<1>1. work'.pc = "member" /\ work'.todo = work.todo \ {m}
  BY DEF Done, Workers
<1>2. Stage[work'.pc] = Stage[work.pc]
  BY <1>1, Stages
<1> QED  BY <1>1, <1>2 DEF MovesOn

\* The worker's steps that lead to another place.
LEMMA WorkerMovesOn ==
    ASSUME IInv, TodoInv, CreateStep \/ DeleteStep
    PROVE  MovesOn /\ TodoInv'
<1>1. work \in Workers
  BY DEF IInv, WorkerTypeOK
<1>2. ASSUME NEW err, Return(err)
      PROVE  MovesOn /\ TodoInv'
  BY <1>1, <1>2, EndIsNext DEF Return, Idle, TodoInv
<1>3. ASSUME NEW pc, pc # "snapshot", Stage[pc] < Stage[work.pc], work'.pc = pc
      PROVE  MovesOn /\ TodoInv'
  BY <1>3 DEF MovesOn, TodoInv
<1>4. ASSUME NEW pc \in PCs \ {"snapshot"}, Stage[pc] < Stage[work.pc], Goto(pc)
      PROVE  MovesOn /\ TodoInv'
  <2>1. work'.pc = pc
    BY <1>1, <1>4 DEF Goto, Workers
  <2> QED  BY <1>3, <1>4, <2>1
<1>5. ASSUME work.pc \in {"member", "snapshot"}, NEW m \in work.todo,
             NEW err, Done(m, err)
      PROVE  MovesOn /\ TodoInv'
  BY <1>1, <1>5, DoneMovesOn DEF TodoInv
<1>6. CASE MarkPending \/ FailSelection \/ DriverFails \/ StartWait
  <2>1. \/ work.pc = "pend" /\ Goto("select")
        \/ work.pc \in {"select", "call"} /\ Goto("fail")
        \/ work.pc = "member" /\ Goto("wait")
    BY <1>6 DEF MarkPending, FailSelection, DriverFails, StartWait
  <2>2. /\ work.pc = "pend" => Stage["select"] < Stage[work.pc]
        /\ work.pc \in {"select", "call"} => Stage["fail"] < Stage[work.pc]
        /\ work.pc = "member" => Stage["wait"] < Stage[work.pc]
    BY Stages
  <2>3. {"select", "fail", "wait"} \subseteq PCs \ {"snapshot"}
    BY DEF PCs
  <2> QED  BY <1>4, <2>1, <2>2, <2>3
<1>7. CASE RejectSelector \/ Fail \/ SaveAgain \/ RemoveFinalizer
  BY <1>2, <1>7 DEF RejectSelector, Fail, SaveAgain, RemoveFinalizer
<1>8. CASE SelectVolumes \/ CallDriver \/ PollReady \/ TimeOut
  <2>1. \/ work.pc = "select" /\ work'.pc = "call"
        \/ work.pc = "call" /\ work'.pc = "finalizer"
        \/ work.pc = "wait" /\ work'.pc = "save"
    BY <1>1, <1>8
    DEF SelectVolumes, CallDriver, PollReady, TimeOut, EndWait, Workers
  <2> QED  BY <1>3, <2>1, Stages
<1>9. CASE AddFinalizer \/ SetGroupID
  <2>1. \/ Return(TRUE)
        \/ work.pc = "finalizer" /\ Goto("setgid")
        \/ work.pc = "setgid" /\ Goto("member")
    BY <1>9 DEF AddFinalizer, SetGroupID, UpdateOrReturn
  <2>2. /\ work.pc = "finalizer" => Stage["setgid"] < Stage[work.pc]
        /\ work.pc = "setgid" => Stage["member"] < Stage[work.pc]
    BY Stages
  <2>3. {"setgid", "member"} \subseteq PCs \ {"snapshot"}
    BY DEF PCs
  <2> QED  BY <1>2, <1>4, <2>1, <2>2, <2>3
<1>10. ASSUME NEW m \in Members, CreateContent(m)
       PROVE  MovesOn /\ TodoInv'
  <2>1. CASE work' = [work EXCEPT !.pc = "snapshot", !.cur = m]
    <3>1. /\ work'.pc = "snapshot" /\ work'.cur = m /\ work'.todo = work.todo
      BY <1>1, <2>1 DEF Workers
    <3>2. work.pc = "member" /\ m \in work.todo
      BY <1>10 DEF CreateContent
    <3> QED  BY <3>1, <3>2, Stages DEF MovesOn, TodoInv
  <2>2. CASE Done(m, TRUE)
    BY <1>5, <1>10, <2>2 DEF CreateContent
  <2> QED  BY <1>10, <2>1, <2>2 DEF CreateContent
<1>11. ASSUME NEW m \in Members, ReuseSnapshot(m)
       PROVE  MovesOn /\ TodoInv'
  BY <1>5, <1>11 DEF ReuseSnapshot
<1>12. CASE CreateSnapshot
  <2>1. work.cur \in work.todo /\ work.pc = "snapshot"
    BY <1>12 DEF CreateSnapshot, TodoInv
  <2>2. \E err : Done(work.cur, err)
    BY <1>12 DEF CreateSnapshot
  <2> QED  BY <1>5, <2>1, <2>2
<1>13. CASE SaveStatus
  <2>1. work.pc = "save" /\ work'.pc = "resave"
    BY <1>1, <1>13 DEF SaveStatus, Goto, Workers
  <2> QED  BY <1>3, <2>1, Stages
<1>14. CASE ReadPolicy
  <2>1. ASSUME NEW policy, NEW todo,
               work' = [work EXCEPT !.pc = "delete", !.policy = policy, !.todo = todo]
        PROVE  work'.pc = "delete"
    BY <1>1, <2>1 DEF Workers
  <2>2. work.pc = "policy" /\ (Return(TRUE) \/ work'.pc = "delete")
    BY <1>14, <2>1 DEF ReadPolicy
  <2>3. work.pc = "policy" => Stage["delete"] < Stage[work.pc]
    BY Stages
  <2> QED  BY <1>2, <1>3, <2>2, <2>3
<1>15. ASSUME NEW m \in Members, DeleteMember(m)
       PROVE  MovesOn /\ TodoInv'
  <2>1. CASE work' = [work EXCEPT !.todo = @ \ {m}]
    <3>1. work'.pc = work.pc /\ work'.todo = work.todo \ {m}
      BY <1>1, <2>1 DEF Workers
    <3>2. work.pc = "delete" /\ m \in work.todo
      BY <1>15 DEF DeleteMember
    <3> QED  BY <3>1, <3>2 DEF MovesOn, TodoInv
  <2> QED  BY <1>2, <1>15, <2>1 DEF DeleteMember
<1> QED
  BY <1>6, <1>7, <1>8, <1>9, <1>10, <1>11, <1>12, <1>13, <1>14, <1>15
  DEF CreateStep, DeleteStep

\* Every step of an attempt moves it on.
LEMMA NextMovesOn ==
    ASSUME IInv, TodoInv, [Next]_vars
    PROVE  MovesOn /\ TodoInv'
<1>1. work \in Workers
  BY DEF IInv, WorkerTypeOK
<1>2. CASE ~WorkerStep
  BY <1>1, <1>2, WorkerAlone, EndIsNext DEF MovesOn, TodoInv
<1>3. CASE TakeStep
  <2>1. work.pc = "idle" /\ work'.pc # "snapshot"
    BY <1>1, <1>3
    DEF TakeStep, ReconcileAbsent, ReconcileSettled, RefusePending, RefuseDeletion,
        ReconcileDeletion, ReconcileCreation, TakeAndReturn, TakeTo, Goto, Workers
  <2> QED  BY <2>1 DEF MovesOn, TodoInv
<1> QED  BY <1>2, <1>3, WorkerMovesOn DEF WorkerStep

\* No attempt goes round in circles: with any number of members, and whatever
\* fails, each step gets nearer to its end.
THEOREM MoveOn == Spec => AttemptsMoveOn
<1>1. Init => TodoInv
  BY DEF Init, WorkerInit, Idle, TodoInv
<1>2. IInv /\ TodoInv /\ [Next]_vars => TodoInv'
  BY NextMovesOn
<1>3. IInv /\ TodoInv /\ [Next]_vars =>
        [ work.pc # "idle" /\ work' # work
            => \/ Stage[work'.pc] < Stage[work.pc]
               \/ /\ Stage[work'.pc] = Stage[work.pc]
                  /\ \/ work'.todo \subseteq work.todo /\ work'.todo # work.todo
                     \/ /\ work.pc = "member" /\ work'.pc = "snapshot"
                        /\ work'.todo = work.todo ]_vars
  BY NextMovesOn DEF MovesOn
<1> QED  BY <1>1, <1>2, <1>3, Invariance, PTL DEF Spec, AttemptsMoveOn

-----------------------------------------------------------------------------
(* The array groups that the object, its copies and the contents stand for. *)

InLoop == {"member", "snapshot", "wait", "save", "resave"}

\* Where the worker has chosen the members and reached none.
BeforeLoop == {"call", "finalizer", "setgid"}

Upto(g) == \A m \in Members : content[m].status <= g

\* Groups are made in the order of their numbers, a content stands for one
\* that was made, and its status is not older than its spec.
ArrayInv ==
    /\ \A g \in 1..MaxGroups : owner[g] # 0 => \A h \in 1..g : owner[h] # 0
    /\ \A m \in Members :
          /\ content[m].status # 0 => owner[content[m].status] # 0
          /\ content[m].spec <= content[m].status
          /\ content[m].spec = 0 => content[m] = NoContent

\* An object that names its array group has its finalizer.
HeldInv == vg.gid # 0 => vg.finalizer

\* An array group that the stored object or the cache names is the worker's
\* object's, and no other than its own copy names.
NamedInv ==
    mine.uid # 0 =>
      \A o \in {vg, cached} :
         o.gid # 0 => o.uid = mine.uid /\ mine.gid \in {0, o.gid}

\* An attempt that has reached the members has the array group of the object.
LoopInv ==
    work.pc \in InLoop => \A o \in {vg, cached} : o.gid \in {0, work.group}

\* No content stands for a later array group than the attempt, or an object.
BoundInv ==
    /\ work.pc \in Answered => Upto(work.group)
    /\ \A o \in {vg, cached, mine} : o.gid # 0 => Upto(o.gid)

\* A member done without an error stands for the array group of the attempt.
DoneInv ==
    /\ work.pc \in BeforeLoop => work.todo = work.picked
    /\ work.pc \in {"wait", "save", "resave"} => work.todo = {}
    /\ work.pc \in InLoop /\ ~work.failed =>
         \A m \in work.picked \ work.todo :
            content[m] = NoContent \/ content[m].status = work.group

AInv == ArrayInv /\ HeldInv /\ NamedInv /\ LoopInv /\ BoundInv /\ DoneInv

\* Initially there is neither a group nor a content.
LEMMA AttemptInit == Init => AInv
<1> SUFFICES ASSUME Init PROVE AInv
  OBVIOUS
<1>1. /\ vg = NoGroup /\ mine = NoGroup /\ cached = NoGroup
      /\ work.pc = "idle" /\ \A g \in 1..MaxGroups : owner[g] = 0
      /\ \A m \in Members : content[m] = NoContent
  BY DEF Init, GroupInit, WorkerInit, MemberInit, Idle, mine, cached, Copies
<1>2. NoContent.spec = 0 /\ NoContent.status = 0
  BY DEF NoContent
<1>3. ArrayInv
  BY <1>1, <1>2 DEF ArrayInv
<1> QED
  BY <1>1, <1>3, NoGroupFields
  DEF AInv, HeldInv, NamedInv, LoopInv, BoundInv, DoneInv, InLoop, BeforeLoop, Answered

-----------------------------------------------------------------------------
(* How each piece of the state changes.                                    *)

\* What a write of the worker makes of the stored object.
LEMMA WorkerWrites ==
    ASSUME IInv, WorkerStep
    PROVE  \/ vg' = vg
           \/ vg' = NoGroup
           \/ vg = mine /\ vg' \in {[mine EXCEPT !.phase = "Pending"],
                                    [mine EXCEPT !.phase = "Error"],
                                    [mine EXCEPT !.finalizer = TRUE]}
           \/ work.pc \in {"save", "resave"} /\ vg = mine /\ vg' = Outcome
<1>1. ASSUME work.pc # "idle", NEW new, NEW keep \in BOOLEAN,
             Write("worker", new, keep) \/ WriteFails("worker", new, keep)
      PROVE  vg' = vg \/ (vg = mine /\ vg' = new)
  BY <1>1, WriteFromCurrent DEF IInv, WorkInv, mine
<1>2. CASE TakeStep
  BY <1>2
  DEF TakeStep, ReconcileAbsent, ReconcileSettled, RefusePending, RefuseDeletion,
      ReconcileDeletion, ReconcileCreation, TakeAndReturn, TakeTo
<1>3. CASE MarkPending
  BY <1>1, <1>3 DEF MarkPending
<1>4. CASE Fail
  BY <1>1, <1>4 DEF Fail
<1>5. CASE AddFinalizer
  BY <1>1, <1>5 DEF AddFinalizer, UpdateOrReturn
<1>6. CASE SetGroupID
  BY <1>1, <1>6 DEF SetGroupID, UpdateOrReturn
<1>7. CASE SaveStatus
  BY <1>1, <1>7 DEF SaveStatus
<1>8. CASE SaveAgain
  BY <1>1, <1>8 DEF SaveAgain
<1>9. CASE RemoveFinalizer
  BY <1>1, <1>9 DEF RemoveFinalizer
<1>10. CASE UNCHANGED vg
  BY <1>10
<1> QED
  BY <1>2, <1>3, <1>4, <1>5, <1>6, <1>7, <1>8, <1>9, <1>10
  DEF WorkerStep, CreateStep, DeleteStep, RejectSelector, FailSelection,
      SelectVolumes, CallDriver, DriverFails, CreateContent, ReuseSnapshot,
      CreateSnapshot, StartWait, PollReady, TimeOut, EndWait, ReadPolicy,
      DeleteMember, groupVars

\* The stored object loses its array group, keeps it, or gets that of an
\* attempt whose copy is up to date.
SameButPhase ==
    /\ vg'.uid = vg.uid /\ vg'.gid = vg.gid
    /\ vg.finalizer => vg'.finalizer
    /\ vg'.phase = "Complete" => vg.phase = "Complete"

LEMMA StoredStep ==
    ASSUME IInv, [Next]_vars
    PROVE  \/ vg'.gid = 0
           \/ SameButPhase
           \/ work.pc \in {"save", "resave"} /\ vg = mine /\ vg' = Outcome
<1>1. vg \in Groups /\ mine \in Groups
  BY DEF IInv, ObjectInv, Sound, Copies, mine
<1>2. CASE vg' = vg
  BY <1>2 DEF SameButPhase
<1>3. CASE vg' = NoGroup
  BY <1>3, NoGroupFields
<1>4. CASE WorkerStep
  <2>1. CASE vg = mine /\ vg' \in {[mine EXCEPT !.phase = "Pending"],
                                   [mine EXCEPT !.phase = "Error"],
                                   [mine EXCEPT !.finalizer = TRUE]}
    BY <1>1, <2>1 DEF SameButPhase, Groups
  <2> QED  BY <1>2, <1>3, <1>4, <2>1, WorkerWrites
<1>5. CASE vg' = Deleted(vg)
  BY <1>1, <1>3, <1>5 DEF Deleted, SameButPhase, Groups
<1>6. CASE StrikeOff
  <2> DEFINE left == copy["handler"].listed \ {watch.member}
             new == [copy["handler"] EXCEPT !.listed = left]
  <2>1. /\ copy["handler"].uid # 0
        /\ Write("handler", new, FALSE) \/ WriteFails("handler", new, FALSE)
    BY <1>6 DEF StrikeOff, IInv, HandlerInv
  <2>2. CASE vg = copy["handler"] /\ vg' = new
    BY <1>1, <2>2 DEF SameButPhase, Groups
  <2> HIDE DEF new
  <2> QED  BY <1>2, <2>1, <2>2, WriteFromCurrent
<1>7. CASE CreateGroup
  <2>1. NoGroup \in Groups
    BY NoGroupSound DEF Sound
  <2>2. vg'.gid = NoGroup.gid
    BY <1>7, <2>1 DEF CreateGroup, Groups
  <2> QED  BY <2>2, NoGroupFields
<1>8. CASE FixSelector
  BY <1>1, <1>8 DEF FixSelector, SameButPhase, Groups
<1>9. ASSUME NEW m \in Members, MemberStep(m)
      PROVE  vg' = vg
  BY <1>9
  DEF MemberStep, SyncSnapshot, BindSnapshot, MakeReady, RemoveSnapshot,
      RemoveContent, RemoveOrphan, DeleteSnapshot, groupVars
<1> QED
  BY <1>2, <1>4, <1>5, <1>6, <1>7, <1>8, <1>9
  DEF Next, WatchStep, HandleContentDelete, DropTombstone, DeleteEmptyGroup, Panic,
      Restart, EnvironmentStep, UserStep, DeleteGroup, TouchGroup, ChangeClass,
      SyncCache, BackoffExpires, Crash, vars, groupVars

\* The worker's copy is dropped, kept, taken from the cache, or is what has
\* just been stored from it.
LEMMA MineStep ==
    ASSUME IInv, [Next]_vars
    PROVE  \/ mine' = NoGroup
           \/ mine' = mine
           \/ mine' = cached /\ cached' = cached /\ vg' = vg
           \/ vg = mine /\ mine' = vg' /\ vg'.uid = vg.uid
<1>1. /\ copy \in [Copies -> Groups] /\ Copies = {"cache", "worker", "handler"}
      /\ mine \in Groups
  BY DEF IInv, ObjectInv, Copies, mine
<1>2. ASSUME NEW new, new.uid = mine.uid, mine.uid # 0,
             Write("worker", new, TRUE) \/ WriteFails("worker", new, TRUE)
      PROVE  mine' = mine \/ (vg = mine /\ mine' = vg' /\ vg'.uid = vg.uid)
  <2>1. CASE Write("worker", new, TRUE)
    <3>1. mine' = new /\ vg' = new
      BY <1>1, <2>1 DEF Write, mine
    <3>2. "worker" \in Holders \ stale
      BY <1>1, <1>2, <2>1, NoGroupFields DEF Write, Holders, mine
    <3>3. vg = mine
      BY <3>2 DEF IInv, ObjectInv, mine
    <3> QED  BY <1>2, <3>1, <3>3
  <2>2. CASE WriteFails("worker", new, TRUE)
    BY <1>1, <2>2 DEF WriteFails, mine
  <2> QED  BY <1>2, <2>1, <2>2
<1>3. ASSUME NEW new, Write("worker", new, FALSE) \/ WriteFails("worker", new, FALSE)
      PROVE  mine' = NoGroup
  BY <1>1, <1>3 DEF Write, WriteFails, mine
<1>4. CASE Drop("worker")
  BY <1>1, <1>4 DEF Drop, mine
<1>5. CASE UNCHANGED copy
  BY <1>5 DEF mine
<1>6. CASE ~WorkerStep
  <2>1. CASE Restart
    BY <1>1, <2>1 DEF Restart, mine
  <2>2. CASE SyncCache
    BY <1>1, <2>2 DEF SyncCache, mine
  <2>3. ASSUME NEW m \in Members, HandleContentDelete(m)
        PROVE  mine' = mine
    BY <1>1, <2>3 DEF HandleContentDelete, Fetch, mine
  <2>4. CASE StrikeOff
    BY <1>1, <2>4 DEF StrikeOff, Write, WriteFails, mine
  <2>5. ASSUME NEW m \in Members, MemberStep(m)
        PROVE  UNCHANGED copy
    BY <2>5
    DEF MemberStep, SyncSnapshot, BindSnapshot, MakeReady, RemoveSnapshot,
        RemoveContent, RemoveOrphan, DeleteSnapshot, groupVars
  <2> QED
    BY <1>5, <1>6, <2>1, <2>2, <2>3, <2>4, <2>5
    DEF Next, WatchStep, DropTombstone, DeleteEmptyGroup, Panic, EnvironmentStep,
        UserStep, CreateGroup, DeleteGroup, FixSelector, TouchGroup, ChangeClass,
        BackoffExpires, Crash, vars, groupVars
<1>7. CASE TakeStep
  <2>1. CASE ReconcileDeletion \/ ReconcileCreation
    BY <1>1, <2>1
    DEF ReconcileDeletion, ReconcileCreation, TakeTo, Fetch, mine, cached
  <2> QED
    BY <1>5, <1>7, <2>1
    DEF TakeStep, ReconcileAbsent, ReconcileSettled, RefusePending, RefuseDeletion,
        TakeAndReturn
<1>8. CASE MarkPending \/ AddFinalizer \/ SetGroupID \/ SaveStatus
  <2>1. mine.uid # 0
    BY <1>8
    DEF MarkPending, AddFinalizer, SetGroupID, SaveStatus, IInv, WorkInv
  <2>2. /\ [mine EXCEPT !.phase = "Pending"].uid = mine.uid
        /\ [mine EXCEPT !.finalizer = TRUE].uid = mine.uid
        /\ Outcome.uid = mine.uid
    BY <1>1 DEF Groups, Outcome
  <2>3. CASE MarkPending
    BY <1>2, <2>1, <2>2, <2>3 DEF MarkPending
  <2>4. CASE AddFinalizer
    BY <1>2, <1>3, <1>5, <2>1, <2>2, <2>4 DEF AddFinalizer, UpdateOrReturn
  <2>5. CASE SetGroupID
    BY <1>2, <1>3, <1>5, <2>1, <2>5 DEF SetGroupID, UpdateOrReturn
  <2>6. CASE SaveStatus
    BY <1>2, <2>1, <2>2, <2>6 DEF SaveStatus
  <2> QED  BY <1>8, <2>3, <2>4, <2>5, <2>6
<1>9. CASE RejectSelector \/ Fail \/ SaveAgain
  BY <1>3, <1>4, <1>9 DEF RejectSelector, Fail, SaveAgain
<1>10. CASE DeleteStep
  BY <1>3, <1>4, <1>5, <1>10 DEF DeleteStep, ReadPolicy, DeleteMember, RemoveFinalizer
<1> QED
  BY <1>5, <1>6, <1>7, <1>8, <1>9, <1>10
  DEF WorkerStep, CreateStep, FailSelection, SelectVolumes, CallDriver, DriverFails,
      CreateContent, ReuseSnapshot, CreateSnapshot, StartWait, PollReady, TimeOut,
      EndWait, groupVars

\* A step of nobody but the worker leaves its place, the groups and all
\* contents alone, except that contents go and that a restart ends the attempt.
LEMMA OthersStep ==
    ASSUME IInv, [Next]_vars, ~WorkerStep
    PROVE  /\ work' = work \/ work'.pc = "idle"
           /\ owner' = owner
           /\ \A m \in Members : content'[m] \in {content[m], NoContent}
<1>1. content \in [Members -> Contents]
  BY DEF IInv, MemberTypeOK
<1>2. work' = work \/ work'.pc = "idle"
  BY WorkerAlone
<1>3. ASSUME NEW n \in Members, MemberStep(n)
      PROVE  \A m \in Members : content'[m] \in {content[m], NoContent}
  BY <1>1, <1>3
  DEF MemberStep, SyncSnapshot, BindSnapshot, MakeReady, RemoveSnapshot,
      RemoveContent, RemoveOrphan, DeleteSnapshot
<1>4. CASE UNCHANGED <<content, owner>>
  BY <1>2, <1>4
<1>5. CASE WatchStep \/ Restart
  BY <1>4, <1>5
  DEF WatchStep, HandleContentDelete, DropTombstone, StrikeOff, DeleteEmptyGroup,
      Restart, memberVars, workerVars
<1> QED
  BY <1>2, <1>3, <1>4, <1>5
  DEF Next, Panic, EnvironmentStep, Crash, vars, memberVars, workerVars

\* Once the driver has answered, the worker's steps keep the array group and
\* the members chosen; a content becomes the array group's, and only in the loop.
LEMMA AnsweredStep ==
    ASSUME IInv, WorkerStep, work.pc \in Answered, work'.pc # "idle"
    PROVE  /\ work'.pc \in Answered
           /\ work'.pc \in InLoop => work.pc \in InLoop \cup {"setgid"}
           /\ work'.group = work.group /\ work'.picked = work.picked
           /\ owner' = owner
<1>1. work \in Workers
  BY DEF IInv, WorkerTypeOK
<1>2. ASSUME NEW err, Return(err)
      PROVE  FALSE
  BY <1>2 DEF Return, Idle
<1>3. ASSUME NEW pc, Goto(pc)
      PROVE  work'.pc = pc /\ work'.group = work.group /\ work'.picked = work.picked
  BY <1>1, <1>3 DEF Goto, Workers
<1>4. ASSUME NEW m, NEW err, Done(m, err)
      PROVE  /\ work'.pc = "member"
             /\ work'.group = work.group /\ work'.picked = work.picked
  BY <1>1, <1>4 DEF Done, Workers
<1>5. CASE AddFinalizer \/ SetGroupID
  <2>1. \/ work.pc = "finalizer" /\ Goto("setgid")
        \/ work.pc = "setgid" /\ Goto("member")
    BY <1>2, <1>5 DEF AddFinalizer, SetGroupID, UpdateOrReturn
  <2>2. owner' = owner
    BY <1>5 DEF AddFinalizer, SetGroupID
  <2> QED  BY <1>3, <2>1, <2>2 DEF Answered, InLoop
<1>6. ASSUME NEW m \in Members, CreateContent(m) \/ ReuseSnapshot(m)
      PROVE  /\ work'.pc \in Answered /\ work.pc \in InLoop
             /\ work'.group = work.group /\ work'.picked = work.picked
             /\ owner' = owner
  <2>1. work.pc \in InLoop /\ owner' = owner
    BY <1>6 DEF CreateContent, ReuseSnapshot, InLoop
  <2>2. CASE work' = [work EXCEPT !.pc = "snapshot", !.cur = m]
    BY <1>1, <2>1, <2>2 DEF Workers, Answered
  <2> QED  BY <1>4, <1>6, <2>1, <2>2 DEF CreateContent, ReuseSnapshot, Answered
<1>7. CASE CreateSnapshot
  <2>1. \E err : Done(work.cur, err)
    BY <1>7 DEF CreateSnapshot
  <2> QED  BY <1>4, <1>7, <2>1 DEF CreateSnapshot, Answered, InLoop
<1>8. CASE StartWait
  BY <1>3, <1>8 DEF StartWait, Answered, InLoop
<1>9. CASE PollReady \/ TimeOut
  BY <1>1, <1>9 DEF PollReady, TimeOut, EndWait, Answered, InLoop, Workers
<1>10. CASE SaveStatus
  BY <1>1, <1>3, <1>10 DEF SaveStatus, Answered, InLoop, Workers
<1>11. CASE SaveAgain
  BY <1>2, <1>11 DEF SaveAgain
<1> QED
  BY <1>5, <1>6, <1>7, <1>8, <1>9, <1>10, <1>11
  DEF WorkerStep, CreateStep, DeleteStep, TakeStep, ReconcileAbsent, ReconcileSettled,
      RefusePending, RefuseDeletion, ReconcileDeletion, ReconcileCreation,
      TakeAndReturn, TakeTo, MarkPending, RejectSelector, FailSelection,
      SelectVolumes, CallDriver, DriverFails, Fail, ReadPolicy, DeleteMember,
      RemoveFinalizer, Answered

\* The driver makes the first group that is free.
FirstFree(g) == g \in FreeGroups /\ \A h \in FreeGroups : g <= h

\* Before the driver has answered, nothing happens to a content, and at most
\* one array group is made, for the worker's object.
LEMMA UnansweredStep ==
    ASSUME IInv, WorkerStep, work.pc \notin Answered
    PROVE  /\ content' = content
           /\ \/ owner' = owner
              \/ \E g : FirstFree(g) /\ owner' = [owner EXCEPT ![g] = mine.uid]
           /\ work'.pc \in Answered =>
                /\ work.pc = "call" /\ CallDriver
                /\ work'.pc = "finalizer" /\ work'.picked = work.picked
                /\ work'.todo = work.todo
                /\ \/ mine.gid # 0 /\ work'.group = mine.gid /\ owner' = owner
                   \/ FirstFree(work'.group)
<1>1. work \in Workers
  BY DEF IInv, WorkerTypeOK
<1>2. ASSUME UNCHANGED <<content, owner>>, work'.pc \notin Answered
      PROVE  /\ content' = content
             /\ owner' = owner
             /\ work'.pc \notin Answered
  BY <1>2
<1>3. ASSUME NEW err, Return(err)
      PROVE  work'.pc \notin Answered
  BY <1>3 DEF Return, Idle, Answered
<1>4. ASSUME NEW pc \in {"pend", "policy", "select", "fail"}, Goto(pc)
      PROVE  work'.pc \notin Answered
  BY <1>1, <1>4 DEF Goto, Workers, Answered
<1>5. CASE TakeStep
  <2>1. work'.pc \notin Answered
    BY <1>4, <1>5
    DEF TakeStep, ReconcileAbsent, ReconcileSettled, RefusePending, RefuseDeletion,
        ReconcileDeletion, ReconcileCreation, TakeAndReturn, TakeTo
  <2>2. UNCHANGED <<content, owner>>
    BY <1>5
    DEF TakeStep, ReconcileAbsent, ReconcileSettled, RefusePending, RefuseDeletion,
        ReconcileDeletion, ReconcileCreation, TakeAndReturn, TakeTo, memberVars
  <2> QED  BY <2>1, <2>2
<1>6. CASE MarkPending \/ RejectSelector \/ FailSelection \/ Fail
  <2>1. work'.pc \notin Answered
    BY <1>3, <1>4, <1>6 DEF MarkPending, RejectSelector, FailSelection, Fail
  <2>2. UNCHANGED <<content, owner>>
    BY <1>6 DEF MarkPending, RejectSelector, FailSelection, Fail, memberVars
  <2> QED  BY <2>1, <2>2
<1>7. CASE SelectVolumes
  <2>1. work'.pc \notin Answered
    BY <1>1, <1>7 DEF SelectVolumes, Workers, Answered
  <2> QED  BY <1>7, <2>1 DEF SelectVolumes, memberVars
<1>8. CASE DriverFails
  <2>1. work'.pc \notin Answered
    BY <1>4, <1>8 DEF DriverFails
  <2>2. \/ owner' = owner
        \/ \E g : FirstFree(g) /\ owner' = [owner EXCEPT ![g] = mine.uid]
    BY <1>8 DEF DriverFails, FirstFree
  <2> QED  BY <1>8, <2>1, <2>2 DEF DriverFails, memberVars
<1>9. CASE CallDriver
  <2>1. content' = content /\ work.pc = "call"
    BY <1>9 DEF CallDriver, memberVars
  <2>2. ASSUME NEW g, work' = [work EXCEPT !.pc = "finalizer", !.group = g]
        PROVE  /\ work'.pc = "finalizer" /\ work'.group = g
               /\ work'.picked = work.picked /\ work'.todo = work.todo
    BY <1>1, <2>2 DEF Workers
  <2>3. CASE /\ mine.gid # 0 /\ UNCHANGED owner
             /\ work' = [work EXCEPT !.pc = "finalizer", !.group = mine.gid]
    BY <1>9, <2>1, <2>2, <2>3
  <2>4. ASSUME NEW g \in FreeGroups, \A h \in FreeGroups : g <= h,
               owner' = [owner EXCEPT ![g] = mine.uid],
               work' = [work EXCEPT !.pc = "finalizer", !.group = g]
        PROVE  /\ FirstFree(g) /\ work'.group = g
               /\ work'.pc = "finalizer"
               /\ work'.picked = work.picked /\ work'.todo = work.todo
    BY <2>2, <2>4 DEF FirstFree
  <2> QED  BY <1>9, <2>1, <2>3, <2>4 DEF CallDriver
<1>10. CASE DeleteStep
  <2>1. ASSUME NEW policy, NEW todo,
               work' = [work EXCEPT !.pc = "delete", !.policy = policy, !.todo = todo]
        PROVE  work'.pc \notin Answered
    BY <1>1, <2>1 DEF Workers, Answered
  <2>2. ASSUME NEW todo, work' = [work EXCEPT !.todo = todo]
        PROVE  work'.pc \notin Answered
    BY <1>1, <2>2 DEF Workers
  <2>3. work'.pc \notin Answered
    BY <1>3, <1>10, <2>1, <2>2 DEF DeleteStep, ReadPolicy, DeleteMember, RemoveFinalizer
  <2>4. UNCHANGED <<content, owner>>
    BY <1>10 DEF DeleteStep, ReadPolicy, DeleteMember, RemoveFinalizer, memberVars
  <2> QED  BY <2>3, <2>4
<1> QED
  BY <1>5, <1>6, <1>7, <1>8, <1>9, <1>10
  DEF WorkerStep, CreateStep, AddFinalizer, SetGroupID, CreateContent, ReuseSnapshot,
      CreateSnapshot, StartWait, PollReady, TimeOut, EndWait, SaveStatus, SaveAgain,
      Answered

\* How the contents change while the driver's answer is worked on.
Moved(m) ==
    /\ work.pc \in {"member", "snapshot"}
    /\ content'[m].status = work.group
    /\ \/ content'[m].spec = work.group
       \/ content'[m].spec = content[m].spec /\ content[m].spec # 0

LEMMA ContentStep ==
    ASSUME IInv, [Next]_vars, NEW m \in Members
    PROVE  \/ content'[m] \in {content[m], NoContent}
           \/ Moved(m) /\ UNCHANGED <<vg, copy, owner>>
<1>1. content \in [Members -> Contents]
  BY DEF IInv, MemberTypeOK
<1>2. CASE UNCHANGED content
  BY <1>2
<1>3. CASE ~WorkerStep
  BY <1>3, OthersStep
<1>4. CASE CreateSnapshot
  <2>1. \/ content' = content
        \/ content' = [content EXCEPT ![work.cur] = ContentOf(work.group)]
    BY <1>4 DEF CreateSnapshot
  <2>2. ContentOf(work.group).spec = work.group /\ ContentOf(work.group).status = work.group
    BY DEF ContentOf
  <2>3. UNCHANGED <<vg, copy, owner>> /\ work.pc = "snapshot"
    BY <1>4 DEF CreateSnapshot
  <2> QED  BY <1>1, <2>1, <2>2, <2>3 DEF Moved
<1>5. ASSUME NEW n \in Members, ReuseSnapshot(n)
      PROVE  \/ content'[m] = content[m]
             \/ Moved(m) /\ UNCHANGED <<vg, copy, owner>>
  <2>1. \/ content' = content
        \/ /\ content' = [content EXCEPT ![n].status = work.group]
           /\ content[n].spec # 0
    BY <1>5 DEF ReuseSnapshot
  <2>2. UNCHANGED <<vg, copy, owner>> /\ work.pc = "member"
    BY <1>5 DEF ReuseSnapshot
  <2>3. CASE /\ content' = [content EXCEPT ![n].status = work.group]
             /\ content[n].spec # 0
    BY <1>1, <2>2, <2>3 DEF Moved, Contents
  <2> QED  BY <2>1, <2>3
<1>6. CASE UNCHANGED memberVars
  BY <1>2, <1>6 DEF memberVars
<1> QED
  BY <1>2, <1>3, <1>4, <1>5, <1>6
  DEF WorkerStep, CreateStep, DeleteStep, TakeStep, ReconcileAbsent, ReconcileSettled,
      RefusePending, RefuseDeletion, ReconcileDeletion, ReconcileCreation,
      TakeAndReturn, TakeTo, MarkPending, RejectSelector, FailSelection,
      SelectVolumes, CallDriver, DriverFails, Fail, AddFinalizer, SetGroupID,
      CreateContent, StartWait, PollReady, TimeOut, EndWait, SaveStatus, SaveAgain,
      ReadPolicy, DeleteMember, RemoveFinalizer

-----------------------------------------------------------------------------
(* The invariant is kept.                                                  *)

\* The numbers compared below, and the ids the worker's place implies.
LEMMA Numbers ==
    ASSUME IInv
    PROVE  /\ \A m \in Members : content[m].spec \in Nat /\ content[m].status \in Nat
           /\ \A m \in Members : content[m].status \in 0..MaxGroups
           /\ \A o \in {vg, cached, mine} : o.gid \in Nat
           /\ work.group \in 0..MaxGroups /\ work.group \in Nat
           /\ FreeGroups \subseteq 1..MaxGroups
           /\ NoContent.spec = 0 /\ NoContent.status = 0
<1>1. content \in [Members -> Contents] /\ work \in Workers
  BY DEF IInv, MemberTypeOK, WorkerTypeOK
<1>2. vg \in Groups /\ cached \in Groups /\ mine \in Groups
  BY DEF IInv, ObjectInv, Sound, Copies, mine, cached
<1>3. \A g \in 0..MaxGroups : g \in Nat
  BY BoundsAssumption
<1>4. \A m \in Members : content[m].spec \in 0..MaxGroups /\ content[m].status \in 0..MaxGroups
  BY <1>1 DEF Contents
<1>5. work.group \in 0..MaxGroups
  BY <1>1 DEF Workers
<1>6. vg.gid \in 0..MaxGroups /\ cached.gid \in 0..MaxGroups /\ mine.gid \in 0..MaxGroups
  BY <1>2 DEF Groups
<1> QED
  BY <1>3, <1>4, <1>5, <1>6 DEF FreeGroups, NoContent

\* The worker knows its object and array group at each of these places.
LEMMA AtWork ==
    ASSUME IInv, work.pc \in Answered
    PROVE  /\ work.group # 0 /\ owner[work.group] = mine.uid /\ mine.uid # 0
           /\ mine.gid \in {0, work.group}
BY DEF IInv, WorkInv, Answered

\* No content stands for a group later than the first that is free.
LEMMA FreeIsLast ==
    ASSUME IInv, ArrayInv, NEW g, FirstFree(g)
    PROVE  Upto(g)
<1> SUFFICES ASSUME NEW m \in Members PROVE content[m].status <= g
  BY DEF Upto
<1>1. g \in 1..MaxGroups /\ owner[g] = 0
  BY DEF FirstFree, FreeGroups
<1>2. content[m].status \in 0..MaxGroups
  BY Numbers
<1>3. ASSUME content[m].status > g PROVE FALSE
  <2>1. content[m].status \in 1..MaxGroups /\ g \in 1..content[m].status
    BY <1>1, <1>2, <1>3, BoundsAssumption
  <2>2. owner[content[m].status] # 0
    BY <1>1, <1>3, <2>1 DEF ArrayInv
  <2>3. owner[g] # 0
    BY <2>1, <2>2 DEF ArrayInv
  <2> QED  BY <1>1, <2>3
<1>4. g \in Nat /\ content[m].status \in Nat
  BY <1>1, <1>2, BoundsAssumption
<1> QED  BY <1>3, <1>4

\* Groups are only ever added, after all that are there.
LEMMA OwnerStep ==
    ASSUME IInv, [Next]_vars
    PROVE  \/ owner' = owner
           \/ /\ \E g : FirstFree(g) /\ owner' = [owner EXCEPT ![g] = mine.uid]
              /\ mine.uid # 0
              /\ content' = content
<1>1. CASE ~WorkerStep
  BY <1>1, OthersStep
<1>2. CASE WorkerStep /\ work.pc \in Answered
  <2>1. CASE work'.pc = "idle"
    <3>1. work \in Workers
      BY DEF IInv, WorkerTypeOK
    <3> QED
      BY <1>2, <2>1, <3>1
      DEF WorkerStep, CreateStep, DeleteStep, TakeStep, ReconcileAbsent, ReconcileSettled,
          RefusePending, RefuseDeletion, ReconcileDeletion, ReconcileCreation,
          TakeAndReturn, TakeTo, MarkPending, RejectSelector, FailSelection,
          SelectVolumes, CallDriver, DriverFails, Fail, AddFinalizer, SetGroupID,
          CreateContent, ReuseSnapshot, CreateSnapshot, StartWait, PollReady, TimeOut,
          EndWait, SaveStatus, SaveAgain, ReadPolicy, DeleteMember, RemoveFinalizer,
          Answered
  <2> QED  BY <1>2, <2>1, AnsweredStep
<1>3. CASE WorkerStep /\ work.pc \notin Answered
  <2>1. work.pc = "idle" => owner' = owner
    BY <1>3
    DEF WorkerStep, CreateStep, DeleteStep, TakeStep, ReconcileAbsent, ReconcileSettled,
        RefusePending, RefuseDeletion, ReconcileDeletion, ReconcileCreation,
        TakeAndReturn, TakeTo, MarkPending, RejectSelector, FailSelection,
        SelectVolumes, CallDriver, DriverFails, Fail, AddFinalizer, SetGroupID,
        CreateContent, ReuseSnapshot, CreateSnapshot, StartWait, PollReady, TimeOut,
        EndWait, SaveStatus, SaveAgain, ReadPolicy, DeleteMember, RemoveFinalizer
  <2>2. work.pc # "idle" => mine.uid # 0
    BY DEF IInv, WorkInv
  <2> QED  BY <1>3, <2>1, <2>2, UnansweredStep
<1> QED  BY <1>1, <1>2, <1>3

LEMMA ArrayNext ==
    ASSUME IInv, AInv, [Next]_vars
    PROVE  ArrayInv'
<1>1. /\ owner \in [1..MaxGroups -> 0..MaxUID]
      /\ content \in [Members -> Contents] /\ content' \in [Members -> Contents]
  BY NextInv DEF IInv, WorkerTypeOK, MemberTypeOK
<1>2. /\ \A g \in 1..MaxGroups : owner[g] # 0 => owner'[g] # 0
      /\ \A g \in 1..MaxGroups : owner'[g] # 0 => \A h \in 1..g : owner'[h] # 0
  <2>1. CASE owner' = owner
    BY <2>1 DEF AInv, ArrayInv
  <2>2. ASSUME NEW n, FirstFree(n), owner' = [owner EXCEPT ![n] = mine.uid], mine.uid # 0
        PROVE  /\ \A g \in 1..MaxGroups : owner[g] # 0 => owner'[g] # 0
               /\ \A g \in 1..MaxGroups : owner'[g] # 0 => \A h \in 1..g : owner'[h] # 0
    <3>1. n \in 1..MaxGroups /\ MaxGroups \in Nat
      BY <2>2, BoundsAssumption DEF FirstFree, FreeGroups
    <3>2. \A g \in 1..MaxGroups : owner'[g] = IF g = n THEN mine.uid ELSE owner[g]
      BY <1>1, <2>2
    <3>3. \A h \in 1..n : h \in 1..MaxGroups /\ (h # n => owner[h] # 0)
      BY <2>2, <3>1 DEF FirstFree, FreeGroups
    <3>4. \A g \in 1..MaxGroups : \A h \in 1..g : h \in 1..MaxGroups
      BY <3>1
    <3> QED  BY <2>2, <3>2, <3>3, <3>4 DEF AInv, ArrayInv
  <2> QED  BY <2>1, <2>2, OwnerStep
<1>3. ASSUME NEW m \in Members
      PROVE  /\ content'[m].status # 0 => owner'[content'[m].status] # 0
             /\ content'[m].spec <= content'[m].status
             /\ content'[m].spec = 0 => content'[m] = NoContent
  <2>1. content[m].status \in 0..MaxGroups /\ 1..MaxGroups = (0..MaxGroups) \ {0}
    BY Numbers, BoundsAssumption
  <2>2. /\ content[m].status # 0 => owner[content[m].status] # 0
        /\ content[m].spec <= content[m].status
        /\ content[m].spec = 0 => content[m] = NoContent
    BY DEF AInv, ArrayInv
  <2>3. CASE content'[m] = content[m]
    BY <1>2, <2>1, <2>2, <2>3
  <2>4. CASE content'[m] = NoContent
    BY <2>4, Numbers
  <2>5. CASE Moved(m) /\ UNCHANGED <<vg, copy, owner>>
    <3>1. work.pc \in Answered
      BY <2>5 DEF Moved, Answered
    <3>2. owner'[work.group] # 0 /\ work.group # 0 /\ content[m].status <= work.group
      BY <2>5, <3>1, AtWork DEF AInv, BoundInv, Upto
    <3>3. content[m].spec <= work.group
      BY <2>2, <3>2, Numbers
    <3> QED  BY <2>5, <3>2, <3>3, Numbers DEF Moved
  <2> QED  BY <2>3, <2>4, <2>5, ContentStep
<1> QED  BY <1>2, <1>3 DEF ArrayInv

LEMMA HeldNext ==
    ASSUME IInv, HeldInv, [Next]_vars
    PROVE  HeldInv'
BY StoredStep, OutcomeSound DEF HeldInv, SameButPhase

\* What the worker's copy and the cache name is never at odds.
LEMMA NamedNext ==
    ASSUME IInv, HistoryInv, UnseenInv, HeldInv, NamedInv, [Next]_vars
    PROVE  NamedInv'
<1>1. /\ Copies = {"cache", "worker", "handler"}
      /\ cached.uid = vg.uid => Kept(cached, vg)
      /\ mine.uid = vg.uid => Kept(mine, vg)
  BY DEF Copies, HistoryInv, cached, mine
<1>2. cached' \in {cached, vg}
  BY CacheStep DEF cached
<1>3. CASE mine' = NoGroup
  BY <1>3, NoGroupFields DEF NamedInv
<1>4. CASE mine' = mine
  <2> SUFFICES ASSUME mine.uid # 0, NEW o \in {vg', cached'}, o.gid # 0
               PROVE  o.uid = mine.uid /\ mine.gid \in {0, o.gid}
    BY <1>4 DEF NamedInv
  <2>1. CASE o \in {vg, cached}
    BY <2>1 DEF NamedInv
  <2>2. CASE o = vg'
    <3>1. CASE SameButPhase
      BY <2>2, <3>1 DEF SameButPhase, NamedInv
    <3>2. CASE work.pc \in {"save", "resave"} /\ vg = mine /\ vg' = Outcome
      BY <2>2, <3>2, OutcomeSound, AtWork DEF Answered
    <3> QED  BY <2>2, <3>1, <3>2, StoredStep
  <2> QED  BY <1>2, <2>1, <2>2
<1>5. CASE mine' = cached /\ cached' = cached /\ vg' = vg
  <2>1. vg.gid # 0 => vg.uid = cached.uid
    BY NoGroupFields DEF HeldInv, UnseenInv, cached
  <2>2. vg.gid # 0 => cached.gid \in {0, vg.gid}
    BY <1>1, <2>1 DEF Kept
  <2> QED  BY <1>5, <2>1, <2>2 DEF NamedInv
<1>6. CASE vg = mine /\ mine' = vg' /\ vg'.uid = vg.uid /\ mine.uid # 0
  <2>1. vg.gid # 0 => vg'.gid = vg.gid
    BY <1>6, NextVgStep, NoGroupFields, BoundsAssumption
    DEF VgStep, Kept
  <2>2. cached.gid # 0 => cached.uid = vg.uid /\ vg.gid = cached.gid
    BY <1>1, <1>6 DEF NamedInv, Kept
  <2> QED  BY <1>2, <1>6, <2>1, <2>2 DEF NamedInv
<1>7. CASE vg = mine /\ mine' = vg' /\ vg'.uid = vg.uid /\ mine.uid = 0
  BY <1>7 DEF NamedInv
<1> QED  BY <1>3, <1>4, <1>5, <1>6, <1>7, MineStep

\* SetGroupID lets only an attempt pass whose copy names the array group, or
\* is the stored object, which names none.
LEMMA LoopEntered ==
    ASSUME IInv, [Next]_vars, work'.pc \in InLoop, work.pc \notin InLoop
    PROVE  /\ work.pc = "setgid" /\ work'.group = work.group
           /\ work'.todo = work.todo /\ work'.picked = work.picked
           /\ \/ mine.gid # 0 /\ UNCHANGED <<vg, copy>>
              \/ mine.gid = 0 /\ vg = mine /\ vg' = mine /\ cached' = cached
<1>1. /\ work \in Workers /\ copy \in [Copies -> Groups]
      /\ Copies = {"cache", "worker", "handler"}
  BY DEF IInv, WorkerTypeOK, ObjectInv, Copies
<1>2. WorkerStep
  BY OthersStep DEF InLoop
<1>3. work.pc \in Answered
  BY <1>2, UnansweredStep DEF InLoop, Answered
<1>4. work.pc = "setgid" /\ work'.group = work.group /\ work'.picked = work.picked
  BY <1>2, <1>3, AnsweredStep DEF InLoop
<1>5. SetGroupID
  BY <1>2, <1>4
  DEF WorkerStep, CreateStep, DeleteStep, TakeStep, ReconcileAbsent, ReconcileSettled,
      RefusePending, RefuseDeletion, ReconcileDeletion, ReconcileCreation,
      TakeAndReturn, TakeTo, MarkPending, RejectSelector, FailSelection,
      SelectVolumes, CallDriver, DriverFails, Fail, AddFinalizer,
      CreateContent, ReuseSnapshot, CreateSnapshot, StartWait, PollReady, TimeOut,
      EndWait, SaveStatus, SaveAgain, ReadPolicy, DeleteMember, RemoveFinalizer
<1>6. ~Return(TRUE)
  BY DEF Return, Idle, InLoop
<1>7. Goto("member")
  BY <1>5, <1>6 DEF SetGroupID, UpdateOrReturn
<1>8. work'.todo = work.todo
  BY <1>1, <1>7 DEF Goto, Workers
<1>9. CASE mine.gid # 0
  BY <1>4, <1>5, <1>8, <1>9 DEF SetGroupID
<1>10. CASE mine.gid = 0
  <2>1. Write("worker", mine, TRUE)
    BY <1>5, <1>6, <1>10 DEF SetGroupID, UpdateOrReturn
  <2>2. mine.uid # 0
    BY <1>3, AtWork
  <2>3. vg = mine
    BY <1>1, <2>1, <2>2, NoGroupFields DEF Write, Holders, IInv, ObjectInv, mine
  <2>4. vg' = mine /\ cached' = cached
    BY <1>1, <2>1 DEF Write, cached
  <2> QED  BY <1>4, <1>8, <1>10, <2>3, <2>4
<1> QED  BY <1>9, <1>10

\* In the loop the array group stays, or the attempt ends.
LEMMA LoopStep ==
    ASSUME IInv, [Next]_vars, work.pc \in InLoop, work'.pc \in InLoop
    PROVE  work'.group = work.group /\ work'.picked = work.picked
<1>1. CASE ~WorkerStep
  BY <1>1, OthersStep DEF InLoop
<1>2. CASE WorkerStep
  BY <1>2, AnsweredStep DEF InLoop, Answered
<1> QED  BY <1>1, <1>2

LEMMA LoopNext ==
    ASSUME IInv, HistoryInv, AInv, [Next]_vars
    PROVE  LoopInv'
<1> SUFFICES ASSUME work'.pc \in InLoop
             PROVE  \A o \in {vg', cached'} : o.gid \in {0, work'.group}
  BY DEF LoopInv
<1>1. cached' \in {cached, vg}
  BY CacheStep DEF cached
<1>2. CASE work.pc \in InLoop
  <2>1. work'.group = work.group
    BY <1>2, LoopStep
  <2>2. vg.gid \in {0, work.group} /\ cached.gid \in {0, work.group}
    BY <1>2 DEF AInv, LoopInv
  <2>3. vg'.gid \in {0, work.group}
    BY <2>2, StoredStep, OutcomeSound DEF SameButPhase
  <2> QED  BY <1>1, <2>1, <2>2, <2>3
<1>3. CASE work.pc \notin InLoop
  <2>1. /\ work.pc = "setgid" /\ work'.group = work.group
        /\ \/ mine.gid # 0 /\ UNCHANGED <<vg, copy>>
           \/ mine.gid = 0 /\ vg = mine /\ vg' = mine /\ cached' = cached
    BY <1>3, LoopEntered
  <2>2. mine.uid # 0 /\ mine.gid \in {0, work.group}
    BY <2>1, AtWork DEF Answered
  <2>3. \A o \in {vg, cached} : o.gid # 0 => o.uid = mine.uid /\ mine.gid \in {0, o.gid}
    BY <2>2 DEF AInv, NamedInv
  <2>4. CASE mine.gid # 0 /\ UNCHANGED <<vg, copy>>
    BY <2>1, <2>2, <2>3, <2>4 DEF cached
  <2>5. CASE mine.gid = 0 /\ vg = mine /\ vg' = mine /\ cached' = cached
    <3>1. cached.uid = vg.uid => Kept(cached, vg)
      BY DEF HistoryInv, Copies, cached
    <3> QED  BY <2>1, <2>3, <2>5, <3>1 DEF Kept
  <2> QED  BY <2>1, <2>4, <2>5
<1> QED  BY <1>2, <1>3

\* What an object names after a step was named before, or is the attempt's.
LEMMA NamesStep ==
    ASSUME IInv, [Next]_vars, NEW o \in {vg', cached', mine'}
    PROVE  \/ o.gid = 0
           \/ \E p \in {vg, cached, mine} : o.gid = p.gid
           \/ work.pc \in {"save", "resave"} /\ o.gid = work.group
<1>1. \/ vg'.gid \in {0, vg.gid}
      \/ work.pc \in {"save", "resave"} /\ vg'.gid = work.group
  BY StoredStep, OutcomeSound DEF SameButPhase
<1>2. cached' \in {cached, vg}
  BY CacheStep DEF cached
<1>3. mine' \in {NoGroup, mine, cached, vg'}
  BY MineStep
<1>4. CASE o = vg'
  BY <1>1, <1>4
<1> QED  BY <1>2, <1>3, <1>4, NoGroupFields

\* A content that changes stands for no later group than an object names.
UptoNext(g) == \A m \in Members : content'[m].status <= g

LEMMA BoundKept ==
    ASSUME IInv, AInv, [Next]_vars, NEW g \in Nat, Upto(g),
           work.pc \in {"member", "snapshot"} => g = work.group
    PROVE  UptoNext(g)
<1> SUFFICES ASSUME NEW m \in Members PROVE content'[m].status <= g
  BY DEF UptoNext
<1>1. CASE content'[m] = content[m]
  BY <1>1 DEF Upto
<1>2. CASE content'[m] = NoContent
  BY <1>2, Numbers
<1>3. CASE Moved(m)
  BY <1>3 DEF Moved
<1> QED  BY <1>1, <1>2, <1>3, ContentStep

LEMMA BoundNext ==
    ASSUME IInv, AInv, [Next]_vars
    PROVE  BoundInv'
<1>1. ASSUME NEW o \in {vg', cached', mine'}, o.gid # 0
      PROVE  UptoNext(o.gid)
  <2>1. CASE work.pc \in {"member", "snapshot"}
    <3>1. \A p \in {vg, cached, mine} : p.gid \in {0, work.group}
      BY <2>1, AtWork DEF AInv, LoopInv, InLoop, Answered
    <3>2. o.gid = work.group
      BY <1>1, <2>1, <3>1, NamesStep
    <3>3. Upto(work.group) /\ work.group \in Nat
      BY <2>1, Numbers DEF AInv, BoundInv, Answered
    <3>4. \A g \in Nat : Upto(g) /\ g = work.group => UptoNext(g)
      BY BoundKept
    <3> QED  BY <3>2, <3>3, <3>4
  <2>2. CASE work.pc \notin {"member", "snapshot"}
    <3>1. o.gid \in Nat /\ Upto(o.gid)
      <4>1. CASE \E p \in {vg, cached, mine} : o.gid = p.gid
        BY <1>1, <4>1, Numbers DEF AInv, BoundInv
      <4>2. CASE work.pc \in {"save", "resave"} /\ o.gid = work.group
        BY <4>2, Numbers DEF AInv, BoundInv, Answered
      <4> QED  BY <1>1, <4>1, <4>2, NamesStep
    <3>2. \A g \in Nat : Upto(g) => UptoNext(g)
      BY <2>2, BoundKept
    <3> QED  BY <3>1, <3>2
  <2> QED  BY <2>1, <2>2
<1>2. ASSUME work'.pc \in Answered
      PROVE  UptoNext(work'.group)
  <2>1. CASE work.pc \in Answered
    <3>1. work'.group = work.group
      BY <1>2, <2>1, OthersStep, AnsweredStep DEF Answered
    <3>2. Upto(work.group) /\ work.group \in Nat
      BY <2>1, Numbers DEF AInv, BoundInv
    <3>3. \A g \in Nat : Upto(g) /\ g = work.group => UptoNext(g)
      BY BoundKept
    <3> QED  BY <3>1, <3>2, <3>3
  <2>2. CASE work.pc \notin Answered
    <3>1. WorkerStep
      BY <1>2, <2>2, OthersStep DEF Answered
    <3>2. /\ content' = content
          /\ \/ mine.gid # 0 /\ work'.group = mine.gid
             \/ FirstFree(work'.group)
      BY <1>2, <2>2, <3>1, UnansweredStep
    <3>3. Upto(work'.group)
      BY <3>2, FreeIsLast DEF AInv, BoundInv
    <3> QED  BY <3>2, <3>3 DEF Upto, UptoNext
  <2> QED  BY <2>1, <2>2
<1> QED  BY <1>1, <1>2 DEF BoundInv, Upto, UptoNext

\* The members to do are those chosen until the loop starts, and none when it
\* has ended.
LEMMA TodoStep ==
    ASSUME IInv, DoneInv, [Next]_vars
    PROVE  /\ work'.pc \in BeforeLoop => work'.todo = work'.picked
           /\ work'.pc \in {"wait", "save", "resave"} => work'.todo = {}
<1> DEFINE Goal == /\ work'.pc \in BeforeLoop => work'.todo = work'.picked
                   /\ work'.pc \in {"wait", "save", "resave"} => work'.todo = {}
<1> SUFFICES Goal
  OBVIOUS
<1>1. /\ work \in Workers
      /\ work.pc \in BeforeLoop => work.todo = work.picked
      /\ work.pc \in {"wait", "save", "resave"} => work.todo = {}
  BY DEF IInv, WorkerTypeOK, DoneInv
<1>2. ASSUME work'.pc \notin BeforeLoop \cup {"wait", "save", "resave"}
      PROVE  Goal
  BY <1>2 DEF BeforeLoop
<1>3. CASE work' = work
  BY <1>1, <1>3
<1>4. ASSUME NEW err, Return(err)
      PROVE  Goal
  BY <1>2, <1>4 DEF Return, Idle, BeforeLoop
<1>5. ASSUME NEW pc, Goto(pc)
      PROVE  work'.pc = pc /\ work'.todo = work.todo /\ work'.picked = work.picked
  BY <1>1, <1>5 DEF Goto, Workers
<1>6. ASSUME NEW m, NEW err, Done(m, err)
      PROVE  Goal
  <2>1. work'.pc = "member"
    BY <1>1, <1>6 DEF Done, Workers
  <2> QED  BY <1>2, <2>1 DEF BeforeLoop
<1>7. CASE ~WorkerStep
  BY <1>2, <1>3, <1>7, OthersStep DEF BeforeLoop
<1>8. CASE TakeStep
  <2>1. work' = work \/ Goto("policy") \/ Goto("pend")
    BY <1>8
    DEF TakeStep, ReconcileAbsent, ReconcileSettled, RefusePending, RefuseDeletion,
        ReconcileDeletion, ReconcileCreation, TakeAndReturn, TakeTo
  <2> QED  BY <1>2, <1>3, <1>5, <2>1 DEF BeforeLoop
<1>9. CASE \/ MarkPending \/ RejectSelector \/ FailSelection \/ DriverFails \/ Fail
           \/ SaveAgain
  <2>1. Goto("select") \/ Goto("fail") \/ \E err : Return(err)
    BY <1>9 DEF MarkPending, RejectSelector, FailSelection, DriverFails, Fail, SaveAgain
  <2> QED  BY <1>2, <1>4, <1>5, <2>1 DEF BeforeLoop
<1>10. CASE SelectVolumes
  BY <1>1, <1>10 DEF SelectVolumes, Workers
<1>11. CASE CallDriver
  <2>1. work.pc = "call" /\ \E g : work' = [work EXCEPT !.pc = "finalizer", !.group = g]
    BY <1>11 DEF CallDriver
  <2>2. work'.pc = "finalizer" /\ work'.todo = work.todo /\ work'.picked = work.picked
    BY <1>1, <2>1 DEF Workers
  <2> QED  BY <1>1, <2>1, <2>2 DEF BeforeLoop
<1>12. CASE AddFinalizer \/ SetGroupID
  <2>1. \/ Return(TRUE)
        \/ work.pc = "finalizer" /\ Goto("setgid")
        \/ Goto("member")
    BY <1>12 DEF AddFinalizer, SetGroupID, UpdateOrReturn
  <2>2. CASE work.pc = "finalizer" /\ Goto("setgid")
    <3>1. work'.pc = "setgid" /\ work'.todo = work'.picked
      BY <1>1, <1>5, <2>2 DEF BeforeLoop
    <3> QED  BY <3>1
  <2>3. CASE Goto("member")
    <3>1. work'.pc = "member"
      BY <1>5, <2>3
    <3> QED  BY <1>2, <3>1 DEF BeforeLoop
  <2> QED  BY <1>4, <2>1, <2>2, <2>3
<1>13. ASSUME NEW m \in Members, CreateContent(m) \/ ReuseSnapshot(m)
       PROVE  Goal
  <2>1. CASE work' = [work EXCEPT !.pc = "snapshot", !.cur = m]
    <3>1. work'.pc = "snapshot"
      BY <1>1, <2>1 DEF Workers
    <3> QED  BY <1>2, <3>1 DEF BeforeLoop
  <2> QED  BY <1>6, <1>13, <2>1 DEF CreateContent, ReuseSnapshot
<1>14. CASE CreateSnapshot
  <2>1. \E err : Done(work.cur, err)
    BY <1>14 DEF CreateSnapshot
  <2> QED  BY <1>6, <2>1
<1>15. CASE StartWait
  BY <1>5, <1>15 DEF StartWait, BeforeLoop
<1>16. CASE PollReady \/ TimeOut
  <2>1. work.pc = "wait" /\ work'.pc = "save" /\ work'.todo = work.todo
    BY <1>1, <1>16 DEF PollReady, TimeOut, EndWait, Workers
  <2> QED  BY <1>1, <2>1 DEF BeforeLoop
<1>17. CASE SaveStatus
  <2>1. work.pc = "save" /\ work'.pc = "resave" /\ work'.todo = work.todo
    BY <1>1, <1>17 DEF SaveStatus, Goto, Workers
  <2> QED  BY <1>1, <2>1 DEF BeforeLoop
<1>18. CASE DeleteStep
  <2>1. ASSUME NEW policy, NEW todo,
               work' = [work EXCEPT !.pc = "delete", !.policy = policy, !.todo = todo]
        PROVE  work'.pc = "delete"
    BY <1>1, <2>1 DEF Workers
  <2>2. ASSUME work.pc = "delete", NEW todo, work' = [work EXCEPT !.todo = todo]
        PROVE  work'.pc = "delete"
    BY <1>1, <2>2 DEF Workers
  <2>3. work'.pc = "delete" \/ \E err : Return(err)
    BY <1>18, <2>1, <2>2 DEF DeleteStep, ReadPolicy, DeleteMember, RemoveFinalizer
  <2> QED  BY <1>2, <1>4, <2>3 DEF BeforeLoop
<1> QED
  BY <1>7, <1>8, <1>9, <1>10, <1>11, <1>12, <1>13, <1>14, <1>15, <1>16, <1>17, <1>18
  DEF WorkerStep, CreateStep

\* A member leaves the loop for the error list, or with no content, or with
\* one that stands for the array group of the attempt.
LEMMA MemberDone ==
    ASSUME IInv, AInv, WorkerStep, work.pc \in InLoop, work'.pc \in InLoop,
           ~work'.failed, NEW k \in work.todo \ work'.todo
    PROVE  content'[k] = NoContent \/ content'[k].status = work.group
<1>1. /\ work \in Workers /\ content \in [Members -> Contents]
      /\ k \in Members
  BY DEF IInv, WorkerTypeOK, MemberTypeOK, Workers
<1>2. ASSUME NEW m, Done(m, TRUE)
      PROVE  FALSE
  BY <1>1, <1>2 DEF Done, Workers
<1>3. ASSUME NEW m, NEW err, Done(m, err)
      PROVE  k = m
  <2>1. work'.todo = work.todo \ {m}
    BY <1>1, <1>3 DEF Done, Workers
  <2> QED  BY <2>1
<1>4. ASSUME work'.todo = work.todo
      PROVE  FALSE
  BY <1>4
<1>5. CASE CreateSnapshot
  <2>1. /\ content' = [content EXCEPT ![work.cur] = ContentOf(work.group)]
        /\ \E err : Done(work.cur, err)
    BY <1>2, <1>5 DEF CreateSnapshot
  <2>2. k = work.cur
    BY <1>3, <2>1
  <2> QED  BY <1>1, <2>1, <2>2 DEF ContentOf
<1>6. ASSUME NEW m \in Members, ReuseSnapshot(m)
      PROVE  content'[k] = NoContent \/ content'[k].status = work.group
  <2>1. k = m
    BY <1>3, <1>6 DEF ReuseSnapshot
  <2>2. CASE content' = [content EXCEPT ![m].status = work.group]
    BY <1>1, <2>1, <2>2 DEF Contents
  <2>3. CASE content' = content /\ content[m].spec \in {0, work.group}
    <3>1. /\ content[m].spec = 0 => content[m] = NoContent
          /\ content[m].spec <= content[m].status
          /\ content[m].status <= work.group
      BY <1>6 DEF ReuseSnapshot, AInv, ArrayInv, BoundInv, Upto, Answered
    <3>2. content[m].spec = work.group => content[m].status = work.group
      BY <3>1, <1>6, Numbers
    <3> QED  BY <2>1, <2>3, <3>1, <3>2
  <2> QED  BY <1>2, <1>6, <2>2, <2>3 DEF ReuseSnapshot
<1>7. ASSUME NEW m \in Members, CreateContent(m)
      PROVE  FALSE
  <2>1. CASE work' = [work EXCEPT !.pc = "snapshot", !.cur = m]
    BY <1>1, <1>4, <2>1 DEF Workers
  <2> QED  BY <1>2, <1>7, <2>1 DEF CreateContent
<1>8. ASSUME NEW pc, Goto(pc)
      PROVE  FALSE
  BY <1>1, <1>4, <1>8 DEF Goto, Workers
<1>9. CASE StartWait
  BY <1>8, <1>9 DEF StartWait
<1>10. CASE PollReady \/ TimeOut
  BY <1>1, <1>4, <1>10 DEF PollReady, TimeOut, EndWait, Workers
<1>11. CASE SaveStatus \/ SaveAgain
  <2>1. ~\E err : Return(err)
    BY DEF Return, Idle, InLoop
  <2> QED  BY <1>1, <1>4, <1>8, <1>11, <2>1 DEF SaveStatus, SaveAgain, Workers
<1> QED
  BY <1>5, <1>6, <1>7, <1>9, <1>10, <1>11
  DEF WorkerStep, CreateStep, DeleteStep, TakeStep, ReconcileAbsent, ReconcileSettled,
      RefusePending, RefuseDeletion, ReconcileDeletion, ReconcileCreation,
      TakeAndReturn, TakeTo, MarkPending, RejectSelector, FailSelection,
      SelectVolumes, CallDriver, DriverFails, Fail, AddFinalizer, SetGroupID,
      ReadPolicy, DeleteMember, RemoveFinalizer, InLoop

\* An error that is on the list stays there, and a member that is done is not
\* taken up again.
LEMMA FailedStays ==
    ASSUME IInv, WorkerStep, work.pc \in InLoop, work'.pc \in InLoop
    PROVE  work.failed => work'.failed
<1>1. work \in Workers
  BY DEF IInv, WorkerTypeOK
<1>2. ASSUME NEW m, NEW err \in BOOLEAN, Done(m, err)
      PROVE  work.failed => work'.failed
  BY <1>1, <1>2 DEF Done, Workers
<1>3. ASSUME NEW pc, Goto(pc)
      PROVE  work.failed => work'.failed
  BY <1>1, <1>3 DEF Goto, Workers
<1>4. ~\E err : Return(err)
  BY DEF Return, Idle, InLoop
<1>5. CASE CreateSnapshot
  <2>1. \/ \E miss \in {FALSE, "memberlag" \in Disturbances} : Done(work.cur, miss)
        \/ Done(work.cur, TRUE)
    BY <1>5 DEF CreateSnapshot
  <2>2. {FALSE, "memberlag" \in Disturbances} \subseteq BOOLEAN
    OBVIOUS
  <2> QED  BY <1>2, <2>1, <2>2
<1>6. ASSUME NEW m \in Members, CreateContent(m) \/ ReuseSnapshot(m)
      PROVE  work.failed => work'.failed
  <2>1. CASE work' = [work EXCEPT !.pc = "snapshot", !.cur = m]
    BY <1>1, <2>1 DEF Workers
  <2> QED  BY <1>2, <1>6, <2>1 DEF CreateContent, ReuseSnapshot
<1>7. CASE PollReady \/ TimeOut
  BY <1>1, <1>7 DEF PollReady, TimeOut, EndWait, Workers
<1>8. CASE StartWait \/ SaveStatus \/ SaveAgain
  BY <1>1, <1>3, <1>4, <1>8 DEF StartWait, SaveStatus, SaveAgain, Workers
<1> QED
  BY <1>5, <1>6, <1>7, <1>8
  DEF WorkerStep, CreateStep, DeleteStep, TakeStep, ReconcileAbsent, ReconcileSettled,
      RefusePending, RefuseDeletion, ReconcileDeletion, ReconcileCreation,
      TakeAndReturn, TakeTo, MarkPending, RejectSelector, FailSelection,
      SelectVolumes, CallDriver, DriverFails, Fail, AddFinalizer, SetGroupID,
      ReadPolicy, DeleteMember, RemoveFinalizer, InLoop

LEMMA DoneNext ==
    ASSUME IInv, AInv, [Next]_vars
    PROVE  DoneInv'
<1>1. DoneInv /\ work \in Workers /\ work' \in Workers
  BY NextInv DEF AInv, IInv, WorkerTypeOK
<1>2. ASSUME work'.pc \in InLoop, ~work'.failed, NEW k \in work'.picked \ work'.todo
      PROVE  content'[k] = NoContent \/ content'[k].status = work'.group
  <2>1. k \in Members
    BY <1>1, <1>2 DEF Workers
  <2>2. CASE work.pc \notin InLoop
    <3>1. work'.todo = work.todo /\ work'.picked = work.picked /\ work.pc = "setgid"
      BY <1>2, <2>2, LoopEntered
    <3> QED  BY <1>1, <1>2, <3>1 DEF DoneInv, BeforeLoop
  <2>3. CASE work.pc \in InLoop
    <3>1. work'.group = work.group /\ work'.picked = work.picked
      BY <1>2, <2>3, LoopStep
    <3>2. CASE k \notin work.todo /\ ~work.failed
      <4>1. content[k] = NoContent \/ content[k].status = work.group
        BY <1>1, <1>2, <2>3, <3>1, <3>2 DEF DoneInv
      <4>2. content'[k] \in {content[k], NoContent} \/ content'[k].status = work.group
        BY <2>1, ContentStep DEF Moved
      <4> QED  BY <3>1, <4>1, <4>2
    <3>3. CASE WorkerStep
      <4>1. ~work.failed
        BY <1>2, <2>3, <3>3, FailedStays
      <4>2. CASE k \in work.todo
        BY <1>2, <2>3, <3>1, <3>3, <4>2, MemberDone
      <4> QED  BY <3>2, <4>1, <4>2
    <3>4. CASE ~WorkerStep
      <4>1. work' = work
        BY <1>2, <3>4, OthersStep DEF InLoop
      <4> QED  BY <1>2, <3>2, <4>1
    <3> QED  BY <3>3, <3>4
  <2> QED  BY <2>2, <2>3
<1>3. /\ work'.pc \in BeforeLoop => work'.todo = work'.picked
      /\ work'.pc \in {"wait", "save", "resave"} => work'.todo = {}
  BY <1>1, TodoStep
<1> QED  BY <1>2, <1>3 DEF DoneInv

LEMMA AttemptNext ==
    ASSUME IInv, HistoryInv, UnseenInv, AInv, [Next]_vars
    PROVE  AInv'
BY ArrayNext, HeldNext, NamedNext, LoopNext, BoundNext, DoneNext DEF AInv

\* Everything that the proofs below rest on holds in every reachable state.
LEMMA AttemptInvariant == Spec => [](IInv /\ AInv)
<1>1. Init => HistoryInv /\ UnseenInv
  BY QInit DEF QInv
<1>2. IInv /\ HistoryInv /\ UnseenInv /\ [Next]_vars => HistoryInv' /\ UnseenInv'
  BY HistoryNext, UnseenNext
<1> QED
  BY <1>1, <1>2, AttemptInit, AttemptNext, Invariance, PTL DEF Spec

-----------------------------------------------------------------------------
(* The properties.                                                         *)

\* In an attempt without an error every content that is left stands for the
\* array group with which the object becomes Complete: for any number of
\* members, objects of the name, earlier attempts and failures.
THEOREM Flawless == Spec => FlawlessIsOneMoment
<1>1. IInv /\ AInv /\ [Next]_vars =>
        [ BecomesComplete /\ ~work.failed
            => \A m \in vg'.listed :
                  content[m] # NoContent => content[m].status = vg'.gid ]_vars
  <2> SUFFICES ASSUME IInv, AInv, [Next]_vars, BecomesComplete, ~work.failed,
                      NEW m \in vg'.listed, content[m] # NoContent
               PROVE  content[m].status = vg'.gid
    OBVIOUS
  <2>1. vg'.gid # 0
    BY NextInv DEF BecomesComplete, IInv, ObjectInv, Sound
  <2>2. work.pc \in {"save", "resave"} /\ vg' = Outcome
    BY <2>1, StoredStep DEF BecomesComplete, SameButPhase
  <2>3. vg'.gid = work.group /\ vg'.listed = work.picked
    BY <2>2, OutcomeSound
  <2>4. work.todo = {}
    BY <2>2 DEF AInv, DoneInv
  <2> QED  BY <2>2, <2>3, <2>4 DEF AInv, DoneInv, InLoop
<1> QED  BY <1>1, AttemptInvariant, PTL DEF Spec, FlawlessIsOneMoment

\* While an object names its array group, no content is moved to another: not
\* by a retry from an older copy, nor by one left over from another object.
THEOREM MomentKept == Spec => MomentIsKept
<1>1. IInv /\ AInv /\ [Next]_vars =>
        [ vg.gid # 0 => \A m \in Members :
             content'[m].status \in {content[m].status, 0, vg.gid} ]_vars
  <2> SUFFICES ASSUME IInv, AInv, [Next]_vars, vg.gid # 0, NEW m \in Members
               PROVE  content'[m].status \in {content[m].status, 0, vg.gid}
    OBVIOUS
  <2>1. CASE content'[m] \in {content[m], NoContent}
    BY <2>1, Numbers
  <2>2. CASE Moved(m)
    BY <2>2 DEF Moved, AInv, LoopInv, InLoop
  <2> QED  BY <2>1, <2>2, ContentStep
<1> QED  BY <1>1, AttemptInvariant, PTL DEF Spec, MomentIsKept

\* Contents are only ever moved to array groups made later, so that the array
\* snapshots asked for one member may be counted upwards.
THEOREM MoveForward == Spec => ContentsMoveForward
<1>1. IInv /\ AInv /\ [Next]_vars =>
        [ \A m \in Members :
             content'[m] # NoContent => content'[m].status >= content[m].status ]_vars
  <2> SUFFICES ASSUME IInv, AInv, [Next]_vars, NEW m \in Members, content'[m] # NoContent
               PROVE  content'[m].status >= content[m].status
    OBVIOUS
  <2>1. content[m].status \in Nat /\ work.group \in Nat
    BY Numbers
  <2>2. CASE content'[m] = content[m]
    BY <2>1, <2>2
  <2>3. CASE Moved(m)
    <3>1. content'[m].status = work.group /\ content[m].status <= work.group
      BY <2>3 DEF Moved, AInv, BoundInv, Upto, Answered
    <3> QED  BY <2>1, <3>1
  <2> QED  BY <2>2, <2>3, ContentStep
<1> QED  BY <1>1, AttemptInvariant, PTL DEF Spec, ContentsMoveForward
=============================================================================
