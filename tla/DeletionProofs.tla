--------------------------- MODULE DeletionProofs ---------------------------
(***************************************************************************)
(* deleteVg leaves no listed snapshot behind.  The invariant follows its   *)
(* loop: at each place of it, the members it is done with are gone or      *)
(* going.  It needs the snapshot cache to be up to date: a snapshot that   *)
(* the cache does not show is taken for a deleted one.                     *)
(***************************************************************************)
EXTENDS GroupSystemProofs

Gone(m) == snap[m] = "absent" \/ m \in dying

CleanInv ==
    /\ work.pc \in Deleting => mine.deleting
    /\ work.pc = "delete" /\ work.policy = "Delete" =>
         \A m \in mine.listed \ work.todo : Gone(m)

\* Initially no deletion is under way.
LEMMA CleanInit == Init => CleanInv
BY DEF Init, WorkerInit, Idle, CleanInv, Deleting

\* Only the worker's creation path brings a snapshot back.
LEMMA GoneStays ==
    ASSUME IInv, [Next]_vars, work.pc # "snapshot", NEW m \in Members, Gone(m)
    PROVE  Gone(m)'
<1>1. CASE UNCHANGED <<snap, dying>>
  BY <1>1 DEF Gone
<1>2. ASSUME NEW n \in Members, DeleteMember(n)
      PROVE  Gone(m)'
  BY <1>2 DEF DeleteMember, Gone
<1>3. ASSUME NEW n \in Members, MemberStep(n)
      PROVE  Gone(m)'
  BY <1>3
  DEF IInv, MemberTypeOK, MemberStep, SyncSnapshot, BindSnapshot, MakeReady, RemoveSnapshot,
      RemoveContent, RemoveOrphan, DeleteSnapshot, Gone
<1> QED
  BY <1>1, <1>2, <1>3
  DEF Next, WorkerStep, TakeStep, ReconcileAbsent, ReconcileSettled, RefusePending,
      RefuseDeletion, ReconcileDeletion, ReconcileCreation, TakeAndReturn, TakeTo,
      CreateStep, MarkPending, RejectSelector, FailSelection, SelectVolumes,
      CallDriver, DriverFails, Fail, AddFinalizer, SetGroupID, CreateContent,
      ReuseSnapshot, CreateSnapshot, StartWait, PollReady, TimeOut, EndWait,
      SaveStatus, SaveAgain, DeleteStep, ReadPolicy, RemoveFinalizer, WatchStep,
      HandleContentDelete, DropTombstone, StrikeOff, DeleteEmptyGroup, Panic,
      Restart, Crash, EnvironmentStep, memberVars, vars

\* Every step keeps what the deletion knows: the object is being deleted, and
\* what the loop has passed stays gone.
LEMMA CleanNext ==
    ASSUME IInv, CleanInv, [Next]_vars, "memberlag" \notin Disturbances
    PROVE  CleanInv'
<1>1. ASSUME work' = work, copy'["worker"] = copy["worker"]
      PROVE  CleanInv'
  <2>1. mine.listed \subseteq Members
    BY DEF IInv, ObjectInv, mine, Groups, Copies
  <2>2. work.pc = "delete" => \A m \in mine.listed : Gone(m) => Gone(m)'
    BY <2>1, GoneStays
  <2> QED  BY <1>1, <2>2 DEF CleanInv, mine
<1>2. ASSUME work'.pc \notin Deleting
      PROVE  CleanInv'
  BY <1>2 DEF CleanInv, Deleting
<1>3. CASE ~WorkerStep
  BY <1>1, <1>2, <1>3, WorkerAlone DEF Deleting
<1>4. CASE TakeStep
  <2>1. CASE ReconcileDeletion
    <3>1. copy'["worker"] = copy["cache"] /\ cached.deleting
      BY <2>1 DEF ReconcileDeletion, Deletable, TakeTo, Fetch, IInv, ObjectInv, Copies
    <3>2. work'.pc = "policy"
      BY <2>1 DEF ReconcileDeletion, TakeTo, Goto, IInv, WorkerTypeOK, Workers
    <3> QED  BY <3>1, <3>2 DEF CleanInv, mine, cached
  <2>2. CASE ReconcileCreation
    <3>1. work'.pc = "pend"
      BY <2>2 DEF ReconcileCreation, TakeTo, Goto, IInv, WorkerTypeOK, Workers
    <3> QED  BY <1>2, <3>1 DEF Deleting
  <2>3. CASE UNCHANGED <<work, copy>>
    BY <1>1, <2>3
  <2> QED
    BY <1>4, <2>1, <2>2, <2>3
    DEF TakeStep, ReconcileAbsent, ReconcileSettled, RefusePending, RefuseDeletion,
        TakeAndReturn
<1>5. CASE CreateStep
  <2>1. work \in Workers /\ Idle.pc = "idle"
    BY DEF IInv, WorkerTypeOK, Idle
  <2>2. CASE \/ MarkPending \/ RejectSelector \/ FailSelection \/ SelectVolumes
             \/ CallDriver \/ DriverFails \/ Fail
    <3>1. work'.pc \notin Deleting
      BY <2>1, <2>2
      DEF Deleting, MarkPending, RejectSelector, FailSelection, SelectVolumes,
          CallDriver, DriverFails, Fail, Goto, Return, Workers
    <3> QED  BY <1>2, <3>1
  <2>3. CASE AddFinalizer \/ SetGroupID
    <3>1. work'.pc \notin Deleting
      BY <2>1, <2>3
      DEF Deleting, AddFinalizer, SetGroupID, UpdateOrReturn, Goto, Return, Workers
    <3> QED  BY <1>2, <3>1
  <2>4. CASE \/ \E m \in Members : CreateContent(m) \/ ReuseSnapshot(m)
             \/ CreateSnapshot
    <3>1. ASSUME NEW m \in Members, CreateContent(m) PROVE work'.pc \notin Deleting
      BY <2>1, <3>1 DEF Deleting, CreateContent, Done, Workers
    <3>2. ASSUME NEW m \in Members, ReuseSnapshot(m) PROVE work'.pc \notin Deleting
      BY <2>1, <3>2 DEF Deleting, ReuseSnapshot, Done, Workers
    <3>3. CreateSnapshot => work'.pc \notin Deleting
      BY <2>1 DEF Deleting, CreateSnapshot, Done, Workers
    <3> QED  BY <1>2, <2>4, <3>1, <3>2, <3>3
  <2>5. CASE StartWait \/ PollReady \/ TimeOut \/ SaveStatus \/ SaveAgain
    <3>1. work'.pc \notin Deleting
      BY <2>1, <2>5
      DEF Deleting, StartWait, PollReady, TimeOut, EndWait, SaveStatus, SaveAgain,
          Goto, Return, Workers
    <3> QED  BY <1>2, <3>1
  <2> QED  BY <1>5, <2>2, <2>3, <2>4, <2>5 DEF CreateStep
<1>6. CASE ReadPolicy
  <2>1. CASE Return(TRUE)
    BY <1>2, <2>1 DEF Return, Idle, Deleting
  <2>2. CASE /\ UNCHANGED copy
             /\ \E policy \in {"Delete", "Retain"} :
                  work' = [work EXCEPT !.pc = "delete", !.policy = policy,
                             !.todo = IF policy = "Delete" THEN mine.listed ELSE {}]
    <3>1. mine.deleting
      BY <1>6 DEF ReadPolicy, CleanInv, Deleting
    <3>2. work'.policy = "Delete" => work'.todo = mine.listed
      BY <2>2 DEF IInv, WorkerTypeOK, Workers
    <3> QED  BY <2>2, <3>1, <3>2 DEF CleanInv, mine
  <2> QED  BY <1>6, <2>1, <2>2 DEF ReadPolicy
<1>7. ASSUME NEW m \in Members, DeleteMember(m)
      PROVE  CleanInv'
  <2>1. CASE Return(TRUE)
    BY <1>2, <2>1 DEF Return, Idle, Deleting
  <2>2. CASE /\ UNCHANGED copy
             /\ Absent(m) \/ m \in Present
             /\ dying' = IF Absent(m) THEN dying ELSE dying \cup {m}
             /\ work' = [work EXCEPT !.todo = @ \ {m}]
    <3>1. /\ work.pc = "delete" /\ work'.policy = work.policy
          /\ work'.todo = work.todo \ {m}
      BY <1>7, <2>2 DEF DeleteMember, IInv, WorkerTypeOK, Workers
    <3>2. Gone(m)'
      BY <1>7, <2>2 DEF DeleteMember, Absent, Seen, Gone
    <3>3. mine.listed \subseteq Members
      BY DEF IInv, ObjectInv, mine, Groups, Copies
    <3>4. \A n \in mine.listed : Gone(n) => Gone(n)'
      BY <3>1, <3>3, GoneStays
    <3> QED  BY <2>2, <3>1, <3>2, <3>4 DEF CleanInv, mine, Deleting
  <2> QED  BY <1>7, <2>1, <2>2 DEF DeleteMember
<1>8. CASE RemoveFinalizer
  <2>1. work' = Idle
    BY <1>8 DEF RemoveFinalizer, Return
  <2> QED  BY <1>2, <2>1 DEF Idle, Deleting
<1>9. CASE DeleteStep
  BY <1>6, <1>7, <1>8, <1>9 DEF DeleteStep
<1> QED  BY <1>3, <1>4, <1>5, <1>9 DEF WorkerStep

\* A Complete group leaves the API server only by deleteVg, and under policy
\* Delete no snapshot on its list is then left undeleted: for any number of
\* members, through failed calls, lost replies, edits and crashes, provided
\* that the snapshot cache does not lag.
THEOREM CleanDeletion ==
    ASSUME "memberlag" \notin Disturbances
    PROVE  Spec => DeletionCleansUp
<1>1. Spec => []CleanInv
  <2>1. IInv /\ CleanInv /\ [Next]_vars => CleanInv'
    BY CleanNext
  <2> QED  BY <2>1, CleanInit, Invariance, PTL DEF Spec
<1>2. IInv /\ CleanInv /\ [Next]_vars =>
        [ vg.phase = "Complete" /\ vg'.uid # vg.uid
            => /\ work.pc = "delete"
               /\ vg.deleting
               /\ work.policy = "Delete" =>
                    \A m \in vg.listed : snap[m] = "absent" \/ m \in dying ]_vars
  <2> SUFFICES ASSUME IInv, CleanInv, [Next]_vars,
                      vg.phase = "Complete", vg'.uid # vg.uid
               PROVE  /\ work.pc = "delete"
                      /\ vg.deleting
                      /\ work.policy = "Delete" =>
                           \A m \in vg.listed : snap[m] = "absent" \/ m \in dying
    OBVIOUS
  <2>1. vg # NoGroup /\ vg.finalizer
    BY NoGroupFields DEF IInv, ObjectInv, Sound
  <2>2. work.pc = "delete" /\ work.todo = {} /\ vg = mine
    BY <2>1, NextVgStep DEF VgStep
  <2> QED  BY <2>2 DEF CleanInv, Deleting, Gone
<1> QED  BY <1>1, <1>2, Invariance, PTL DEF Spec, DeletionCleansUp
=============================================================================
