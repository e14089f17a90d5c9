-------------------------- MODULE MemberSyncProofs --------------------------
(***************************************************************************)
(* The safety of one member, for every number of contents, groups and      *)
(* failures, all class names and time-outs, and every width of the timer.  *)
(***************************************************************************)
EXTENDS MemberSync, FiniteSetTheorems, TLAPS

\* The two sides of OrphansAreTold.
Lost == Orphans \ InHands

\* What makes OrphansAreTold inductive: no error is open while the member is
\* being made, and what is not there names no content.
PlaceInv ==
    /\ work.pc \in {"lookup", "content", "snapshot", "check", "list"} => ~work.err
    /\ ~snap.here => snap.names = 0

SyncInv == TypeOK /\ PlaceInv

-----------------------------------------------------------------------------
(* Types.                                                                  *)

LEMMA NothingTyped ==
    NoSnapshot \in Snapshots /\ ~NoSnapshot.here /\ NoSnapshot.names = 0
    /\ NoContent \in Contents
BY SyncAssumption DEF NoSnapshot, Snapshots, NoContent, Contents

LEMMA SyncInit == Init => SyncInv
<1> SUFFICES ASSUME Init PROVE SyncInv
  OBVIOUS
<1> USE SyncAssumption, NothingTyped
<1>1. work \in Workers /\ work.pc = "idle"
  BY DEF Init, Workers, NoSnapshot, Snapshots
<1>2. excuses \in 0..MaxContents /\ faults \in 0..MaxFaults
  BY DEF Init
<1>3. snap \in Snapshots /\ contents \in [Ids -> Contents]
  BY DEF Init
<1>4. shown \in [snap : Snapshots, contents : SUBSET Ids] /\ alive \subseteq Ids
  BY DEF Init
<1>5. watching \in BOOLEAN
  BY DEF Init
<1> QED
  BY <1>1, <1>2, <1>3, <1>4, <1>5 DEF Init, SyncInv, TypeOK, PlaceInv

LEMMA ZeroTyped ==
    0 \in 0..Half /\ 0 \in 0..MaxContents /\ 0 \in 0..MaxWant
BY SyncAssumption

LEMMA CountersTyped ==
    /\ SyncInv /\ Disturb => faults' \in 0..MaxFaults
    /\ SyncInv /\ Excuse => excuses' \in 0..MaxContents
BY SyncAssumption DEF SyncInv, TypeOK, Disturb, Excuse

\* The end of an attempt, and the death of the process, leave an idle worker.
LEMMA EndTyped ==
    ASSUME SyncInv, NEW e \in BOOLEAN, End(e)
    PROVE  work' \in Workers /\ work'.pc = "idle"
<1>1. work \in Workers
  BY DEF SyncInv, TypeOK
<1>2. 0 \in Timeouts \cup {0}
  OBVIOUS
<1>3. work'.pc = "idle"
  BY <1>1 DEF End, Workers
<1>4. work' \in Workers
  BY <1>1, <1>2, ZeroTyped, NothingTyped DEF End, Workers
<1> QED
  BY <1>3, <1>4

LEMMA PickedTyped ==
    /\ \A c \in 0..MaxContents, m \in BOOLEAN :
          SyncInv /\ Picked(c, m) => work' \in Workers /\ work'.pc = "sync"
    /\ SyncInv /\ Failed => work' \in Workers /\ work'.pc = "sync"
<1>1. SyncInv => work \in Workers
  BY DEF SyncInv, TypeOK
<1>2. ASSUME SyncInv, NEW c \in 0..MaxContents, NEW m \in BOOLEAN, Picked(c, m)
      PROVE  work' \in Workers /\ work'.pc = "sync"
  BY <1>1, <1>2 DEF Picked, Workers
<1>3. ASSUME SyncInv, Failed
      PROVE  work' \in Workers /\ work'.pc = "sync"
  BY <1>1, <1>3, ZeroTyped DEF Failed, Workers
<1> QED
  BY <1>2, <1>3

LEMMA DieKeeps ==
    ASSUME SyncInv, Die, faults' \in 0..MaxFaults
    PROVE  SyncInv'
<1>1. work' \in Workers /\ work'.pc = "idle"
  BY EndTyped DEF Die
<1>2. excuses' \in 0..MaxContents
  BY CountersTyped DEF Die
<1> QED
  BY <1>1, <1>2 DEF Die, SyncInv, TypeOK, PlaceInv

\* The steps of createVolumeSnapshot and of the update of the content.
LEMMA MakingKeeps ==
    ASSUME SyncInv,
           \/ Begin \/ Lookup \/ CreateContent \/ CreateSnapshot
           \/ CheckSnapshot \/ ListContents \/ SyncStatus
    PROVE  SyncInv'
<1> USE SyncAssumption DEF SyncInv, TypeOK, PlaceInv, world, Step
<1>1. CASE Begin
  <2>1. work' \in Workers /\ work'.pc = "lookup" /\ ~work'.err
    <3>1. work \in Workers /\ (work.want < MaxWant => work.want + 1 \in 0..MaxWant)
      BY DEF Workers
    <3>2. CASE work' = [work EXCEPT !.pc = "lookup", !.err = FALSE]
      BY <3>1, <3>2 DEF Workers
    <3>3. ASSUME work.want < MaxWant, NEW c \in Classes,
                 work' = [work EXCEPT !.pc = "lookup", !.err = FALSE,
                                      !.want = @ + 1, !.class = c]
          PROVE  work' \in Workers /\ work'.pc = "lookup" /\ ~work'.err
      <4>1. work'.pc = "lookup" /\ ~work'.err
        BY <3>1, <3>3 DEF Workers
      <4>2. work' \in Workers
        BY <3>1, <3>3 DEF Workers
      <4> QED
        BY <4>1, <4>2
    <3> QED
      BY <1>1, <3>2, <3>3 DEF Begin
  <2> QED
    BY <1>1, <2>1 DEF Begin
<1>2. CASE Lookup
  BY <1>2 DEF Lookup, Workers
<1>3. CASE CreateContent
  <2>1. /\ work' \in Workers
        /\ work'.pc = "sync" \/ (work'.pc = "snapshot" /\ ~work'.err)
    <3>1. Ids \subseteq 0..MaxContents
      BY DEF Ids
    <3>2. ASSUME NEW c \in Ids,
                 work' = [work EXCEPT !.pc = "snapshot", !.pick = c]
          PROVE  work' \in Workers /\ work'.pc = "snapshot" /\ ~work'.err
      <4>1. work' \in Workers /\ work'.pc = "snapshot"
        BY <3>1, <3>2 DEF Workers
      <4>2. ~work.err
        BY <1>3 DEF CreateContent
      <4> QED
        BY <3>2, <4>1, <4>2 DEF Workers
    <3>3. \/ Failed
          \/ \E c \in Ids : work' = [work EXCEPT !.pc = "snapshot", !.pick = c]
      BY <1>3 DEF CreateContent
    <3>4. CASE Failed
      BY <3>4, PickedTyped
    <3> QED
      BY <3>2, <3>3, <3>4
  <2>2. contents' \in [Ids -> Contents] /\ alive' \subseteq Ids
    <3>1. [spec |-> work.want, status |-> 0, class |-> work.class] \in Contents
      BY ZeroTyped DEF Workers, Contents
    <3>2. ASSUME NEW c \in Ids, NewContent(c)
          PROVE  contents' \in [Ids -> Contents] /\ alive' \subseteq Ids
      BY <3>1, <3>2 DEF NewContent
    <3> QED
      BY <1>3, <3>2 DEF CreateContent
  <2>3. faults' \in 0..MaxFaults
    BY <1>3, CountersTyped DEF CreateContent
  <2> QED
    BY <1>3, <2>1, <2>2, <2>3 DEF CreateContent
<1>4. CASE CreateSnapshot
  <2>1. work' \in Workers /\ work'.pc = "sync"
    BY <1>4, PickedTyped DEF CreateSnapshot, Workers
  <2>2. snap' \in Snapshots /\ (~snap'.here => snap'.names = 0)
    <3>1. [here |-> TRUE, names |-> work.pick, class |-> work.class,
           status |-> "nil"] \in Snapshots
      BY DEF Workers, Snapshots
    <3> QED
      <4>1. \/ UNCHANGED snap
            \/ snap' = [here |-> TRUE, names |-> work.pick, class |-> work.class,
                        status |-> "nil"]
        BY <1>4 DEF CreateSnapshot
      <4> QED
        <5>1. CASE UNCHANGED snap
          BY <5>1
        <5>2. CASE snap' = [here |-> TRUE, names |-> work.pick,
                            class |-> work.class, status |-> "nil"]
          <6>1. snap'.here
            BY <5>2
          <6> QED
            BY <3>1, <5>2, <6>1
        <5> QED
          BY <4>1, <5>1, <5>2
  <2>3. faults' \in 0..MaxFaults
    BY <1>4, CountersTyped DEF CreateSnapshot
  <2> QED
    BY <1>4, <2>1, <2>2, <2>3 DEF CreateSnapshot
<1>5. CASE CheckSnapshot
  <2>1. /\ work' \in Workers
        /\ work'.pc = "sync"
           \/ (work'.pc = "list" /\ work'.found.here /\ ~work'.err)
    <3>1. CASE Failed
      BY <3>1, PickedTyped
    <3>2. CASE Goto("list")
      <4>1. work.found.here /\ ~work.err
        BY <1>5 DEF CheckSnapshot
      <4>2. work' \in Workers /\ work'.pc = "list"
        BY <3>2 DEF Goto, Workers
      <4>3. work'.found.here /\ ~work'.err
        BY <3>2, <4>1 DEF Goto, Workers
      <4> QED
        BY <4>2, <4>3
    <3> QED
      BY <1>5, <3>1, <3>2 DEF CheckSnapshot
  <2> QED
    BY <1>5, <2>1 DEF CheckSnapshot
<1>6. CASE ListContents
  <2>1. work' \in Workers /\ work'.pc = "sync"
    <3>1. CASE Picked(0, FALSE)
      BY <3>1, PickedTyped, ZeroTyped
    <3>2. CASE \E c \in shown.contents : Picked(c, contents[c].spec # work.want)
      <4>1. Ids \subseteq 0..MaxContents
        BY DEF Ids
      <4> QED
        BY <3>2, <4>1, PickedTyped
    <3>3. CASE Failed
      BY <3>3, PickedTyped
    <3> QED
      BY <1>6, <3>1, <3>2, <3>3 DEF ListContents
  <2> QED
    BY <1>6, <2>1 DEF ListContents
<1>7. CASE SyncStatus
  <2>1. \/ Synced(TRUE) \/ Synced(FALSE)
    BY <1>7 DEF SyncStatus
  <2>2. work' \in Workers /\ work'.pc = "wait"
    <3>1. work \in Workers /\ Timeouts \subseteq Timeouts \cup {0}
      OBVIOUS
    <3>2. ASSUME NEW e \in BOOLEAN, NEW t \in Timeouts,
                 work' = [work EXCEPT !.pc = "wait", !.err = @ \/ e, !.asked = t]
          PROVE  work' \in Workers /\ work'.pc = "wait"
      BY <3>1, <3>2 DEF Workers
    <3> QED
      BY <2>1, <3>2 DEF Synced
  <2>3. contents' \in [Ids -> Contents]
    <3>1. CASE UNCHANGED contents
      BY <3>1
    <3>2. CASE contents' = [contents EXCEPT ![work.pick].status = work.want]
      <4>1. contents[work.pick] \in Contents \/ work.pick \notin Ids
        OBVIOUS
      <4>2. work.want \in 0..MaxWant
        BY DEF Workers
      <4>3. contents' \in [Ids -> Contents]
        BY <3>2, <4>1, <4>2 DEF Contents
      <4> QED
        BY <4>3
    <3> QED
      BY <1>7, <3>1, <3>2 DEF SyncStatus
  <2>4. faults' \in 0..MaxFaults
    BY <1>7, CountersTyped DEF SyncStatus
  <2> QED
    BY <1>7, <2>2, <2>3, <2>4 DEF SyncStatus
<1> QED
  BY <1>1, <1>2, <1>3, <1>4, <1>5, <1>6, <1>7

\* The wait.
LEMMA FinishKeeps == ASSUME SyncInv, Finish PROVE SyncInv'
<1>1. work' \in Workers /\ work'.pc = "idle"
  BY EndTyped DEF Finish, SyncInv, TypeOK, Workers
<1>2. excuses' \in 0..MaxContents
  BY CountersTyped DEF Finish, SyncInv, TypeOK
<1> QED
  BY <1>1, <1>2 DEF Finish, world, SyncInv, TypeOK, PlaceInv

LEMMA WaitKeeps == ASSUME SyncInv, Tick \/ PollReady \/ TimeOut PROVE SyncInv'
<1>1. CASE Tick
  <2>1. work' \in Workers /\ work'.pc = "wait"
    BY <1>1, SyncAssumption DEF Tick, SyncInv, TypeOK, Workers
  <2> QED
    BY <1>1, <2>1 DEF Tick, world, Step, SyncInv, TypeOK, PlaceInv
<1> QED
  BY <1>1, FinishKeeps DEF PollReady, TimeOut

\* The caches, the external snapshotter and the user.
LEMMA OutsideKeeps ==
    ASSUME SyncInv,
           \/ CacheStep \/ FillStatus \/ DeleteSnapshot \/ TakeSnapshot
           \/ \E c \in Ids : DeleteContent(c)
    PROVE  SyncInv'
<1> USE DEF SyncInv, TypeOK, PlaceInv, Outside
<1>1. CASE CacheStep
  BY <1>1 DEF CacheStep, ShowSnapshot, ShowContents
<1>2. CASE FillStatus
  <2>1. snap' \in Snapshots /\ snap'.here
    BY <1>2 DEF FillStatus, Snapshots
  <2> QED
    BY <1>2, <2>1 DEF FillStatus
<1>3. CASE DeleteSnapshot
  BY <1>3, NothingTyped, CountersTyped DEF DeleteSnapshot
<1>4. CASE TakeSnapshot
  <2>1. snap' \in Snapshots /\ snap'.here
    BY <1>4, NothingTyped DEF TakeSnapshot, Snapshots
  <2> QED
    BY <1>4, <2>1, CountersTyped DEF TakeSnapshot
<1>5. CASE \E c \in Ids : DeleteContent(c)
  BY <1>5, CountersTyped DEF DeleteContent
<1> QED
  BY <1>1, <1>2, <1>3, <1>4, <1>5

LEMMA SyncNext == SyncInv /\ [Next]_vars => SyncInv'
<1> SUFFICES ASSUME SyncInv, [Next]_vars PROVE SyncInv'
  OBVIOUS
<1>1. CASE WorkerStep
  BY <1>1, MakingKeeps, WaitKeeps, DieKeeps DEF WorkerStep, Panic, SyncInv, TypeOK
<1>2. CASE HandleSnapshot
  BY <1>2, DieKeeps DEF HandleSnapshot, SyncInv, TypeOK
<1>3. CASE Crash
  BY <1>3, DieKeeps, CountersTyped DEF Crash
<1>4. CASE UNCHANGED vars
  BY <1>4 DEF vars, world, SyncInv, TypeOK, PlaceInv
<1> QED
  BY <1>1, <1>2, <1>3, <1>4, OutsideKeeps DEF Next

\* Type correctness of the member, with the guard that only a snapshot that
\* was found is checked: for every value of the constants.
THEOREM SyncTyped == Spec => []TypeOK
<1>1. SyncInv => TypeOK
  BY DEF SyncInv
<1> QED
  BY <1>1, SyncInit, SyncNext, PTL DEF Spec

-----------------------------------------------------------------------------
(* No content is lost sight of.                                            *)

\* Sets of contents are finite, and no larger than the bound of the excuses.
LEMMA IdsCounted ==
    ASSUME NEW S, S \subseteq Ids
    PROVE  IsFiniteSet(S) /\ Cardinality(S) \in 0..MaxContents
<1>1. IsFiniteSet(Ids) /\ Cardinality(Ids) = MaxContents
  BY SyncAssumption, FS_Interval DEF Ids
<1>2. IsFiniteSet(S) /\ Cardinality(S) <= Cardinality(Ids)
  BY <1>1, FS_Subset
<1>3. Cardinality(S) \in Nat
  BY <1>2, FS_CardinalityType
<1> QED
  BY <1>1, <1>2, <1>3, SyncAssumption

\* One more content makes one more at most.
LEMMA OneMore ==
    ASSUME NEW S, S \subseteq Ids, NEW T, T \subseteq Ids, NEW x, T \subseteq S \cup {x}
    PROVE  Cardinality(T) <= Cardinality(S) + 1
<1>1. IsFiniteSet(S) /\ Cardinality(S) \in Nat
  BY IdsCounted
<1>2. /\ IsFiniteSet(S \cup {x})
      /\ Cardinality(S \cup {x}) \in {Cardinality(S), Cardinality(S) + 1}
  BY <1>1, FS_AddElement
<1>3. Cardinality(T) <= Cardinality(S \cup {x})
  BY <1>2, FS_Subset
<1>4. Cardinality(T) \in Nat
  BY IdsCounted
<1> QED
  BY <1>1, <1>2, <1>3, <1>4

LEMMA NoMore ==
    ASSUME NEW S, S \subseteq Ids, NEW T, T \subseteq S
    PROVE  Cardinality(T) <= Cardinality(S)
BY IdsCounted, FS_Subset

LEMMA LostCounted ==
    /\ SyncInv => Lost \subseteq Ids /\ Cardinality(Lost) \in 0..MaxContents
    /\ SyncInv' => Lost' \subseteq Ids /\ Cardinality(Lost') \in 0..MaxContents
<1>1. SyncInv => Lost \subseteq Ids
  BY DEF Lost, Orphans, SyncInv, TypeOK
<1>2. SyncInv' => Lost' \subseteq Ids
  BY DEF Lost, Orphans, SyncInv, TypeOK
<1> QED
  BY <1>1, <1>2, IdsCounted

\* The three ways in which a step may keep the count: nothing more is lost
\* and no error is taken back; one content is lost for a new error or excuse;
\* an error is handed over as an excuse.
LEMMA NothingLost ==
    ASSUME SyncInv, SyncInv', OrphansAreTold,
           Lost' \subseteq Lost, excuses' = excuses, ToTell <= ToTell'
    PROVE  OrphansAreTold'
<1>1. Cardinality(Lost') <= Cardinality(Lost)
  BY LostCounted, NoMore
<1>2. /\ Cardinality(Lost') \in Nat /\ Cardinality(Lost) \in Nat
      /\ excuses \in Nat /\ ToTell \in {0, 1} /\ ToTell' \in {0, 1}
  BY LostCounted, IdsCounted DEF SyncInv, TypeOK, ToTell, Lost
<1> QED
  BY <1>1, <1>2 DEF OrphansAreTold, Lost

LEMMA LostAndTold ==
    ASSUME SyncInv, SyncInv', OrphansAreTold, NEW x, Lost' \subseteq Lost \cup {x},
           excuses' = excuses, ToTell = 0, ToTell' = 1
    PROVE  OrphansAreTold'
<1>1. Cardinality(Lost') <= Cardinality(Lost) + 1
  BY LostCounted, OneMore
<1>2. /\ Cardinality(Lost') \in Nat /\ Cardinality(Lost) \in Nat
      /\ excuses \in Nat
  BY LostCounted DEF SyncInv, TypeOK
<1> QED
  BY <1>1, <1>2 DEF OrphansAreTold, Lost

LEMMA LostAndExcused ==
    ASSUME SyncInv, SyncInv', OrphansAreTold, NEW x, Lost' \subseteq Lost \cup {x},
           Excuse, ToTell <= ToTell'
    PROVE  OrphansAreTold'
<1>1. Cardinality(Lost') <= Cardinality(Lost) + 1
  BY LostCounted, OneMore
<1>2. /\ Cardinality(Lost') \in 0..MaxContents /\ Cardinality(Lost) \in Nat
      /\ excuses \in 0..MaxContents /\ ToTell \in {0, 1} /\ ToTell' \in {0, 1}
  BY LostCounted DEF SyncInv, TypeOK, ToTell
<1> QED
  BY <1>1, <1>2, SyncAssumption DEF OrphansAreTold, Lost, Excuse

LEMMA HandedOver ==
    ASSUME SyncInv, SyncInv', OrphansAreTold, Lost' \subseteq Lost, Excuse
    PROVE  OrphansAreTold'
<1>1. Cardinality(Lost') <= Cardinality(Lost)
  BY LostCounted, NoMore
<1>2. /\ Cardinality(Lost') \in 0..MaxContents /\ Cardinality(Lost) \in Nat
      /\ excuses \in 0..MaxContents /\ ToTell \in {0, 1} /\ ToTell' \in {0, 1}
  BY LostCounted DEF SyncInv, TypeOK, ToTell
<1> QED
  BY <1>1, <1>2, SyncAssumption DEF OrphansAreTold, Lost, Excuse

LEMMA DieTells ==
    ASSUME SyncInv, SyncInv', OrphansAreTold, Die PROVE OrphansAreTold'
<1>1. /\ Orphans' = Orphans /\ InHands' = {} /\ Excuse
  BY EndTyped DEF Die, Orphans, InHands
<1>2. CASE work.pc = "snapshot"
  <2>1. ToTell = 0 /\ ToTell' = 0
    BY <1>2, EndTyped DEF Die, SyncInv, PlaceInv, ToTell
  <2>2. Lost' \subseteq Lost \cup {work.pick}
    BY <1>1, <1>2 DEF Lost, InHands
  <2> QED
    BY <1>1, <2>1, <2>2, LostAndExcused
<1>3. CASE work.pc # "snapshot"
  <2>1. Lost' \subseteq Lost
    BY <1>1, <1>3 DEF Lost, InHands
  <2> QED
    BY <1>1, <2>1, HandedOver
<1> QED
  BY <1>2, <1>3

\* The steps that create, where a content can be lost.
LEMMA CreateTells ==
    ASSUME SyncInv, SyncInv', OrphansAreTold, CreateContent \/ CreateSnapshot
    PROVE  OrphansAreTold'
<1>1. work \in Workers /\ ~work.err /\ ToTell = 0 /\ excuses' = excuses
  BY DEF SyncInv, TypeOK, PlaceInv, CreateContent, CreateSnapshot, Step, ToTell
<1>2. Failed => InHands' = {} /\ ToTell' = 1
  BY <1>1 DEF Failed, InHands, ToTell, Workers
<1>3. CASE CreateContent
  <2>1. InHands = {} /\ snap' = snap
    BY <1>3 DEF CreateContent, InHands
  <2>2. CASE Failed
    <3>1. \E x : Lost' \subseteq Lost \cup {x}
      <4>1. alive' = alive \/ \E c \in Ids : alive' = alive \cup {c}
        BY <1>3 DEF CreateContent, NewContent
      <4> QED
        BY <4>1, <2>1, <2>2, <1>2 DEF Lost, Orphans
    <3> QED
      BY <3>1, <2>2, <1>1, <1>2, LostAndTold
  <2>3. CASE \E c \in Ids : /\ NewContent(c)
                            /\ work' = [work EXCEPT !.pc = "snapshot", !.pick = c]
    <3>1. PICK c \in Ids :
             NewContent(c) /\ work' = [work EXCEPT !.pc = "snapshot", !.pick = c]
      BY <2>3
    <3>2. InHands' = {c}
      BY <3>1, <1>1 DEF InHands, Workers
    <3>3. Lost' \subseteq Lost
      BY <3>1, <3>2, <2>1 DEF Lost, Orphans, NewContent
    <3>4. ToTell' \in {0, 1}
      BY DEF ToTell
    <3> QED
      BY <3>3, <3>4, <1>1, NothingLost
  <2> QED
    BY <1>3, <2>2, <2>3 DEF CreateContent
<1>4. CASE CreateSnapshot
  <2>1. InHands = {work.pick} /\ alive' = alive
    BY <1>4 DEF CreateSnapshot, InHands
  <2>2. Orphans' \subseteq Orphans
    <3>1. 0 \notin alive
      BY DEF SyncInv, TypeOK, Ids
    <3>2. CASE snap' = snap
      BY <3>2, <2>1 DEF Orphans
    <3>3. CASE ~snap.here
      BY <3>1, <3>3, <2>1 DEF Orphans, SyncInv, PlaceInv
    <3> QED
      BY <1>4, <3>2, <3>3 DEF CreateSnapshot
  <2>3. CASE Failed
    <3>1. Lost' \subseteq Lost \cup {work.pick}
      BY <2>1, <2>2, <2>3, <1>2 DEF Lost
    <3>2. ToTell' = 1
      BY <2>3, <1>2
    <3> QED
      BY <3>1, <3>2, <1>1, LostAndTold
  <2>4. CASE /\ Picked(work.pick, FALSE)
             /\ snap' = [here |-> TRUE, names |-> work.pick, class |-> work.class,
                         status |-> "nil"]
    <3>1. InHands' = {} /\ ToTell' = 0
      BY <2>4, <1>1 DEF Picked, InHands, ToTell, Workers
    <3>2. Lost' \subseteq Lost
      <4>1. snap'.names = work.pick
        BY <2>4
      <4> QED
        BY <3>1, <4>1, <2>1, <2>2 DEF Lost, Orphans
    <3> QED
      BY <3>1, <3>2, <1>1, NothingLost
  <2>5. \/ Failed
        \/ /\ Picked(work.pick, FALSE)
           /\ snap' = [here |-> TRUE, names |-> work.pick, class |-> work.class,
                       status |-> "nil"]
    BY <1>4 DEF CreateSnapshot
  <2> QED
    BY <2>3, <2>4, <2>5
<1> QED
  BY <1>3, <1>4

\* The other steps neither lose a content nor take an error back, but for the
\* end of an attempt, which tells of it.
LEMMA WorkerTells ==
    ASSUME SyncInv, SyncInv', OrphansAreTold,
           \/ Begin \/ Lookup \/ CheckSnapshot \/ ListContents \/ SyncStatus \/ Tick
    PROVE  OrphansAreTold'
<1>1. /\ Orphans' = Orphans /\ InHands = {} /\ excuses' = excuses
  BY DEF Begin, Lookup, CheckSnapshot, ListContents, SyncStatus, Tick, Step, world,
         Orphans, InHands
<1>2. work \in Workers
  BY DEF SyncInv, TypeOK
<1>3. Lost' \subseteq Lost
  BY <1>1 DEF Lost
<1>4. ToTell <= ToTell'
  <2>1. ToTell \in {0, 1} /\ ToTell' \in {0, 1}
    BY DEF ToTell
  <2>2. CASE Begin \/ Lookup \/ CheckSnapshot \/ ListContents
    <3>1. ToTell = 0
      BY <2>2 DEF Begin, Lookup, CheckSnapshot, ListContents, SyncInv, PlaceInv, ToTell
    <3> QED
      BY <2>1, <3>1
  <2>3. CASE SyncStatus
    <3>1. work'.pc = "wait" /\ (work.err => work'.err)
      BY <1>2, <2>3 DEF SyncStatus, Synced, Workers
    <3> QED
      BY <2>1, <3>1 DEF ToTell
  <2>4. CASE Tick
    <3>1. work'.pc = "wait" /\ (work.err => work'.err)
      BY <1>2, <2>4 DEF Tick, Workers
    <3> QED
      BY <2>1, <3>1 DEF ToTell
  <2> QED
    BY <2>2, <2>3, <2>4
<1> QED
  BY <1>1, <1>3, <1>4, NothingLost

LEMMA FinishTells ==
    ASSUME SyncInv, SyncInv', OrphansAreTold, work.pc = "wait", Finish
    PROVE  OrphansAreTold'
<1>1. Lost' \subseteq Lost
  <2>1. Orphans' = Orphans /\ InHands = {} /\ InHands' = {}
    BY EndTyped DEF Finish, world, Orphans, InHands, SyncInv, TypeOK, Workers
  <2> QED
    BY <2>1 DEF Lost
<1>2. CASE work.err
  BY <1>1, <1>2, HandedOver DEF Finish
<1>3. CASE ~work.err
  <2>1. ToTell = 0 /\ ToTell' \in {0, 1}
    BY <1>3 DEF ToTell
  <2> QED
    BY <1>1, <1>3, <2>1, NothingLost DEF Finish
<1> QED
  BY <1>2, <1>3

LEMMA OutsideTells ==
    ASSUME SyncInv, SyncInv', OrphansAreTold,
           \/ CacheStep \/ FillStatus \/ DeleteSnapshot \/ TakeSnapshot
           \/ \E c \in Ids : DeleteContent(c)
    PROVE  OrphansAreTold'
<1>1. InHands' = InHands /\ ToTell' = ToTell /\ ToTell \in {0, 1}
  BY DEF CacheStep, ShowSnapshot, ShowContents, FillStatus, DeleteSnapshot,
         TakeSnapshot, DeleteContent, Outside, InHands, ToTell
<1>2. CASE DeleteSnapshot
  <2>1. Lost' \subseteq Lost \cup {snap.names} /\ Excuse
    BY <1>1, <1>2 DEF DeleteSnapshot, Lost, Orphans
  <2> QED
    BY <1>1, <2>1, LostAndExcused
<1>3. CASE ~DeleteSnapshot
  <2>1. Orphans' \subseteq Orphans
    <3>1. CASE FillStatus
      BY <3>1 DEF FillStatus, Orphans, SyncInv, TypeOK, Snapshots
    <3>2. CASE TakeSnapshot
      BY <3>2, NothingTyped
         DEF TakeSnapshot, Orphans, SyncInv, PlaceInv, TypeOK, Snapshots
    <3>3. CASE CacheStep
      BY <3>3 DEF CacheStep, ShowSnapshot, ShowContents, Orphans
    <3>4. CASE \E c \in Ids : DeleteContent(c)
      BY <3>4 DEF DeleteContent, Orphans
    <3> QED
      BY <1>3, <3>1, <3>2, <3>3, <3>4
  <2>2. excuses' = excuses
    BY <1>3 DEF CacheStep, ShowSnapshot, ShowContents, FillStatus, TakeSnapshot,
                DeleteContent
  <2> QED
    BY <1>1, <2>1, <2>2, NothingLost DEF Lost
<1> QED
  BY <1>2, <1>3

\* No content is lost sight of, whatever fails and in whatever order.
THEOREM OrphansTold == Spec => []OrphansAreTold
<1>1. Init => OrphansAreTold
  <2> SUFFICES ASSUME Init PROVE OrphansAreTold
    OBVIOUS
  <2>1. Orphans \ InHands = {} /\ ToTell = 0
    BY DEF Init, Orphans, InHands, ToTell
  <2> QED
    BY <2>1, FS_EmptySet DEF Init, OrphansAreTold
<1>2. SyncInv /\ SyncInv' /\ OrphansAreTold /\ [Next]_vars => OrphansAreTold'
  <2> SUFFICES ASSUME SyncInv, SyncInv', OrphansAreTold, [Next]_vars
               PROVE  OrphansAreTold'
    OBVIOUS
  <2>1. CASE UNCHANGED vars
    BY <2>1 DEF vars, world, OrphansAreTold, Orphans, InHands, ToTell
  <2> QED
    BY <2>1, CreateTells, WorkerTells, FinishTells, OutsideTells, DieTells
       DEF Next, WorkerStep, Panic, PollReady, TimeOut, HandleSnapshot, Crash
<1> QED
  BY <1>1, <1>2, SyncInit, SyncNext, PTL DEF Spec

-----------------------------------------------------------------------------
(* The wait.                                                               *)

\* A time that fits the timer is not changed by it.
LEMMA WrapFits == ASSUME NEW n \in Nat, n < Half PROVE Wrap(n) = n
<1>1. /\ n + Half \in 0..(2 * Half - 1) /\ 2 * Half \in Nat \ {0}
      /\ Half \in Nat
  BY SyncAssumption
<1>2. (n + Half) % (2 * Half) = n + Half
  BY <1>1
<1> QED
  BY <1>1, <1>2 DEF Wrap

\* The wait is not given up early, for every time that fits the timer.
THEOREM WaitsOut == Spec => WaitsAsAsked
<1>1. TypeOK /\ [Next]_vars =>
        [ work.pc = "wait" /\ work'.pc = "idle" /\ shown.snap.status = "unready"
            /\ Seconds * Second < Half /\ watching'
            => work.waited >= Seconds * Second ]_vars
  <2> SUFFICES ASSUME TypeOK, Next, work.pc = "wait", work'.pc = "idle",
                      shown.snap.status = "unready", Seconds * Second < Half, watching'
               PROVE  work.waited >= Seconds * Second
    OBVIOUS
  <2>1. TimeOut
    BY DEF TypeOK, Workers, Next, WorkerStep, Begin, Lookup, CreateContent, CreateSnapshot,
           Panic, CheckSnapshot, ListContents, SyncStatus, Tick, PollReady, HandleSnapshot,
           CacheStep, ShowSnapshot, ShowContents, FillStatus, Crash, Die, DeleteSnapshot,
           TakeSnapshot, DeleteContent, Outside
  <2>2. Seconds * Second \in Nat
    <3>1. Seconds \in Nat /\ Second \in Nat
      BY SyncAssumption DEF TypeOK, Workers, Seconds
    <3> QED
      BY <3>1
  <2>3. Deadline(work.asked) = Seconds * Second
    BY <2>2, WrapFits DEF Deadline, Seconds
  <2> QED
    BY <2>1, <2>3 DEF TimeOut
<1> QED
  BY <1>1, SyncTyped, PTL DEF Spec, WaitsAsAsked

-----------------------------------------------------------------------------
(* The right content is moved.                                             *)

\* What is known of the contents: each stands for an array snapshot of a
\* response so far, its status for the later one, and the stored ones were made.
MadeInv ==
    /\ work.pc # "idle" \/ work.err => work.want > 0
    /\ \A c \in Ids : /\ contents[c].spec <= work.want /\ contents[c].status <= work.want
                      /\ contents[c].status # 0 => contents[c].spec <= contents[c].status
    /\ alive \subseteq Made /\ shown.contents \subseteq Made

\* What is known of the content in the worker's hands, and that without an
\* excuse there is no other.
PickInv ==
    /\ work.pc = "snapshot" => /\ work.pick \in Ids
                              /\ contents[work.pick].spec = work.want
                              /\ contents[work.pick].status = 0
    /\ work.pc = "sync" /\ ~work.err /\ work.pick # 0
         => /\ work.move \/ StandsFor(work.pick) = work.want
            /\ excuses = 0 => work.pick = snap.names
    /\ excuses = 0 /\ ToTell = 0 => Made \subseteq {snap.names} \cup InHands

RightInv == SyncInv /\ MadeInv /\ PickInv

LEMMA RightInit == Init => RightInv
<1> SUFFICES ASSUME Init PROVE RightInv
  OBVIOUS
<1>1. SyncInv
  BY SyncInit
<1>2. Made = {} /\ \A c \in Ids : contents[c].spec = 0 /\ contents[c].status = 0
  BY DEF Init, Made, NoContent
<1>3. work.pc = "idle" /\ ~work.err /\ work.want = 0
  BY DEF Init
<1> QED
  BY <1>1, <1>2, <1>3 DEF Init, RightInv, MadeInv, PickInv

\* Steps that leave the contents alone and only hide some of them.
LEMMA MadeSame ==
    ASSUME RightInv, SyncInv', contents' = contents,
           work'.want \in Nat, work'.want >= work.want,
           work'.pc # "idle" \/ work'.err => work'.want > 0,
           alive' \subseteq alive, shown'.contents \subseteq shown.contents \cup alive
    PROVE  MadeInv' /\ Made' = Made
<1>1. Made' = Made
  BY DEF Made
<1>2. \A c \in Ids : contents[c].spec \in Nat /\ contents[c].status \in Nat
  BY DEF RightInv, SyncInv, TypeOK, Contents
<1>3. work.want \in Nat
  BY DEF RightInv, SyncInv, TypeOK, Workers
<1> QED
  BY <1>1, <1>2, <1>3 DEF RightInv, MadeInv

\* An excuse, once given, stays.
LEMMA Excused ==
    ASSUME SyncInv, Excuse PROVE excuses' # 0
BY SyncAssumption DEF SyncInv, TypeOK, Excuse

LEMMA DieRight == ASSUME RightInv, SyncInv', Die PROVE RightInv'
<1>1. /\ work'.pc = "idle" /\ ~work'.err
      /\ work'.want = work.want /\ work.want \in Nat
  BY DEF Die, End, RightInv, SyncInv, TypeOK, Workers
<1>2. MadeInv'
  BY <1>1, MadeSame DEF Die
<1>3. excuses' # 0
  BY Excused DEF Die, RightInv
<1> QED
  BY <1>1, <1>2, <1>3 DEF RightInv, PickInv

LEMMA OutsideRight ==
    ASSUME RightInv, SyncInv',
           \/ CacheStep \/ FillStatus \/ DeleteSnapshot \/ TakeSnapshot
           \/ \E c \in Ids : DeleteContent(c)
    PROVE  RightInv'
<1>1. work' = work /\ contents' = contents
  BY DEF CacheStep, ShowSnapshot, ShowContents, FillStatus, DeleteSnapshot,
         TakeSnapshot, DeleteContent, Outside
<1>2. /\ alive' \subseteq alive
      /\ shown'.contents \subseteq shown.contents \cup alive
  BY DEF CacheStep, ShowSnapshot, ShowContents, FillStatus, DeleteSnapshot,
         TakeSnapshot, DeleteContent, RightInv, SyncInv, TypeOK
<1>3. MadeInv' /\ Made' = Made
  <2>1. work.want \in Nat /\ (work.pc # "idle" \/ work.err => work.want > 0)
    BY DEF RightInv, MadeInv, SyncInv, TypeOK, Workers
  <2> QED
    BY <1>1, <1>2, <2>1, MadeSame
<1>4. excuses' # 0 \/ (excuses' = excuses /\ snap'.names = snap.names)
  <2>1. CASE DeleteSnapshot
    BY <2>1, Excused DEF DeleteSnapshot, RightInv
  <2>2. CASE TakeSnapshot
    BY <2>2, NothingTyped DEF TakeSnapshot, RightInv, SyncInv, PlaceInv
  <2>3. CASE FillStatus
    BY <2>3 DEF FillStatus, RightInv, SyncInv, TypeOK, Snapshots
  <2>4. CASE CacheStep \/ \E c \in Ids : DeleteContent(c)
    BY <2>4 DEF CacheStep, ShowSnapshot, ShowContents, DeleteContent
  <2> QED
    BY <2>1, <2>2, <2>3, <2>4
<1>5. \A c : StandsFor(c)' = StandsFor(c)
  BY <1>1 DEF StandsFor
<1> QED
  BY <1>1, <1>3, <1>4, <1>5 DEF RightInv, PickInv, InHands, ToTell

\* Steps of the worker that touch no content and end in no member's hands.
LEMMA QuietRight ==
    ASSUME RightInv, SyncInv', UNCHANGED <<world, excuses>>,
           work'.want = work.want, work.pc \notin {"idle", "snapshot"},
           work'.pc \notin {"snapshot", "sync"}, ToTell' = 0 => ToTell = 0
    PROVE  RightInv'
<1>1. work.want \in Nat
  BY DEF RightInv, SyncInv, TypeOK, Workers
<1>2. MadeInv' /\ Made' = Made
  BY <1>1, MadeSame DEF RightInv, MadeInv, world
<1>3. InHands' = {} /\ InHands = {}
  BY DEF InHands
<1> QED
  BY <1>2, <1>3 DEF RightInv, PickInv, world

LEMMA WaitRight ==
    ASSUME RightInv, SyncInv', Tick \/ PollReady \/ TimeOut PROVE RightInv'
<1>1. work \in Workers /\ work.pc = "wait"
  BY DEF RightInv, SyncInv, TypeOK, Tick, PollReady, TimeOut
<1>2. CASE Tick
  <2>1. work'.want = work.want /\ work'.pc = "wait" /\ ToTell' = ToTell
    BY <1>1, <1>2 DEF Tick, Workers, ToTell
  <2> QED
    BY <1>1, <1>2, <2>1, QuietRight DEF Tick, Step
<1>3. CASE Finish
  <2>1. work'.want = work.want /\ work'.pc = "idle"
    BY <1>1, <1>3 DEF Finish, End, Workers
  <2>2. CASE work.err
    <3>1. excuses' # 0
      BY <1>3, <2>2, Excused DEF Finish, RightInv
    <3>2. MadeInv'
      <4>1. work.want > 0 /\ work.want \in Nat
        BY <1>1, <2>2 DEF RightInv, MadeInv, Workers
      <4> QED
        BY <1>3, <2>1, <4>1, MadeSame DEF Finish, world
    <3> QED
      BY <2>1, <3>1, <3>2 DEF RightInv, PickInv
  <2>3. CASE ~work.err
    BY <1>1, <1>3, <2>1, <2>3, QuietRight DEF Finish, ToTell
  <2> QED
    BY <2>2, <2>3
<1> QED
  BY <1>2, <1>3 DEF PollReady, TimeOut

LEMMA LookRight ==
    ASSUME RightInv, SyncInv', Begin \/ Lookup PROVE RightInv'
<1>1. work \in Workers
  BY DEF RightInv, SyncInv, TypeOK
<1>2. CASE Begin
  <2>1. /\ work'.pc = "lookup" /\ work'.want \in Nat /\ work'.want >= work.want
    <3>1. work.want \in Nat
      BY <1>1 DEF Workers
    <3>2. CASE work' = [work EXCEPT !.pc = "lookup", !.err = FALSE]
      BY <1>1, <3>1, <3>2 DEF Workers
    <3>3. CASE \E c \in Classes :
                  work' = [work EXCEPT !.pc = "lookup", !.err = FALSE,
                                       !.want = @ + 1, !.class = c]
      BY <1>1, <3>1, <3>3 DEF Workers
    <3> QED
      BY <1>2, <3>2, <3>3 DEF Begin
  <2>2. work.pc = "idle" /\ (work.err => work.want > 0)
    BY <1>2 DEF Begin, RightInv, MadeInv
  <2>3. work'.want > 0
    <3>1. work.want \in Nat
      BY <1>1 DEF Workers
    <3>2. CASE /\ work.err
               /\ work' = [work EXCEPT !.pc = "lookup", !.err = FALSE]
      BY <1>1, <2>2, <3>2 DEF Workers
    <3>3. CASE \E c \in Classes :
                  work' = [work EXCEPT !.pc = "lookup", !.err = FALSE,
                                       !.want = @ + 1, !.class = c]
      BY <1>1, <3>1, <3>3 DEF Workers
    <3> QED
      BY <1>2, <3>2, <3>3 DEF Begin
  <2>4. MadeInv' /\ Made' = Made
    BY <1>2, <2>1, <2>3, MadeSame DEF Begin, world
  <2>5. InHands = {} /\ InHands' = {} /\ ToTell = 0
    BY <2>1, <2>2 DEF InHands, ToTell
  <2> QED
    BY <1>2, <2>1, <2>4, <2>5 DEF Begin, world, RightInv, PickInv
<1>3. CASE Lookup
  <2>1. work'.want = work.want /\ work'.pc \in {"check", "content"} /\ ToTell = 0
    BY <1>1, <1>3 DEF Lookup, Workers, ToTell, RightInv, SyncInv, PlaceInv
  <2> QED
    BY <1>3, <2>1, QuietRight DEF Lookup, Step
<1> QED
  BY <1>2, <1>3

\* An attempt that fails, with the contents as they were.
LEMMA FailedRight ==
    ASSUME RightInv, SyncInv', Failed, contents' = contents,
           alive' \subseteq alive, shown' = shown, work.pc # "idle"
    PROVE  RightInv'
<1>1. /\ work'.pc = "sync" /\ work'.err /\ work'.want = work.want
      /\ work.want \in Nat /\ work.want > 0
  BY DEF Failed, RightInv, MadeInv, SyncInv, TypeOK, Workers
<1>2. MadeInv'
  BY <1>1, MadeSame
<1>3. ToTell' = 1
  BY <1>1 DEF ToTell
<1> QED
  BY <1>1, <1>2, <1>3 DEF RightInv, PickInv

LEMMA CheckRight == ASSUME RightInv, SyncInv', CheckSnapshot PROVE RightInv'
<1>1. work \in Workers /\ work.pc = "check" /\ ToTell = 0
  BY DEF CheckSnapshot, RightInv, SyncInv, PlaceInv, TypeOK, ToTell
<1>2. CASE Failed
  BY <1>1, <1>2, FailedRight DEF CheckSnapshot, world
<1>3. CASE Goto("list")
  <2>1. work'.want = work.want /\ work'.pc = "list"
    BY <1>1, <1>3 DEF Goto, Workers
  <2> QED
    BY <1>1, <2>1, QuietRight DEF CheckSnapshot, Step
<1> QED
  BY <1>2, <1>3 DEF CheckSnapshot

\* The list: what is picked is moved, or stands for the response already; and
\* without an excuse there is only the content that the snapshot names.
LEMMA ListRight == ASSUME RightInv, SyncInv', ListContents PROVE RightInv'
<1>1. work \in Workers /\ work.pc = "list" /\ ~work.err /\ ToTell = 0
  BY DEF ListContents, RightInv, SyncInv, PlaceInv, TypeOK, ToTell
<1>2. CASE Failed
  BY <1>1, <1>2, FailedRight DEF ListContents, world
<1>3. ASSUME NEW c \in {0} \cup shown.contents, NEW m \in BOOLEAN, Picked(c, m),
             c # 0 => m = (contents[c].spec # work.want)
      PROVE  RightInv'
  <2>1. /\ work'.pc = "sync" /\ work'.pick = c /\ work'.move = m
        /\ work'.want = work.want /\ work'.err = work.err
        /\ work.want \in Nat /\ work.want > 0
    BY <1>1, <1>3 DEF Picked, Workers, RightInv, MadeInv
  <2>2. MadeInv' /\ Made' = Made
    BY <2>1, MadeSame DEF ListContents, world
  <2>3. InHands = {} /\ InHands' = {}
    BY <1>1, <2>1 DEF InHands
  <2>4. UNCHANGED <<snap, contents, excuses>>
    BY DEF ListContents, world, Step
  <2>5. c # 0 /\ excuses = 0 => c = snap.names
    BY <1>1, <2>3 DEF RightInv, MadeInv, PickInv
  <2>6. c # 0 /\ ~m => StandsFor(c) = work.want
    <3>1. SUFFICES ASSUME c # 0, contents[c].spec = work.want
                   PROVE  StandsFor(c) = work.want
      BY <1>3
    <3>2. c \in Ids
      BY <3>1 DEF RightInv, SyncInv, TypeOK
    <3>3. contents[c].status \in Nat
      BY <3>2 DEF RightInv, SyncInv, TypeOK, Contents
    <3>4. contents[c].status \in {0, work.want}
      BY <3>1, <3>2, <3>3, <2>1 DEF RightInv, MadeInv
    <3> QED
      BY <3>1, <3>4 DEF StandsFor
  <2>7. StandsFor(c)' = StandsFor(c)
    BY <2>4 DEF StandsFor
  <2>8. work'.pick # 0 => /\ work'.move \/ StandsFor(work.pick)' = work'.want
                          /\ excuses' = 0 => work'.pick = snap'.names
    BY <2>1, <2>4, <2>5, <2>6, <2>7 DEF StandsFor
  <2> QED
    BY <1>1, <2>1, <2>2, <2>3, <2>4, <2>8 DEF RightInv, PickInv
<1>4. \/ Failed
      \/ \E c \in {0} \cup shown.contents, m \in BOOLEAN :
            Picked(c, m) /\ (c # 0 => m = (contents[c].spec # work.want))
  BY DEF ListContents
<1> QED
  BY <1>2, <1>3, <1>4

LEMMA SyncRight == ASSUME RightInv, SyncInv', SyncStatus PROVE RightInv'
<1>1. work \in Workers /\ work.pc = "sync" /\ work.want \in Nat /\ work.want > 0
  BY DEF SyncStatus, RightInv, MadeInv, SyncInv, TypeOK, Workers
<1>2. /\ work'.pc = "wait" /\ work'.want = work.want /\ (work.err => work'.err)
  BY <1>1 DEF SyncStatus, Synced, Workers
<1>3. ToTell' = 0 => ToTell = 0
  BY <1>1, <1>2 DEF ToTell
<1>4. CASE contents' = contents
  BY <1>1, <1>2, <1>3, <1>4, QuietRight DEF SyncStatus, Step, world
<1>5. CASE /\ work.pick \in alive
           /\ contents' = [contents EXCEPT ![work.pick].status = work.want]
  <2>1. /\ work.pick \in Ids /\ work.pick \in Made
        /\ contents[work.pick] \in Contents
    BY <1>5 DEF RightInv, MadeInv, SyncInv, TypeOK
  <2>2. \A c \in Ids : c # work.pick => contents'[c] = contents[c]
    BY <1>5 DEF RightInv, SyncInv, TypeOK
  <2>3. /\ contents'[work.pick].spec = contents[work.pick].spec
        /\ contents'[work.pick].status = work.want
    BY <1>5, <2>1 DEF RightInv, SyncInv, TypeOK, Contents
  <2>4. Made' = Made
    <3>1. contents'[work.pick] # NoContent
      BY <1>1, <2>3 DEF NoContent
    <3> QED
      BY <2>1, <2>2, <3>1 DEF Made
  <2>5. MadeInv'
    BY <1>1, <1>2, <2>1, <2>2, <2>3, <2>4 DEF SyncStatus, RightInv, MadeInv
  <2>6. InHands' = {} /\ InHands = {} /\ UNCHANGED <<snap, excuses>>
    BY <1>1, <1>2 DEF InHands, SyncStatus, Step
  <2> QED
    BY <1>2, <1>3, <2>4, <2>5, <2>6 DEF RightInv, PickInv
<1> QED
  BY <1>4, <1>5 DEF SyncStatus

\* A new content stands for the array snapshot of the response.
LEMMA NewRight ==
    ASSUME RightInv, SyncInv', NEW c \in Ids \ Made, NewContent(c),
           work.pc = "content", UNCHANGED <<shown, snap, excuses>>,
           \/ work' = [work EXCEPT !.pc = "snapshot", !.pick = c]
           \/ Failed
    PROVE  RightInv'
<1>1. /\ work \in Workers /\ work.want \in Nat /\ work.want > 0
      /\ InHands = {} /\ ToTell = 0
  BY DEF RightInv, MadeInv, SyncInv, PlaceInv, TypeOK, Workers, InHands, ToTell
<1>2. work'.want = work.want
  BY <1>1 DEF Failed, Workers
<1>3. /\ \A d \in Ids : d # c => contents'[d] = contents[d]
      /\ contents'[c].spec = work.want /\ contents'[c].status = 0
  BY DEF NewContent, RightInv, SyncInv, TypeOK
<1>4. Made' = Made \cup {c}
  <2>1. contents'[c] # NoContent
    BY <1>1, <1>3 DEF NoContent
  <2> QED
    BY <1>3, <2>1 DEF Made
<1>5. MadeInv'
  BY <1>1, <1>2, <1>3, <1>4 DEF NewContent, RightInv, MadeInv
<1>6. CASE Failed
  <2>1. work'.pc = "sync" /\ work'.err
    BY <1>1, <1>6 DEF Failed, Workers
  <2> QED
    BY <1>5, <2>1 DEF RightInv, PickInv, ToTell
<1>7. CASE work' = [work EXCEPT !.pc = "snapshot", !.pick = c]
  <2>1. work'.pc = "snapshot" /\ work'.pick = c
    BY <1>1, <1>7 DEF Workers
  <2>2. InHands' = {c}
    BY <2>1 DEF InHands
  <2> QED
    BY <1>1, <1>2, <1>3, <1>4, <1>5, <2>1, <2>2 DEF RightInv, PickInv
<1> QED
  BY <1>6, <1>7

LEMMA CreateRight ==
    ASSUME RightInv, SyncInv', CreateContent \/ CreateSnapshot PROVE RightInv'
<1>1. CASE CreateContent
  <2>1. CASE Failed /\ UNCHANGED <<contents, alive>>
    BY <1>1, <2>1, FailedRight DEF CreateContent
  <2>2. CASE \E c \in Ids \ Made :
               /\ NewContent(c)
               /\ \/ work' = [work EXCEPT !.pc = "snapshot", !.pick = c]
                  \/ Failed
    BY <1>1, <2>2, NewRight DEF CreateContent, Step
  <2> QED
    BY <1>1, <2>1, <2>2 DEF CreateContent
<1>2. CASE CreateSnapshot
  <2>1. CASE Failed
    BY <1>2, <2>1, FailedRight DEF CreateSnapshot
  <2>2. CASE /\ Picked(work.pick, FALSE) /\ ~snap.here
             /\ snap' = [here |-> TRUE, names |-> work.pick, class |-> work.class,
                         status |-> "nil"]
    <3>1. /\ work \in Workers /\ work.pc = "snapshot" /\ ToTell = 0
          /\ work.want \in Nat /\ work.want > 0 /\ InHands = {work.pick}
      BY <1>2 DEF CreateSnapshot, RightInv, MadeInv, SyncInv, PlaceInv, TypeOK, Workers,
                  ToTell, InHands
    <3>2. /\ work'.pc = "sync" /\ work'.want = work.want /\ work'.pick = work.pick
          /\ ~work'.err
      <4>1. ~work.err
        BY <3>1 DEF RightInv, SyncInv, PlaceInv
      <4> QED
        BY <3>1, <4>1, <2>2 DEF Picked, Workers
    <3>3. snap'.names = work.pick
      BY <2>2
    <3>4. UNCHANGED <<contents, alive, shown, excuses>>
      BY <1>2 DEF CreateSnapshot, Step
    <3>5. MadeInv' /\ Made' = Made
      BY <3>1, <3>2, <3>4, MadeSame
    <3>6. contents[work.pick].spec = work.want /\ contents[work.pick].status = 0
      BY <3>1 DEF RightInv, PickInv
    <3>7. StandsFor(work.pick)' = work'.want
      BY <3>2, <3>4, <3>6 DEF StandsFor
    <3>8. excuses' = 0 => Made' \subseteq {snap'.names}
      <4>1. SUFFICES ASSUME excuses = 0 PROVE Made \subseteq {work.pick}
        BY <3>3, <3>4, <3>5
      <4>2. Made \subseteq {snap.names, work.pick} /\ snap.names = 0 /\ 0 \notin Made
        BY <2>2, <3>1, <4>1 DEF RightInv, PickInv, SyncInv, PlaceInv, Made, Ids
      <4> QED
        BY <4>2
    <3> QED
      BY <3>2, <3>3, <3>5, <3>7, <3>8 DEF RightInv, PickInv
  <2> QED
    BY <1>2, <2>1, <2>2 DEF CreateSnapshot
<1> QED
  BY <1>1, <1>2

LEMMA RightNext == RightInv /\ SyncInv' /\ [Next]_vars => RightInv'
<1> SUFFICES ASSUME RightInv, SyncInv', [Next]_vars PROVE RightInv'
  OBVIOUS
<1>1. CASE UNCHANGED vars
  BY <1>1 DEF vars, world, RightInv, MadeInv, PickInv, Made, StandsFor, InHands, ToTell
<1> QED
  BY <1>1, CreateRight, SyncRight, ListRight, CheckRight, LookRight, WaitRight,
     OutsideRight, DieRight
     DEF Next, WorkerStep, Panic, HandleSnapshot, Crash

\* A member dealt with and no error has the array snapshot of its response.
THEOREM MovesRight == Spec => MovesTheRightOne
<1>1. RightInv /\ [Next]_vars =>
        [ work.pc = "sync" /\ work'.pc = "wait" /\ ~work'.err
            => /\ StandsFor(work.pick)' = work.want
               /\ excuses = 0 /\ snap.names # 0
                    => StandsFor(snap.names)' = work.want ]_vars
  <2> SUFFICES ASSUME RightInv, Next, work.pc = "sync", work'.pc = "wait", ~work'.err
               PROVE  /\ StandsFor(work.pick)' = work.want
                      /\ excuses = 0 /\ snap.names # 0
                           => StandsFor(snap.names)' = work.want
    OBVIOUS
  <2>1. SyncStatus
    <3>1. ~Die
      BY EndTyped DEF Die, RightInv
    <3>2. work' # work
      OBVIOUS
    <3> QED
      BY <3>1, <3>2
         DEF Next, WorkerStep, Begin, Lookup, CreateContent, CreateSnapshot, Panic,
             CheckSnapshot, ListContents, Tick, PollReady, TimeOut, HandleSnapshot,
             CacheStep, ShowSnapshot, ShowContents, FillStatus, Crash, DeleteSnapshot,
             TakeSnapshot, DeleteContent, Outside
  <2>2. Synced(FALSE) /\ snap' = snap /\ work.pick \in shown.contents
    BY <2>1 DEF SyncStatus, Synced, RightInv, SyncInv, TypeOK, Workers
  <2>3. work'.pick = work.pick /\ ~work.err /\ work.pick \in Ids
    BY <2>2 DEF Synced, RightInv, SyncInv, TypeOK, Workers
  <2>4. work.pick # 0 /\ work.want > 0
    BY <2>1, <2>3 DEF SyncStatus, Ids, RightInv, MadeInv
  <2>5. StandsFor(work.pick)' = work.want
    <3>1. CASE contents' = [contents EXCEPT ![work.pick].status = work.want]
      <4>1. contents'[work.pick].status = work.want
        BY <2>3, <3>1 DEF RightInv, SyncInv, TypeOK, Contents
      <4> QED
        BY <2>3, <2>4, <4>1 DEF StandsFor
    <3>2. CASE contents' = contents /\ ~work.move
      BY <2>1, <2>3, <2>4, <3>2 DEF SyncStatus, StandsFor, RightInv, PickInv
    <3>3. ~Synced(TRUE)
      BY DEF Synced, RightInv, SyncInv, TypeOK, Workers
    <3> QED
      BY <2>1, <3>1, <3>2, <3>3 DEF SyncStatus
  <2>6. excuses = 0 => work.pick = snap.names
    BY <2>1, <2>3, <2>4 DEF SyncStatus, RightInv, PickInv
  <2> QED
    BY <2>2, <2>3, <2>5, <2>6 DEF StandsFor
<1>2. RightInv => SyncInv
  BY DEF RightInv
<1> QED
  BY <1>1, RightInit, RightNext, SyncInit, SyncNext, PTL DEF Spec, MovesTheRightOne

-----------------------------------------------------------------------------
(* The contents live as they should.                                       *)

\* A content about to be moved was made for an array snapshot taken earlier.
MoveInv ==
    work.pc = "sync" /\ work.move =>
      work.pick \in Ids /\ contents[work.pick].spec < work.want

\* What was true of the content when it was listed is still true when it is
\* moved: nobody but the worker writes contents.
LEMMA MoveNext ==
    ASSUME RightInv, MoveInv, [Next]_vars PROVE MoveInv'
<1>1. /\ work \in Workers /\ work.want \in Nat
      /\ contents \in [Ids -> Contents]
      /\ \A c \in Ids : contents[c].spec \in Nat
  BY DEF RightInv, SyncInv, TypeOK, Workers, Contents
<1>2. ASSUME work'.pc # "sync" \/ ~work'.move PROVE MoveInv'
  BY <1>2 DEF MoveInv
<1>3. ASSUME UNCHANGED <<work, contents>> PROVE MoveInv'
  BY <1>3 DEF MoveInv
<1>4. ASSUME NEW e, End(e) PROVE MoveInv'
  BY <1>1, <1>2, <1>4 DEF End, Workers
<1>5. CASE Failed
  BY <1>1, <1>2, <1>5 DEF Failed, Workers
<1>6. ASSUME NEW pc, pc # "sync", Goto(pc) PROVE MoveInv'
  BY <1>1, <1>2, <1>6 DEF Goto, Workers
<1>7. CASE ListContents
  <2>1. CASE Picked(0, FALSE)
    BY <1>1, <1>2, <2>1 DEF Picked, Workers
  <2>2. ASSUME NEW c \in shown.contents, Picked(c, contents[c].spec # work.want)
        PROVE  MoveInv'
    <3>1. c \in Ids /\ contents[c].spec <= work.want
      BY DEF RightInv, MadeInv, Made
    <3>2. /\ work'.pick = c /\ work'.want = work.want
          /\ work'.move = (contents[c].spec # work.want)
      BY <1>1, <2>2 DEF Picked, Workers
    <3>3. contents' = contents
      BY <1>7 DEF ListContents, world
    <3>4. work.want # contents[c].spec => contents[c].spec < work.want
      BY <1>1, <3>1
    <3> QED  BY <3>1, <3>2, <3>3, <3>4 DEF MoveInv
  <2> QED  BY <1>5, <1>7, <2>1, <2>2 DEF ListContents
<1>8. CASE CreateContent \/ CreateSnapshot
  <2>1. ASSUME NEW c, work' = [work EXCEPT !.pc = "snapshot", !.pick = c]
        PROVE  MoveInv'
    BY <1>1, <1>2, <2>1 DEF Workers
  <2>2. CASE Picked(work.pick, FALSE)
    BY <1>1, <1>2, <2>2 DEF Picked, Workers
  <2>3. CreateContent =>
          Failed \/ \E c : work' = [work EXCEPT !.pc = "snapshot", !.pick = c]
    BY DEF CreateContent
  <2>4. CreateSnapshot => Failed \/ Picked(work.pick, FALSE)
    BY DEF CreateSnapshot
  <2> QED  BY <1>5, <1>8, <2>1, <2>2, <2>3, <2>4
<1>9. CASE Begin \/ Lookup \/ SyncStatus \/ Tick
  <2>1. ASSUME NEW e, Synced(e) PROVE work'.pc # "sync"
    BY <1>1, <2>1 DEF Synced, Workers
  <2>2. SyncStatus => work'.pc # "sync"
    BY <2>1 DEF SyncStatus
  <2>3. Begin \/ Lookup \/ Tick => work'.pc # "sync"
    BY <1>1 DEF Begin, Lookup, Tick, Workers
  <2> QED  BY <1>2, <1>9, <2>2, <2>3
<1>10. CASE CheckSnapshot
  BY <1>5, <1>6, <1>10 DEF CheckSnapshot
<1>11. CASE Panic \/ PollReady \/ TimeOut \/ HandleSnapshot \/ Crash
  BY <1>4, <1>11 DEF Panic, PollReady, TimeOut, HandleSnapshot, Crash, Die, Finish
<1> QED
  BY <1>3, <1>7, <1>8, <1>9, <1>10, <1>11
  DEF Next, WorkerStep, CacheStep, ShowSnapshot, ShowContents, FillStatus,
      DeleteSnapshot, TakeSnapshot, DeleteContent, Outside, vars, world

LifeStep == [Life!Next]_(Life!contentVars)

\* A content is made for the array snapshot of the response.
LEMMA MakeLives ==
    ASSUME RightInv, work.pc = "content", NEW c \in Ids \ Made, NewContent(c)
    PROVE  LifeStep
<1>1. /\ work.want \in 1..MaxWant
      /\ contents \in [Ids -> Contents]
      /\ contents[c].spec = 0 /\ contents[c].status = 0
  BY DEF RightInv, SyncInv, TypeOK, MadeInv, Workers, Made, NoContent
<1>2. \A d \in Ids :
         /\ contents'[d].spec = IF d = c THEN work.want ELSE contents[d].spec
         /\ contents'[d].status = contents[d].status
  BY <1>1 DEF NewContent
<1>3. [d \in Ids |-> contents[d].spec]'
        = [[d \in Ids |-> contents[d].spec] EXCEPT ![c] = work.want]
  BY <1>2
<1>4. [d \in Ids |-> contents[d].status]' = [d \in Ids |-> contents[d].status]
  BY <1>2
<1>5. [d \in Ids |-> contents[d].spec][c] = 0
  BY <1>1
<1>6. Life!Make(c)
  BY <1>1, <1>3, <1>4, <1>5 DEF Life!Make, NewContent
<1> QED  BY <1>6 DEF LifeStep, Life!Next

\* A content is moved to the array snapshot of the response.
LEMMA MoveLives ==
    ASSUME RightInv, MoveInv, work.pc = "sync", work.move, NEW c \in alive,
           work.pick = c, contents' = [contents EXCEPT ![c].status = work.want],
           alive' = alive
    PROVE  LifeStep
<1>1. /\ c \in Ids /\ contents[c].spec < work.want
      /\ contents[c].status <= work.want
      /\ contents \in [Ids -> Contents]
  BY DEF RightInv, SyncInv, TypeOK, MadeInv, MoveInv
<1>2. work.want \in Nat /\ contents[c].status \in Nat
      /\ work.want \in 1..MaxWant
  BY <1>1 DEF RightInv, SyncInv, TypeOK, MadeInv, Workers, Contents
<1>3. \A d \in Ids :
         /\ contents'[d].spec = contents[d].spec
         /\ contents'[d].status = IF d = c THEN work.want ELSE contents[d].status
  BY <1>1 DEF Contents
<1>4. [d \in Ids |-> contents[d].spec]' = [d \in Ids |-> contents[d].spec]
  BY <1>3
<1>5. [d \in Ids |-> contents[d].status]'
        = [[d \in Ids |-> contents[d].status] EXCEPT ![c] = work.want]
  BY <1>1, <1>3
<1>6. CASE contents[c].status = work.want
  <2>1. [d \in Ids |-> contents[d].status]' = [d \in Ids |-> contents[d].status]
    BY <1>3, <1>6
  <2> QED  BY <1>4, <2>1 DEF LifeStep, Life!contentVars
<1>7. CASE contents[c].status # work.want
  <2>1. work.want > contents[c].status /\ work.want > contents[c].spec
    BY <1>1, <1>2, <1>7 DEF Contents
  <2>2. /\ work.want > [d \in Ids |-> contents[d].status][c]
        /\ work.want > [d \in Ids |-> contents[d].spec][c]
    BY <1>1, <2>1
  <2>3. Life!Move(c)
    BY <1>2, <1>4, <1>5, <2>2 DEF Life!Move
  <2> QED  BY <1>1, <2>3 DEF LifeStep, Life!Next
<1> QED  BY <1>6, <1>7

\* A content goes, or is not touched.
LEMMA RemoveLives ==
    ASSUME RightInv, contents' = contents, NEW c, alive' \in {alive, alive \ {c}}
    PROVE  LifeStep
<1>1. alive \subseteq Ids
  BY DEF RightInv, SyncInv, TypeOK
<1>2. CASE alive' = alive
  BY <1>2 DEF LifeStep, Life!contentVars
<1>3. CASE alive' # alive
  <2>1. c \in alive /\ c \in Ids /\ alive' = alive \ {c}
    BY <1>1, <1>3
  <2>2. Life!Remove(c)
    BY <2>1 DEF Life!Remove
  <2> QED  BY <2>1, <2>2 DEF LifeStep, Life!Next
<1> QED  BY <1>2, <1>3

\* Every step on the contents is one of their abstract life.
LEMMA LifeNext ==
    ASSUME RightInv, MoveInv, [Next]_vars PROVE LifeStep
<1>1. ASSUME UNCHANGED <<contents, alive>> PROVE LifeStep
  BY <1>1, RemoveLives
<1>2. CASE CreateContent
  <2>1. \/ UNCHANGED <<contents, alive>>
        \/ \E c \in Ids \ Made : NewContent(c)
    BY <1>2 DEF CreateContent
  <2>2. work.pc = "content"
    BY <1>2 DEF CreateContent
  <2> QED  BY <1>1, <2>1, <2>2, MakeLives
<1>3. CASE SyncStatus
  BY <1>1, <1>3, MoveLives DEF SyncStatus
<1>4. CASE DeleteSnapshot
  BY <1>4, RemoveLives DEF DeleteSnapshot
<1>5. ASSUME NEW c \in Ids, DeleteContent(c) PROVE LifeStep
  BY <1>5, RemoveLives DEF DeleteContent
<1>6. CASE \/ Begin \/ Lookup \/ CreateSnapshot \/ Panic \/ CheckSnapshot
           \/ ListContents \/ Tick \/ PollReady \/ TimeOut \/ HandleSnapshot
           \/ CacheStep \/ FillStatus \/ Crash \/ TakeSnapshot
  <2>1. UNCHANGED <<contents, alive>>
    BY <1>6
    DEF Begin, Lookup, CreateSnapshot, Panic, CheckSnapshot, ListContents, Tick,
        PollReady, TimeOut, Finish, HandleSnapshot, Die, Crash, CacheStep,
        ShowSnapshot, ShowContents, FillStatus, TakeSnapshot, Outside, world
  <2> QED  BY <1>1, <2>1
<1> QED
  BY <1>1, <1>2, <1>3, <1>4, <1>5, <1>6 DEF Next, WorkerStep, vars, world

\* The detailed member implements the abstract life of its contents: each is
\* made for one array snapshot, moved only to later ones and only while it is
\* stored, whatever the caches show and however often a call fails.
THEOREM ContentsImplement == Spec => ContentsLive
<1>1. Init => Life!Init
  BY DEF Init, Life!Init, NoContent
<1>2. Init => RightInv /\ SyncInv /\ MoveInv
  BY RightInit, SyncInit DEF Init, MoveInv
<1>3. RightInv /\ SyncInv /\ MoveInv /\ [Next]_vars
        => RightInv' /\ SyncInv' /\ MoveInv'
  BY RightNext, SyncNext, MoveNext
<1>4. RightInv /\ MoveInv /\ [Next]_vars => [Life!Next]_(Life!contentVars)
  BY LifeNext DEF LifeStep
<1> QED
  BY <1>1, <1>2, <1>3, <1>4, PTL DEF Spec, ContentsLive, Life!Spec
=============================================================================
