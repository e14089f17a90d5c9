----------------------------- MODULE MemberSync -----------------------------
(***************************************************************************)
(* One member of a group through repeated calls of processResponse, in     *)
(* detail: createVolumeSnapshot, the checks of a snapshot and a content    *)
(* that exist already, updateVolumeSnapshotContentStatus, the wait with    *)
(* its timer, and the handlers of snapWatch.  Several contents may refer   *)
(* to the one snapshot name, and each kind is read from a cache that lags. *)
(* GroupReconciler has all members and the group, and less of each.        *)
(***************************************************************************)
EXTENDS Integers, FiniteSets

CONSTANTS
    MaxContents,   \* bound: contents ever created for the name
    MaxWant,       \* bound: array snapshots of the member, one per group
    MaxFaults,     \* bound: failures and deletions
    Classes,       \* class names that groups ask for
    Timeouts,      \* values of Spec.Timeout
    Default,       \* the value that stands for none given
    Second,        \* clock ticks in a second
    Half           \* integers of the timer go from -Half to Half - 1

ASSUME SyncAssumption ==
    /\ MaxContents \in Nat \ {0} /\ MaxWant \in Nat \ {0} /\ MaxFaults \in Nat
    /\ Classes # {} /\ Timeouts \subseteq Nat
    /\ Default \in Nat \ {0} /\ Second \in Nat \ {0} /\ Half \in Nat \ {0}

VARIABLES
    snap,       \* the stored VolumeSnapshot
    contents,   \* the contents made for it so far
    alive,      \* those of them that are stored
    shown,      \* what the caches show of both
    work,       \* the worker in processResponse
    watching,   \* whether informers of snapWatch run
    excuses,    \* attempts that returned an error, deaths of the process and
                \* deletions of the snapshot, counted up to MaxContents
    faults      \* disturbances that may still happen

world == <<snap, contents, alive, shown>>
vars == <<world, work, watching, excuses, faults>>

Ids == 1..MaxContents

\* names: the content in Spec.Source, 0 in a snapshot taken of a claim;
\* "broken" is a status that has an error and no ReadyToUse.
Snapshots == [here : BOOLEAN, names : 0..MaxContents, class : Classes,
              status : {"nil", "broken", "unready", "ready"}]
NoSnapshot == [here |-> FALSE, names |-> 0, class |-> CHOOSE c \in Classes : TRUE,
               status |-> "nil"]

\* The array snapshot in Spec.Source and the one in the status; 0 is none.
Contents == [spec : 0..MaxWant, status : 0..MaxWant, class : Classes]
NoContent == [spec |-> 0, status |-> 0, class |-> NoSnapshot.class]

Made == {c \in Ids : contents[c] # NoContent}
Orphans == alive \ {snap.names}

\* want: the array snapshot of the response; class: the group's; found: the
\* snapshot looked up; pick, move: contentName and updateSnapIDForContent;
\* asked: Spec.Timeout; waited: ticks of the timer.
Workers == [pc : {"idle", "lookup", "content", "snapshot", "check", "list",
                  "sync", "wait"},
            want : 0..MaxWant, class : Classes,
            found : Snapshots, pick : 0..MaxContents, move : BOOLEAN, err : BOOLEAN,
            asked : Timeouts \cup {0}, waited : 0..Half]

TypeOK ==
    /\ snap \in Snapshots
    /\ contents \in [Ids -> Contents]
    /\ shown \in [snap : Snapshots, contents : SUBSET Ids]
    /\ alive \subseteq Ids
    /\ work \in Workers
    /\ work.pc \in {"check", "list"} => work.found.here
    /\ watching \in BOOLEAN
    /\ excuses \in 0..MaxContents
    /\ faults \in 0..MaxFaults

Init ==
    /\ snap = NoSnapshot
    /\ contents = [c \in Ids |-> NoContent]
    /\ shown = [snap |-> NoSnapshot, contents |-> {}]
    /\ alive = {}
    /\ work = [pc |-> "idle", want |-> 0, class |-> NoSnapshot.class,
                found |-> NoSnapshot, pick |-> 0, move |-> FALSE,
                err |-> FALSE, asked |-> 0, waited |-> 0]
    /\ watching = FALSE
    /\ excuses = 0
    /\ faults = MaxFaults

Disturb == faults > 0 /\ faults' = faults - 1

Excuse == excuses' = IF excuses < MaxContents THEN excuses + 1 ELSE excuses

Goto(pc) == work' = [work EXCEPT !.pc = pc]

End(err) == work' = [work EXCEPT !.pc = "idle", !.found = NoSnapshot, !.pick = 0,
                                 !.move = FALSE, !.err = err, !.asked = 0, !.waited = 0]

\* createVolumeSnapshot returns: a content name, or none and an error.
Picked(c, move) == work' = [work EXCEPT !.pc = "sync", !.pick = c, !.move = move]
Failed == work' = [work EXCEPT !.pc = "sync", !.pick = 0, !.move = FALSE, !.err = TRUE]

-----------------------------------------------------------------------------
(* The process.                                                            *)

\* Any goroutine that panics ends the process.  The group is left Pending, so
\* that the restarted one does not try it again; its caches are fresh.
Die ==
    /\ End(FALSE)
    /\ watching' = FALSE
    /\ Excuse
    /\ UNCHANGED <<snap, contents, alive>>
    /\ shown' = [snap |-> snap, contents |-> alive]

Crash == work.pc # "idle" /\ Disturb /\ Die

\* handleSnapCreate and handleSnapUpdate only report, but dereference what a
\* broken status does not have.  They see the object of the event itself.
HandleSnapshot ==
    /\ watching
    /\ snap.status = "broken"
    /\ Die
    /\ UNCHANGED faults

\* An attempt after one that returned an error may be for the same array
\* snapshot (whether there is one, Reconcile decides); a new object, or one
\* whose group id was not stored, brings another.  Each attempt starts an
\* informer on snapshots, which nothing stops.
Begin ==
    /\ work.pc = "idle"
    /\ \/ /\ work.err
          /\ work' = [work EXCEPT !.pc = "lookup", !.err = FALSE]
       \/ /\ work.want < MaxWant
          /\ \E c \in Classes :
                work' = [work EXCEPT !.pc = "lookup", !.err = FALSE,
                                     !.want = @ + 1, !.class = c]
    /\ watching' = TRUE
    /\ UNCHANGED <<world, excuses, faults>>

-----------------------------------------------------------------------------
(* createVolumeSnapshot and updateVolumeSnapshotContentStatus.             *)

Step == UNCHANGED <<watching, excuses>>

\* Slip: whatever was found is checked.
LookupAnyway ==
    /\ work.pc = "lookup"
    /\ work' = [work EXCEPT !.pc = "check", !.found = shown.snap]
    /\ UNCHANGED <<world, faults>>
    /\ Step

Lookup ==
    /\ work.pc = "lookup"
    /\ work' = [work EXCEPT !.pc = IF shown.snap.here THEN "check" ELSE "content",
                            !.found = shown.snap]
    /\ UNCHANGED <<world, faults>>
    /\ Step

\* makeVolSnapContent: a fresh name, and a reference without a uid.
NewContent(c) ==
    /\ contents' = [contents EXCEPT ![c] =
                      [spec |-> work.want, status |-> 0, class |-> work.class]]
    /\ alive' = alive \cup {c}

\* Bound: the API server refuses more than MaxContents.
CreateContent ==
    /\ work.pc = "content"
    /\ \/ \E c \in Ids \ Made :
             /\ \A d \in Ids \ Made : c <= d
             /\ NewContent(c)
             /\ \/ /\ work' = [work EXCEPT !.pc = "snapshot", !.pick = c]
                   /\ UNCHANGED faults
                \/ Failed /\ Disturb
       \/ /\ IF Made = Ids THEN UNCHANGED faults ELSE Disturb
          /\ Failed
          /\ UNCHANGED <<contents, alive>>
    /\ UNCHANGED <<snap, shown>>
    /\ Step

\* Slip: a snapshot that exists by now is not an error.
CreateSnapshotMaybe ==
    /\ work.pc = "snapshot"
    /\ snap' = IF snap.here THEN snap
               ELSE [here |-> TRUE, names |-> work.pick, class |-> work.class,
                     status |-> "nil"]
    /\ Picked(work.pick, FALSE)
    /\ UNCHANGED <<contents, alive, shown, faults>>
    /\ Step

\* It fails if there is a snapshot that the cache did not show.
CreateSnapshot ==
    /\ work.pc = "snapshot"
    /\ \/ /\ ~snap.here
          /\ snap' = [here |-> TRUE, names |-> work.pick, class |-> work.class,
                      status |-> "nil"]
          /\ \/ Picked(work.pick, FALSE) /\ UNCHANGED faults
             \/ Disturb /\ Failed
       \/ /\ \/ snap.here /\ UNCHANGED faults
             \/ ~snap.here /\ Disturb
          /\ Failed
          /\ UNCHANGED snap
    /\ UNCHANGED <<contents, alive, shown>>
    /\ Step

\* checkExistingVolSnapshot dereferences what these do not have: the name of
\* a content, that content's handle, ReadyToUse.
Bare(s) == s.names \notin shown.contents \/ s.status = "broken"

Panic ==
    /\ \/ work.pc = "check" /\ Bare(work.found)
       \/ work.pc = "wait" /\ shown.snap.status = "broken"
    /\ Die
    /\ UNCHANGED faults

CheckSnapshot ==
    /\ work.pc = "check"
    /\ ~Bare(work.found)
    /\ IF work.found.status = "unready" \/ work.found.class # work.class
       THEN Failed
       ELSE Goto("list")
    /\ UNCHANGED <<world, faults>>
    /\ Step

\* Slip: a content of another array snapshot is taken as it is.
ListContentsStale ==
    /\ work.pc = "list"
    /\ \E c \in shown.contents : Picked(c, FALSE)
    /\ UNCHANGED <<world, faults>>
    /\ Step

\* checkExistingVolsnapcontent: the first content listed whose reference has
\* the name, in no particular order, which need not be the one the snapshot
\* names; its driver (against what the user wrote in the group) and its class
\* are validated.
ListContents ==
    /\ work.pc = "list"
    /\ \/ shown.contents = {} /\ Picked(0, FALSE)
       \/ \E c \in shown.contents :
             \/ /\ contents[c].class = work.found.class
                /\ Picked(c, contents[c].spec # work.want)
             \/ Failed
    /\ UNCHANGED <<world, faults>>
    /\ Step

Synced(err) ==
    \E t \in Timeouts :
       work' = [work EXCEPT !.pc = "wait", !.err = @ \/ err, !.asked = t]

\* Slip: the whole object is updated instead of its status.
SyncWhole ==
    /\ work.pc = "sync"
    /\ \/ /\ work.pick \notin alive
          /\ Synced(TRUE)
          /\ UNCHANGED contents
       \/ /\ work.pick \in alive
          /\ contents' = IF work.move
                          THEN [contents EXCEPT ![work.pick].spec = work.want]
                          ELSE contents
          /\ Synced(FALSE)
    /\ UNCHANGED <<snap, alive, shown, faults>>
    /\ Step

\* The content is read, by its name; a status that is to be moved is written
\* (the spec in the same request is not stored), and may conflict.
SyncStatus ==
    /\ work.pc = "sync"
    /\ LET Move == contents' = [contents EXCEPT ![work.pick].status = work.want] IN
       \/ /\ work.pick \notin shown.contents
          /\ Synced(TRUE)
          /\ UNCHANGED <<contents, faults>>
       \/ /\ work.pick \in shown.contents
          /\ ~work.move
          /\ Synced(FALSE)
          /\ UNCHANGED <<contents, faults>>
       \/ /\ work.pick \in shown.contents
          /\ work.move
          /\ \/ work.pick \in alive /\ Move /\ Synced(FALSE) /\ UNCHANGED faults
             \/ work.pick \in alive /\ Move /\ Synced(TRUE) /\ Disturb
             \/ work.pick \in alive /\ Synced(TRUE) /\ Disturb /\ UNCHANGED contents
             \/ work.pick \notin alive /\ Synced(TRUE) /\ UNCHANGED <<contents, faults>>
    /\ UNCHANGED <<snap, alive, shown>>
    /\ Step

-----------------------------------------------------------------------------
(* checkSnapshotStatus.                                                    *)

\* What n becomes in a signed integer of the timer's width.
Wrap(n) == ((n + Half) % (2 * Half)) - Half

\* Slip: what the user asks for is taken for a time in ticks.
DeadlineUnscaled(asked) == Wrap(IF asked = 0 THEN Default ELSE asked)

\* timeouts * 1000000000, with the default for none; a timer of a negative
\* time fires at once.
Deadline(asked) == Wrap((IF asked = 0 THEN Default ELSE asked) * Second)

\* Bound: Half, which no deadline exceeds.
Tick ==
    /\ work.pc = "wait"
    /\ work.waited < Half
    /\ work' = [work EXCEPT !.waited = @ + 1]
    /\ UNCHANGED <<world, faults>>
    /\ Step

\* processResponse returns, with an error if any was listed; a time-out is
\* none.
Finish ==
    /\ End(work.err)
    /\ IF work.err THEN Excuse ELSE UNCHANGED excuses
    /\ UNCHANGED <<world, watching, faults>>

\* The ticker comes with the first tick and asks the cache.
PollReady ==
    /\ work.pc = "wait"
    /\ work.waited > 0
    /\ shown.snap.status \in {"nil", "ready"}
    /\ Finish

TimeOut ==
    /\ work.pc = "wait"
    /\ work.waited >= Deadline(work.asked)
    /\ Finish

-----------------------------------------------------------------------------
(* The caches, the external snapshotter and the user.                      *)

Outside == UNCHANGED <<work, watching>>

ShowSnapshot ==
    /\ shown' = [shown EXCEPT !.snap = snap]
    /\ UNCHANGED <<snap, contents, alive, excuses, faults>>
    /\ Outside

ShowContents ==
    /\ shown' = [shown EXCEPT !.contents = alive]
    /\ UNCHANGED <<snap, contents, alive, excuses, faults>>
    /\ Outside

\* Bound and made ready, at once or after a status that is not ready, or that
\* holds only an error.
FillStatus ==
    /\ snap.here
    /\ snap.names \in alive
    /\ \E s \in {"broken", "unready", "ready"} :
          /\ snap.status # "nil" => s = "ready"
          /\ s # snap.status
          /\ snap' = [snap EXCEPT !.status = s]
    /\ UNCHANGED <<contents, alive, shown, excuses, faults>>
    /\ Outside

\* The snapshot goes, with its content or (policy Retain) without.
DeleteSnapshot ==
    /\ snap.here
    /\ Disturb
    /\ snap' = NoSnapshot
    /\ alive' \in {alive, alive \ {snap.names}}
    /\ Excuse
    /\ UNCHANGED <<contents, shown>>
    /\ Outside

DeleteContent(c) ==
    /\ c \in alive
    /\ Disturb
    /\ alive' = alive \ {c}
    /\ UNCHANGED <<snap, contents, shown, excuses>>
    /\ Outside

\* Somebody takes a snapshot of the claim under the very name.
TakeSnapshot ==
    /\ ~snap.here
    /\ Disturb
    /\ snap' = [NoSnapshot EXCEPT !.here = TRUE]
    /\ UNCHANGED <<contents, alive, shown, excuses>>
    /\ Outside

WorkerStep ==
    \/ Begin \/ Lookup \/ CreateContent \/ CreateSnapshot \/ Panic
    \/ CheckSnapshot \/ ListContents \/ SyncStatus
    \/ Tick \/ PollReady \/ TimeOut

CacheStep == ShowSnapshot \/ ShowContents

Next ==
    \/ WorkerStep \/ HandleSnapshot \/ CacheStep \/ FillStatus
    \/ Crash \/ DeleteSnapshot \/ TakeSnapshot
    \/ \E c \in Ids : DeleteContent(c)

Spec == Init /\ [][Next]_vars

-----------------------------------------------------------------------------
\* No content is lost sight of: each one that the snapshot does not name is in
\* the worker's hands, or somebody was told: an attempt has returned (or will
\* return) an error, the process died, or the snapshot was deleted.
InHands == IF work.pc = "snapshot" THEN {work.pick} ELSE {}
ToTell == IF work.err /\ work.pc # "idle" THEN 1 ELSE 0
OrphansAreTold == Cardinality(Orphans \ InHands) <= excuses + ToTell

\* The array snapshot that a content stands for.
StandsFor(c) == IF contents[c].status # 0 THEN contents[c].status ELSE contents[c].spec

\* A member dealt with and no error has the array snapshot of the response
\* behind the content that was picked; and as long as no attempt failed and
\* no snapshot was deleted, that is the content which the snapshot names.
MovesTheRightOne ==
    [][ work.pc = "sync" /\ work'.pc = "wait" /\ ~work'.err
          => /\ StandsFor(work.pick)' = work.want
             /\ excuses = 0 /\ snap.names # 0
                  => StandsFor(snap.names)' = work.want ]_vars

\* The wait for a snapshot that is not ready is not given up before the time
\* asked for has passed, unless the time overflows the timer.
Seconds == IF work.asked = 0 THEN Default ELSE work.asked
WaitsAsAsked ==
    [][ work.pc = "wait" /\ work'.pc = "idle" /\ shown.snap.status = "unready"
          /\ Seconds * Second < Half /\ watching'
          => work.waited >= Seconds * Second ]_vars

-----------------------------------------------------------------------------
(* Refinement.                                                             *)

Life == INSTANCE ContentLifecycle
          WITH Names <- Ids, Taken <- 1..MaxWant,
               spec <- [c \in Ids |-> contents[c].spec],
               status <- [c \in Ids |-> contents[c].status],
               stored <- alive

\* The contents keep the promise of ContentLifecycle, although they are found
\* by listing a cache that lags, and moved long after they were found.
ContentsLive == Life!Spec
=============================================================================
