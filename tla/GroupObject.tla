---------------------------- MODULE GroupObject ----------------------------
(***************************************************************************)
(* The DellCsiVolumeGroupSnapshot object (called the group, "vg" in the    *)
(* code) as the API server stores it, the copies of it that the controller *)
(* process holds, and the work queue that its watch events feed.           *)
(*                                                                         *)
(* The process never reads the stored object: the manager's client reads   *)
(* an informer cache, and the worker and the watch handler each fetch a    *)
(* copy from that cache.  "stale" is the set of copies whose               *)
(* resourceVersion is no longer the stored one; the API server refuses     *)
(* (Conflict) or does not find (NotFound) what such a copy writes.         *)
(*                                                                         *)
(* One namespaced name is modelled, so at most one object exists at a      *)
(* time; an object re-created under the name has another uid.              *)
(***************************************************************************)
EXTENDS Naturals, FiniteSets

CONSTANTS
    Members,       \* names of the member VolumeSnapshots of the group
    Selectors,     \* selectors a user may create a group with
    Classes,       \* states the VolumeSnapshotClass may be in
    MaxUID,        \* bound: objects ever created under the name
    MaxGroups,     \* bound: snapshot groups the array can hold
    MaxFaults,     \* bound: disturbances in one behaviour
    Disturbances   \* kinds of disturbance a run lets happen

ASSUME BoundsAssumption ==
    /\ MaxUID \in Nat \ {0}
    /\ MaxGroups \in Nat \ {0}
    /\ MaxFaults \in Nat

ASSUME ChoicesAssumption ==
    /\ Selectors \subseteq {"one", "both"}
    /\ Classes \subseteq {"Delete", "Retain", "Foreign", "Missing"}
    /\ Disturbances \subseteq
         {"api", "reply", "touch", "class", "members", "memberlag",
          "driver", "pvc", "crash", "tombstone", "relist"}

VARIABLES
    vg,       \* the stored object, NoGroup when there is none
    copy,     \* what the cache, the worker and the handler hold of it
    stale,    \* copies whose resourceVersion is not the stored one
    queue,    \* the key's places in the rate limited work queue
    class,    \* the VolumeSnapshotClass the group names
    born,     \* uids given so far
    faults    \* disturbances that may still happen

groupVars == <<vg, copy, stale, queue, class, born, faults>>

Copies == {"cache", "worker", "handler"}
Phases == {"", "Pending", "Error", "Complete"}

\* uid 0 is no object, gid 0 the empty SnapshotGroupID; listed is the set of
\* names in Status.Snapshots, selector tells whether both ways of naming the
\* source volumes are given.
Groups == [uid : 0..MaxUID, selector : {"one", "both"}, finalizer : BOOLEAN,
           deleting : BOOLEAN, phase : Phases, gid : 0..MaxGroups,
           listed : SUBSET Members]

NoGroup == [uid |-> 0, selector |-> "one", finalizer |-> FALSE,
            deleting |-> FALSE, phase |-> "", gid |-> 0, listed |-> {}]

GroupTypeOK ==
    /\ vg \in Groups
    /\ copy \in [Copies -> Groups]
    /\ stale \subseteq Copies
    /\ queue \subseteq {"ready", "delayed"}
    /\ class \in {"Delete", "Retain", "Foreign", "Missing"}
    /\ born \in 0..MaxUID
    /\ faults \in 0..MaxFaults

GroupInit ==
    /\ vg = NoGroup
    /\ copy = [c \in Copies |-> NoGroup]
    /\ stale = {}
    /\ queue = {}
    /\ class \in Classes
    /\ born = 0
    /\ faults = MaxFaults

-----------------------------------------------------------------------------
(* Disturbances: what may go wrong at most MaxFaults times.                *)

Disturb(kind) ==
    /\ kind \in Disturbances
    /\ faults > 0
    /\ faults' = faults - 1

-----------------------------------------------------------------------------
(* The API server and the client library, as the controller uses them.     *)

\* Copies that a change of the stored object leaves behind.
Holders == {c \in Copies : c = "cache" \/ copy[c] # NoGroup}

StaleAfter(new) == IF new = vg THEN stale ELSE Holders

\* Slip: the copy is written without its resourceVersion.
FetchUnversioned(c) ==
    /\ copy' = [copy EXCEPT ![c] = copy["cache"]]
    /\ stale' = stale \ {c}

\* r.Get: the cached object, as old as the cache is.
Fetch(c) ==
    /\ copy' = [copy EXCEPT ![c] = copy["cache"]]
    /\ stale' = IF "cache" \in stale THEN stale \cup {c} ELSE stale \ {c}

\* The caller returns and its copy is garbage.
Drop(c) ==
    /\ copy' = [copy EXCEPT ![c] = NoGroup]
    /\ stale' = stale \ {c}

\* Update or Status().Update from an up-to-date copy stores "new"; the caller
\* goes on with what the server returned, or returns itself (~keep).  A write
\* that changes nothing keeps the resourceVersion.
Write(c, new, keep) ==
    /\ c \notin stale
    /\ vg' = new
    /\ copy' = [copy EXCEPT ![c] = IF keep THEN new ELSE NoGroup]
    /\ stale' = StaleAfter(new) \ {c}
    /\ UNCHANGED faults

\* The same call returning an error: a conflict, a request that the server
\* did not execute, or one whose reply was lost.
WriteFails(c, new, keep) ==
    LET gone == IF keep THEN {} ELSE {c} IN
    /\ copy' = IF keep THEN copy ELSE [copy EXCEPT ![c] = NoGroup]
    /\ \/ /\ c \in stale
          /\ stale' = stale \ gone
          /\ UNCHANGED <<vg, faults>>
       \/ /\ c \notin stale
          /\ Disturb("api")
          /\ UNCHANGED <<vg, stale>>
       \/ /\ c \notin stale
          /\ Disturb("reply")
          /\ vg' = new
          /\ stale' = StaleAfter(new) \ gone

\* What a delete request makes of an object: one with a finalizer stays.
Deleted(g) == IF g.finalizer THEN [g EXCEPT !.deleting = TRUE] ELSE NoGroup

\* The generation counts changes of the spec and of the deletionTimestamp.
SameGeneration(old, new) ==
    old.selector = new.selector /\ old.deleting = new.deleting

\* What ignoreUpdatePredicate lets through: creation and deletion, and an
\* update that changed the generation.
Reconcilable(old, new) == old.uid # new.uid \/ ~SameGeneration(old, new)

\* After its watch has broken, the informer lists the objects again: one that
\* took the name of another is an update of it, and both may have the same
\* generation.
RelistedAsUpdate(old, new) ==
    /\ old # NoGroup
    /\ new # NoGroup
    /\ SameGeneration(old, new)
    /\ Disturb("relist")

\* The informer catches up with the store and enqueues what the predicate
\* does not ignore.
SyncCache ==
    /\ "cache" \in stale
    /\ copy' = [copy EXCEPT !["cache"] = vg]
    /\ stale' = stale \ {"cache"}
    /\ \/ /\ queue' = IF Reconcilable(copy["cache"], vg)
                      THEN queue \cup {"ready"} ELSE queue
          /\ UNCHANGED faults
       \/ RelistedAsUpdate(copy["cache"], vg) /\ UNCHANGED queue
    /\ UNCHANGED <<vg, class, born>>

\* The exponential back-off of a failed reconcile ends.
BackoffExpires ==
    /\ "delayed" \in queue
    /\ queue' = {"ready"}
    /\ UNCHANGED <<vg, copy, stale, class, born, faults>>

-----------------------------------------------------------------------------
(* The user.                                                               *)

CreateGroup ==
    /\ vg = NoGroup
    /\ born < MaxUID
    /\ \E s \in Selectors :
          vg' = [NoGroup EXCEPT !.uid = born + 1, !.selector = s]
    /\ born' = born + 1
    /\ stale' = Holders
    /\ UNCHANGED <<copy, queue, class, faults>>

DeleteGroup ==
    /\ vg # NoGroup
    /\ ~vg.deleting
    /\ vg' = Deleted(vg)
    /\ stale' = Holders
    /\ UNCHANGED <<copy, queue, class, born, faults>>

FixSelector ==
    /\ vg.selector = "both"
    /\ vg' = [vg EXCEPT !.selector = "one"]
    /\ stale' = Holders
    /\ UNCHANGED <<copy, queue, class, born, faults>>

\* Any other edit of the object, such as an annotation: only the
\* resourceVersion changes.
TouchGroup ==
    /\ vg # NoGroup
    /\ Disturb("touch")
    /\ stale' = Holders
    /\ UNCHANGED <<vg, copy, queue, class, born>>

\* The administrator deletes or replaces the class; one that is missing may
\* be created at any time.
ChangeClass ==
    /\ class' \in Classes \ {class}
    /\ \/ class = "Missing" /\ UNCHANGED faults
       \/ class # "Missing" /\ Disturb("class")
    /\ UNCHANGED <<vg, copy, stale, queue, born>>

UserStep ==
    CreateGroup \/ DeleteGroup \/ FixSelector \/ TouchGroup \/ ChangeClass
=============================================================================
