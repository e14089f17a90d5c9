--------------------------- MODULE MemberObjects ---------------------------
(***************************************************************************)
(* The member VolumeSnapshots of the group, the VolumeSnapshotContents     *)
(* they name, and what the external snapshotter and the user do to them.   *)
(* None of that code is in the repository: it is modelled as the           *)
(* environment that the controller reads and waits for.                    *)
(***************************************************************************)
EXTENDS GroupObject

VARIABLES
    snap,      \* the status of the VolumeSnapshot of each name
    dying,     \* snapshots with a deletion timestamp
    content,   \* the content that each snapshot names
    orphans,   \* members with a content that no snapshot names
    seen,      \* the snapshots as the informer cache shows them
    events     \* members of whose content a delete event is not yet handled

memberVars == <<snap, dying, content, orphans, seen, events>>

\* "fresh" is a snapshot whose status is still nil.
SnapStates == {"absent", "fresh", "unready", "ready"}

\* The array snapshot of which group a content stands for: in its spec, and
\* in its status (the two differ when only the status has been updated).
Contents == [spec : 0..MaxGroups, status : 0..MaxGroups]
NoContent == [spec |-> 0, status |-> 0]
ContentOf(group) == [spec |-> group, status |-> group]

MemberTypeOK ==
    /\ snap \in [Members -> SnapStates]
    /\ dying \subseteq Members
    /\ content \in [Members -> Contents]
    /\ orphans \subseteq Members
    /\ seen \in [Members -> SnapStates]
    /\ events \subseteq Members

MemberInit ==
    /\ snap = [m \in Members |-> "absent"]
    /\ dying = {}
    /\ content = [m \in Members |-> NoContent]
    /\ orphans = {}
    /\ seen = snap
    /\ events = {}

\* r.Get of a snapshot: the cache may lag when the run says so.
Seen(m) == IF "memberlag" \in Disturbances THEN seen[m] ELSE snap[m]

SyncSnapshot(m) ==
    /\ "memberlag" \in Disturbances
    /\ seen[m] # snap[m]
    /\ seen' = [seen EXCEPT ![m] = snap[m]]
    /\ UNCHANGED <<snap, dying, content, orphans, events>>
    /\ UNCHANGED groupVars

-----------------------------------------------------------------------------
(* The external snapshotter.                                               *)

\* It binds a fresh snapshot to its content and fills in the status.
BindSnapshot(m) ==
    /\ snap[m] = "fresh"
    /\ m \notin dying
    /\ content[m] # NoContent
    /\ \E s \in {"unready", "ready"} : snap' = [snap EXCEPT ![m] = s]
    /\ UNCHANGED <<dying, content, orphans, seen, events>>
    /\ UNCHANGED groupVars

MakeReady(m) ==
    /\ snap[m] = "unready"
    /\ content[m] # NoContent
    /\ snap' = [snap EXCEPT ![m] = "ready"]
    /\ UNCHANGED <<dying, content, orphans, seen, events>>
    /\ UNCHANGED groupVars

\* The last finalizer of a deleted snapshot goes; a content that outlives it
\* (policy Retain, or simply later) is an orphan.
RemoveSnapshot(m) ==
    /\ m \in dying
    /\ snap' = [snap EXCEPT ![m] = "absent"]
    /\ dying' = dying \ {m}
    /\ orphans' = IF content[m] = NoContent THEN orphans ELSE orphans \cup {m}
    /\ content' = [content EXCEPT ![m] = NoContent]
    /\ UNCHANGED <<seen, events>>
    /\ UNCHANGED groupVars

\* A content goes, with its snapshot or because the user deletes it.
RemoveContent(m) ==
    /\ content[m] # NoContent
    /\ \/ m \in dying /\ UNCHANGED faults
       \/ m \notin dying /\ Disturb("members")
    /\ content' = [content EXCEPT ![m] = NoContent]
    /\ events' = events \cup {m}
    /\ UNCHANGED <<snap, dying, orphans, seen>>
    /\ UNCHANGED <<vg, copy, stale, queue, class, born>>

RemoveOrphan(m) ==
    /\ m \in orphans
    /\ orphans' = orphans \ {m}
    /\ events' = events \cup {m}
    /\ UNCHANGED <<snap, dying, content, seen>>
    /\ UNCHANGED groupVars

\* The user deletes a member snapshot.
DeleteSnapshot(m) ==
    /\ snap[m] # "absent"
    /\ m \notin dying
    /\ Disturb("members")
    /\ dying' = dying \cup {m}
    /\ UNCHANGED <<snap, content, orphans, seen, events>>
    /\ UNCHANGED <<vg, copy, stale, queue, class, born>>

MemberStep(m) ==
    \/ SyncSnapshot(m)
    \/ BindSnapshot(m) \/ MakeReady(m)
    \/ RemoveSnapshot(m) \/ RemoveContent(m) \/ RemoveOrphan(m)
    \/ DeleteSnapshot(m)
=============================================================================
