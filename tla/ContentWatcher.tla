--------------------------- MODULE ContentWatcher ---------------------------
(***************************************************************************)
(* HandleSnapContentDelete, which the VolumeSnapshotContent informer runs   *)
(* in a goroutine of its own, one deletion at a time: it strikes the       *)
(* content's snapshot off the group's list and deletes a group whose list  *)
(* becomes empty.                                                          *)
(***************************************************************************)
EXTENDS GroupReconciler

VARIABLE watch    \* the handler: where it is, and the member struck off

Asleep == [pc |-> "idle", member |-> NoMember]

WatchTypeOK ==
    watch \in [pc : {"idle", "save", "delete"}, member : Members \cup {NoMember}]

WatchInit == watch = Asleep

\* The snapshot that the content names is looked up first, for its label; a
\* missing snapshot or group ends the handler.
HandleContentDelete(m) ==
    /\ watch.pc = "idle"
    /\ m \in events
    /\ events' = events \ {m}
    /\ IF Absent(m) \/ cached = NoGroup
       THEN UNCHANGED <<watch, copy, stale>>
       ELSE /\ Fetch("handler")
            /\ watch' = [pc |-> "save", member |-> m]
    /\ UNCHANGED <<vg, queue, class, born, faults>>
    /\ UNCHANGED <<snap, dying, content, orphans, seen>>
    /\ UNCHANGED workerVars

\* An informer that missed the deletion delivers a tombstone, which the
\* handler does not recognise.
DropTombstone(m) ==
    /\ watch.pc = "idle"
    /\ m \in events
    /\ Disturb("tombstone")
    /\ events' = events \ {m}
    /\ UNCHANGED <<vg, copy, stale, queue, class, born, watch>>
    /\ UNCHANGED <<snap, dying, content, orphans, seen>>
    /\ UNCHANGED workerVars

\* An error of the write is only logged: whether the list is empty is
\* decided on the local copy.
StrikeOff ==
    LET left == copy["handler"].listed \ {watch.member}
        new == [copy["handler"] EXCEPT !.listed = left]
    IN /\ watch.pc = "save"
       /\ Write("handler", new, FALSE) \/ WriteFails("handler", new, FALSE)
       /\ watch' = IF left = {} THEN [Asleep EXCEPT !.pc = "delete"] ELSE Asleep
       /\ UNCHANGED <<queue, class, born>>
       /\ UNCHANGED memberVars
       /\ UNCHANGED workerVars

\* r.Delete goes by name: neither the uid nor the resourceVersion is sent.
DeleteEmptyGroup ==
    /\ watch.pc = "delete"
    /\ watch' = Asleep
    /\ \/ /\ vg' = Deleted(vg)
          /\ stale' = StaleAfter(Deleted(vg))
          /\ UNCHANGED faults
       \/ Disturb("api") /\ UNCHANGED <<vg, stale>>
    /\ UNCHANGED <<copy, queue, class, born>>
    /\ UNCHANGED memberVars
    /\ UNCHANGED workerVars

WatchStep ==
    \/ \E m \in Members : HandleContentDelete(m) \/ DropTombstone(m)
    \/ StrikeOff \/ DeleteEmptyGroup
=============================================================================
