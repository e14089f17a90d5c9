-------------------------- MODULE ContentLifecycle --------------------------
(***************************************************************************)
(* What the contents of one member live through, whoever makes them and    *)
(* however often it is tried again.  A content is made for one array       *)
(* snapshot, which its spec never forgets; its status may be moved to a    *)
(* later one, never back, and only while it is stored; a content that is   *)
(* gone stays away.  Array snapshots are numbered in the order in which    *)
(* the groups they belong to are asked for.                                *)
(***************************************************************************)
EXTENDS Naturals

CONSTANTS
    Names,     \* names of contents
    Taken      \* the array snapshots, positive numbers

VARIABLES spec, status, stored

contentVars == <<spec, status, stored>>

Init ==
    /\ spec = [n \in Names |-> 0]
    /\ status = [n \in Names |-> 0]
    /\ stored = {}

Make(n) ==
    /\ spec[n] = 0
    /\ \E a \in Taken : spec' = [spec EXCEPT ![n] = a]
    /\ stored' = stored \cup {n}
    /\ UNCHANGED status

Move(n) ==
    /\ n \in stored
    /\ \E a \in Taken :
          /\ a > spec[n]
          /\ a > status[n]
          /\ status' = [status EXCEPT ![n] = a]
    /\ UNCHANGED <<spec, stored>>

Remove(n) ==
    /\ n \in stored
    /\ stored' = stored \ {n}
    /\ UNCHANGED <<spec, status>>

Next == \E n \in Names : Make(n) \/ Move(n) \/ Remove(n)

Spec == Init /\ [][Next]_contentVars
=============================================================================
