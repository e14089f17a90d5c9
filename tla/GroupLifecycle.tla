--------------------------- MODULE GroupLifecycle ---------------------------
(***************************************************************************)
(* What the controller promises a user who watches one group object and    *)
(* knows nothing of caches, workers, retries and restarts: the stages of   *)
(* its life, and what may change at each.  GroupSystem implements it.      *)
(***************************************************************************)
EXTENDS Naturals

CONSTANTS
    Members,    \* names of snapshots
    Ids         \* ids of array groups, 0 for none

VARIABLES
    uid,        \* the object, 0 when there is none
    used,       \* objects so far
    stage,      \* "", "Pending", "Error" or "Complete"
    held,       \* it does not go before its snapshots do
    leaving,    \* the user wants it gone
    group,      \* its array group
    list        \* its snapshots

life == <<uid, used, stage, held, leaving, group, list>>

Init ==
    /\ uid = 0
    /\ used = 0
    /\ stage = ""
    /\ held = FALSE
    /\ leaving = FALSE
    /\ group = 0
    /\ list = {}

Request ==
    /\ uid = 0
    /\ uid' = used + 1
    /\ used' = used + 1
    /\ UNCHANGED <<stage, held, leaving, group, list>>

\* The controller works on an object only until it is Complete or leaving.
Working == uid # 0 /\ stage # "Complete" /\ ~leaving

Begin ==
    /\ Working
    /\ stage' = "Pending"
    /\ UNCHANGED <<uid, used, held, leaving, group, list>>

Fail ==
    /\ Working
    /\ stage' = "Error"
    /\ UNCHANGED <<uid, used, held, leaving, group, list>>

Hold ==
    /\ Working
    /\ held' = TRUE
    /\ UNCHANGED <<uid, used, stage, leaving, group, list>>

\* An attempt ends: array group and snapshots become known together, once the
\* object is held, and the group only if there was none before.
Finish ==
    /\ Working
    /\ held
    /\ stage' \in {"Complete", "Error"}
    /\ group' \in (IF group = 0 THEN Ids \ {0} ELSE {group})
    /\ list' \in SUBSET Members
    /\ UNCHANGED <<uid, used, held, leaving>>

\* The content of a snapshot is gone, at whatever stage.
Strike ==
    /\ \E m \in list : list' = list \ {m}
    /\ UNCHANGED <<uid, used, stage, held, leaving, group>>

Leave ==
    /\ uid # 0
    /\ held
    /\ leaving' = TRUE
    /\ UNCHANGED <<uid, used, stage, held, group, list>>

\* What is held goes only when Complete and on request.
Go ==
    /\ uid # 0
    /\ held => leaving /\ stage = "Complete"
    /\ uid' = 0
    /\ stage' = ""
    /\ held' = FALSE
    /\ leaving' = FALSE
    /\ group' = 0
    /\ list' = {}
    /\ UNCHANGED used

Next ==
    Request \/ Begin \/ Fail \/ Hold \/ Finish \/ Strike \/ Leave \/ Go

Spec == Init /\ [][Next]_life
=============================================================================
