-------------------------- MODULE VolumeSelection --------------------------
(***************************************************************************)
(* getSourceVolIDsFromPvcName, -FromLabel and -FromNs, and the loop of     *)
(* mapVolIDToPvcName that turns the claims they find into the volumes to   *)
(* snapshot.  Claims are read first, each claim's volume later, when it    *)
(* may have changed.                                                       *)
(***************************************************************************)
EXTENDS Naturals, Sequences, FiniteSets

CONSTANTS
    Claims,       \* claims that may exist in the namespace
    Tokens,       \* the parts that volume handles split into
    Handles,      \* volume handles, as sequences of parts
    Requests,     \* lists of claim names a group may be created with
    MaxChanges    \* bound: volumes that change while the loop runs

ASSUME ClaimsAssumption == IsFiniteSet(Claims)
ASSUME HandlesAssumption == Handles \subseteq {h \in Seq(Tokens) : Len(h) > 0}
ASSUME RequestsAssumption == Requests \subseteq Seq(Claims)
ASSUME ChangesAssumption == MaxChanges \in Nat

VARIABLES
    claim,      \* phase of each claim, "absent" if there is none
    pv,         \* the volume that each claim names
    asked,      \* PvcList, shrinking as the loop reads it
    items,      \* the claims found: what the loop goes over
    at,         \* position of the loop
    system,     \* systemID
    volumes,    \* srcVolIDs, each by the claim it belongs to
    result,     \* "" until the functions return
    changes     \* volumes changed so far

vars == <<claim, pv, asked, items, at, system, volumes, result, changes>>

Phases == {"Bound", "Pending", "Lost"}

\* "missing" is also what a claim with an empty VolumeName gets; "nocsi" is a
\* volume of another kind than CSI.
Volumes == [state : {"bound", "released", "missing", "nocsi"},
            driver : {"powerstore", "other"}, handle : Handles]

Items == [name : Claims, phase : Phases]

TypeOK ==
    /\ claim \in [Claims -> Phases \cup {"absent"}]
    /\ pv \in [Claims -> Volumes]
    /\ asked \in Seq(Claims)
    /\ items \in Seq(Items)
    /\ at \in Nat \ {0}
    /\ system \in Tokens \cup {""}
    /\ volumes \in Seq(Claims)
    /\ result \in {"", "listing", "mapping", "ok", "error", "panic"}
    /\ changes \in 0..MaxChanges

Init ==
    /\ claim \in [Claims -> Phases \cup {"absent"}]
    /\ pv \in [Claims -> Volumes]
    /\ asked \in Requests \cup {<<>>}
    /\ items = <<>>
    /\ at = 1
    /\ system = ""
    /\ volumes = <<>>
    /\ result = ""
    /\ changes = 0

-----------------------------------------------------------------------------
ItemOf(c) == [name |-> c, phase |-> claim[c]]

\* Slip: the claims of the list are not checked to exist.
AllThere(candidates) == candidates

\* Slip: duplicates are not looked for.
AllNew(c) == FALSE

Duplicate(c) == \E i \in 1..Len(items) : items[i].name = c

\* A list from the cache comes in no particular order.
Orderings(S) ==
    {f \in [1..Cardinality(S) -> S] : \A i, j \in DOMAIN f : f[i] = f[j] => i = j}

Return(r) == result' = r

Cluster == <<claim, pv, changes>>

\* PvcList: one Get for each name; a duplicate is passed over, a claim that
\* does not exist is an error.
StartNames ==
    /\ result = ""
    /\ asked # <<>>
    /\ Return("listing")
    /\ UNCHANGED <<asked, items, at, system, volumes>>
    /\ UNCHANGED Cluster

ReadName ==
    /\ result = "listing"
    /\ asked # <<>>
    /\ LET c == Head(asked) IN
       \/ /\ Duplicate(c)
          /\ UNCHANGED <<items, result>>
       \/ /\ ~Duplicate(c)
          /\ claim[c] # "absent"
          /\ items' = Append(items, ItemOf(c))
          /\ UNCHANGED result
       \/ /\ ~Duplicate(c)
          /\ claim[c] = "absent"
          /\ Return("error")
          /\ UNCHANGED items
    /\ asked' = Tail(asked)
    /\ UNCHANGED <<at, system, volumes>>
    /\ UNCHANGED Cluster

EndNames ==
    /\ result = "listing"
    /\ asked = <<>>
    /\ Return("mapping")
    /\ UNCHANGED <<asked, items, at, system, volumes>>
    /\ UNCHANGED Cluster

Existing(candidates) == {c \in candidates : claim[c] # "absent"}

\* A label, or neither: the claims that have it, whichever they are, or all
\* those of the namespace; to find none is an error.
ListClaims ==
    /\ result = ""
    /\ asked = <<>>
    /\ \E candidates \in SUBSET Claims :
          LET found == Existing(candidates) IN
          \/ /\ found = {}
             /\ Return("error")
             /\ UNCHANGED items
          \/ /\ found # {}
             /\ Return("mapping")
             /\ \E order \in Orderings(found) :
                   items' = [i \in 1..Cardinality(found) |-> ItemOf(order[i])]
    /\ UNCHANGED <<asked, at, system, volumes>>
    /\ UNCHANGED Cluster

-----------------------------------------------------------------------------
\* parseVolumeHandle: the array's part of a handle, "" if it has none.
ArrayOf(c) ==
    LET h == pv[c].handle IN
    IF pv[c].driver = "powerstore"
    THEN IF Len(h) >= 2 THEN h[2] ELSE ""
    ELSE h[1]

Mapping == result = "mapping" /\ at <= Len(items)
Current == items[at].name

\* The volume is not found, or is not a CSI volume.
MissVolume ==
    /\ Mapping
    /\ \/ pv[Current].state = "missing" /\ Return("error")
       \/ pv[Current].state = "nocsi" /\ Return("panic")
    /\ UNCHANGED <<asked, items, at, system, volumes>>
    /\ UNCHANGED Cluster

Skippable == items[at].phase # "Bound" \/ pv[Current].state = "released"

\* Slip: a claim or volume that is not bound ends the selection.
RefuseUnbound ==
    /\ Mapping
    /\ pv[Current].state \in {"bound", "released"}
    /\ Skippable
    /\ Return("error")
    /\ UNCHANGED <<asked, items, at, system, volumes>>
    /\ UNCHANGED Cluster

\* A claim or volume that is not bound is passed over.
SkipClaim ==
    /\ Mapping
    /\ pv[Current].state \in {"bound", "released"}
    /\ Skippable
    /\ at' = at + 1
    /\ UNCHANGED <<asked, items, system, volumes, result>>
    /\ UNCHANGED Cluster

\* Slip: an empty array id is taken for one not yet set.
FirstKnown == IF system = "" THEN ArrayOf(Current) ELSE system

\* systemID is taken from the first claim of the list, and only from it.
SystemID == IF at = 1 THEN ArrayOf(Current) ELSE system

TakeVolume ==
    /\ Mapping
    /\ pv[Current].state \in {"bound", "released"}
    /\ ~Skippable
    /\ LET first == SystemID IN
          /\ system' = first
          /\ \/ /\ ArrayOf(Current) = first
                /\ volumes' = Append(volumes, Current)
                /\ at' = at + 1
                /\ UNCHANGED result
             \/ /\ ArrayOf(Current) # first
                /\ Return("error")
                /\ UNCHANGED <<volumes, at>>
    /\ UNCHANGED <<asked, items>>
    /\ UNCHANGED Cluster

\* Slip: the loop ends before the last claim.
EndMappingEarly ==
    /\ result = "mapping"
    /\ at >= Len(items)
    /\ Return(IF volumes = <<>> THEN "error" ELSE "ok")
    /\ UNCHANGED <<asked, items, at, system, volumes>>
    /\ UNCHANGED Cluster

EndMapping ==
    /\ result = "mapping"
    /\ at > Len(items)
    /\ Return(IF volumes = <<>> THEN "error" ELSE "ok")
    /\ UNCHANGED <<asked, items, at, system, volumes>>
    /\ UNCHANGED Cluster

\* Meanwhile a volume is released or deleted.
ChangeVolume(c) ==
    /\ changes < MaxChanges
    /\ \E s \in {"released", "missing"} : pv' = [pv EXCEPT ![c].state = s]
    /\ changes' = changes + 1
    /\ UNCHANGED <<claim, asked, items, at, system, volumes, result>>

Next ==
    \/ StartNames \/ ReadName \/ EndNames \/ ListClaims
    \/ MissVolume \/ SkipClaim \/ TakeVolume \/ EndMapping
    \/ \E c \in Claims : ChangeVolume(c)

Spec == Init /\ [][Next]_vars

-----------------------------------------------------------------------------
\* The volumes handed to the driver are all of one array, however the loop
\* met claims to skip and whatever changed while it ran.
OneArray ==
    \A i, j \in 1..Len(volumes) : ArrayOf(volumes[i]) = ArrayOf(volumes[j])

\* No volume is handed to the driver twice, although a user may name a claim
\* twice: each would get a snapshot, and both the same VolumeSnapshot name.
EachOnce ==
    \A i, j \in 1..Len(volumes) : volumes[i] = volumes[j] => i = j

\* A successful selection misses none of the claims it found that were bound,
\* with a bound volume, all along.
NothingMissed ==
    result = "ok" =>
      \A i \in 1..Len(items) :
         items[i].phase = "Bound" /\ pv[items[i].name].state = "bound"
           => \E j \in 1..Len(volumes) : volumes[j] = items[i].name

Usable == {i \in 1..Len(items) : items[i].phase = "Bound"
                                   /\ pv[items[i].name].state = "bound"}
Taken == {i \in 1..Len(items) : \E j \in 1..Len(volumes) :
                                  volumes[j] = items[i].name}

\* "skip this pvc with matching label": a claim that is to be skipped makes
\* the selection fail only if it is the first, or if none is usable.  The
\* first one leaves systemID empty, and the next usable claim is then
\* compared with that.  Any other refusal has a volume that is not found, or
\* volumes of two arrays.
RefusedForAReason ==
    [][ result = "mapping" /\ result' = "error"
          => \/ Taken \cup Usable = {}
             \/ at <= Len(items) /\ pv[Current].state = "missing"
             \/ \E i, j \in Taken \cup Usable :
                   ArrayOf(items[i].name) # ArrayOf(items[j].name)
             \/ at > 1 /\ 1 \notin Taken /\ system = "" ]_vars
=============================================================================
