----------------------- MODULE VolumeSelectionProofs -----------------------
(***************************************************************************)
(* Proofs about VolumeSelection, for any number of claims, any handles and *)
(* requests and any number of volumes that change meanwhile.  The loop     *)
(* invariant says what the volumes taken so far have to do with the items  *)
(* passed so far.                                                          *)
(***************************************************************************)
EXTENDS VolumeSelection, FiniteSetTheorems, TLAPS

\* Before the loop nothing is taken, and it ends behind the last item.
PlaceInv ==
    /\ result \in {"", "listing"} => at = 1 /\ volumes = <<>>
    /\ at = 1 => volumes = <<>>
    /\ result = "ok" => at > Len(items)

ArrayInv == \A i \in 1..Len(volumes) : ArrayOf(volumes[i]) = system

\* The items are of different claims, and volumes are of items passed.
DistinctInv ==
    /\ \A i, j \in 1..Len(items) : items[i].name = items[j].name => i = j
    /\ \A i \in 1..Len(volumes) :
          \E k \in 1..Len(items) : k < at /\ volumes[i] = items[k].name
    /\ EachOnce

PassedInv ==
    \A k \in 1..Len(items) :
       k < at /\ items[k].phase = "Bound" /\ pv[items[k].name].state = "bound"
         => \E j \in 1..Len(volumes) : volumes[j] = items[k].name

LoopInv == TypeOK /\ PlaceInv /\ ArrayInv /\ DistinctInv /\ PassedInv

-----------------------------------------------------------------------------
\* The empty sequence, of any elements, has no positions.
LEMMA EmptyIsSeq ==
    /\ \A S : <<>> \in Seq(S)
    /\ Len(<<>>) = 0 /\ 1..Len(<<>>) = {}
OBVIOUS

\* Lengths are natural numbers.
LEMMA LenIsNat == \A S : \A s \in Seq(S) : Len(s) \in Nat
OBVIOUS

\* No position comes before the first.
LEMMA BeforeFirst == \A n \in Nat : \A k \in 1..n : ~(k < 1)
OBVIOUS

\* The positions before the next one are those before this one, and this one.
LEMMA NextPlace ==
    \A n \in Nat \ {0} :
       /\ n + 1 # 1 /\ n + 1 \in Nat \ {0}
       /\ \A m \in Nat : \A k \in 1..m : k < n + 1 <=> k < n \/ k = n
OBVIOUS

\* An element of a sequence is of the set the sequence is over.
LEMMA ElementInSeq ==
    ASSUME NEW S, NEW s \in Seq(S), NEW i \in 1..Len(s)
    PROVE  s[i] \in S
OBVIOUS

\* The array's part of a handle is one of the handle's parts, or empty.
LEMMA ArrayIsToken ==
    ASSUME TypeOK, NEW c \in Claims
    PROVE  ArrayOf(c) \in Tokens \cup {""}
<1>1. pv[c].handle \in Seq(Tokens) /\ Len(pv[c].handle) > 0
  BY HandlesAssumption DEF TypeOK, Volumes
<1>2. 1 \in 1..Len(pv[c].handle)
  BY <1>1
<1>3. Len(pv[c].handle) >= 2 => 2 \in 1..Len(pv[c].handle)
  BY <1>1
<1>4. /\ pv[c].handle[1] \in Tokens
      /\ Len(pv[c].handle) >= 2 => pv[c].handle[2] \in Tokens
  BY <1>1, <1>2, <1>3, ElementInSeq
<1> QED  BY <1>4 DEF ArrayOf

\* The initial states satisfy the loop invariant.
LEMMA LoopInit == Init => LoopInv
<1> SUFFICES ASSUME Init PROVE LoopInv
  OBVIOUS
<1>1. /\ claim \in [Claims -> Phases \cup {"absent"}] /\ pv \in [Claims -> Volumes]
      /\ asked \in Requests \cup {<<>>} /\ items = <<>> /\ volumes = <<>>
      /\ at = 1 /\ system = "" /\ result = "" /\ changes = 0
  BY DEF Init
<1>2. TypeOK
  <2>1. asked \in Seq(Claims) /\ items \in Seq(Items) /\ volumes \in Seq(Claims)
    BY <1>1, RequestsAssumption, EmptyIsSeq
  <2>2. 0 \in 0..MaxChanges
    BY ChangesAssumption
  <2>3. 1 \in Nat \ {0}
    OBVIOUS
  <2> QED  BY <1>1, <2>1, <2>2, <2>3 DEF TypeOK
<1>3. 1..Len(items) = {} /\ 1..Len(volumes) = {}
  BY <1>1, EmptyIsSeq
<1>4. ArrayInv /\ DistinctInv /\ PassedInv
  BY <1>3 DEF ArrayInv, DistinctInv, PassedInv, EachOnce
<1> QED  BY <1>1, <1>2, <1>4 DEF LoopInv, PlaceInv

-----------------------------------------------------------------------------
(* Finding the claims.                                                     *)

\* While claims are listed the loop has not begun.
LEMMA ListingInv ==
    ASSUME LoopInv, TypeOK', result \in {"", "listing"},
           UNCHANGED <<at, system, volumes, claim, pv, changes>>,
           result' # "ok",
           \A i, j \in 1..Len(items') : items'[i].name = items'[j].name => i = j
    PROVE  LoopInv'
<1>1. at = 1 /\ volumes = <<>>
  BY DEF LoopInv, PlaceInv
<1>2. 1..Len(volumes') = {} /\ at' = 1
  BY <1>1, EmptyIsSeq
<1>3. \A k \in 1..Len(items') : ~(k < at')
  <2>1. items' \in Seq(Items)
    BY DEF TypeOK
  <2> QED  BY <1>2, <2>1, LenIsNat, BeforeFirst
<1>4. PlaceInv'
  BY <1>1 DEF PlaceInv
<1>5. ArrayInv' /\ DistinctInv' /\ PassedInv'
  BY <1>2, <1>3 DEF ArrayInv, DistinctInv, PassedInv, EachOnce
<1> QED  BY <1>4, <1>5 DEF LoopInv

\* Reading one name of the list keeps the loop invariant: a name already read
\* adds no item.
LEMMA ReadNameInv ==
    ASSUME LoopInv, ReadName
    PROVE  LoopInv'
<1>1. /\ asked \in Seq(Claims) /\ asked # <<>> /\ items \in Seq(Items)
      /\ result = "listing" /\ TypeOK
      /\ \A i, j \in 1..Len(items) : items[i].name = items[j].name => i = j
  BY DEF ReadName, LoopInv, TypeOK, DistinctInv
<1>2. Head(asked) \in Claims /\ Tail(asked) \in Seq(Claims)
  BY <1>1
<1>3. CASE UNCHANGED items
  <2>1. TypeOK'
    BY <1>1, <1>2, <1>3 DEF ReadName, Cluster, Return, TypeOK
  <2> QED
    BY <1>1, <1>3, <2>1, ListingInv DEF ReadName, Cluster, Return
<1>4. CASE /\ ~Duplicate(Head(asked)) /\ claim[Head(asked)] # "absent"
           /\ items' = Append(items, ItemOf(Head(asked))) /\ UNCHANGED result
  <2>1. ItemOf(Head(asked)) \in Items /\ ItemOf(Head(asked)).name = Head(asked)
    BY <1>1, <1>2, <1>4 DEF ItemOf, Items, TypeOK
  <2>2. items' \in Seq(Items)
    BY <1>1, <1>4, <2>1
  <2>3. TypeOK'
    BY <1>1, <1>2, <1>4, <2>2 DEF ReadName, Cluster, TypeOK
  <2>4. \A i, j \in 1..Len(items') : items'[i].name = items'[j].name => i = j
    <3> DEFINE new == ItemOf(Head(asked))
    <3>1. /\ Len(items') = Len(items) + 1 /\ Len(items) \in Nat
          /\ \A i \in 1..Len(items) : items'[i] = items[i]
          /\ items'[Len(items) + 1] = new
      BY <1>1, <1>4, <2>1
    <3>2. \A i \in 1..Len(items) : items[i].name # new.name
      BY <1>4, <2>1 DEF Duplicate
    <3> HIDE DEF new
    <3> QED  BY <1>1, <3>1, <3>2
  <2> QED  BY <1>1, <1>4, <2>3, <2>4, ListingInv DEF ReadName, Cluster
<1> QED  BY <1>3, <1>4 DEF ReadName

\* Listing the claims keeps the loop invariant: each claim is one item.
LEMMA ListClaimsInv ==
    ASSUME LoopInv, ListClaims
    PROVE  LoopInv'
<1>1. TypeOK /\ result = ""
  BY DEF LoopInv, ListClaims
<1>2. CASE UNCHANGED items
  <2>1. TypeOK'
    BY <1>1, <1>2 DEF ListClaims, Cluster, Return, TypeOK
  <2>2. \A i, j \in 1..Len(items') : items'[i].name = items'[j].name => i = j
    BY <1>2 DEF LoopInv, DistinctInv
  <2> QED  BY <1>1, <2>1, <2>2, ListingInv DEF ListClaims, Cluster, Return
<1>3. ASSUME NEW candidates \in SUBSET Claims,
             NEW order \in Orderings(Existing(candidates)),
             Return("mapping"),
             items' = [i \in 1..Cardinality(Existing(candidates)) |-> ItemOf(order[i])]
      PROVE  LoopInv'
  <2> DEFINE found == Existing(candidates)
             n == Cardinality(found)
  <2>1. found \subseteq Claims /\ \A c \in found : claim[c] # "absent"
    BY DEF Existing
  <2>2. n \in Nat
    BY <2>1, ClaimsAssumption, FS_Subset, FS_CardinalityType
  <2>3. /\ order \in [1..n -> found]
        /\ \A i, j \in 1..n : order[i] = order[j] => i = j
    BY <1>3 DEF Orderings
  <2>4. \A i \in 1..n : ItemOf(order[i]) \in Items /\ ItemOf(order[i]).name = order[i]
    BY <1>1, <2>1, <2>3 DEF ItemOf, Items, TypeOK
  <2> HIDE DEF found, n
  <2>5. items' = [i \in 1..n |-> ItemOf(order[i])]
    BY <1>3 DEF n, found
  <2>6. items' \in Seq(Items) /\ Len(items') = n
    BY <2>2, <2>4, <2>5
  <2>7. \A i, j \in 1..Len(items') : items'[i].name = items'[j].name => i = j
    <3>1. \A i \in 1..n : items'[i].name = order[i]
      BY <2>4, <2>5
    <3> QED  BY <2>3, <2>6, <3>1
  <2>8. TypeOK'
    BY <1>1, <1>3, <2>6 DEF ListClaims, Cluster, Return, TypeOK
  <2> QED  BY <1>1, <1>3, <2>7, <2>8, ListingInv DEF ListClaims, Cluster, Return
<1> QED  BY <1>2, <1>3 DEF ListClaims

-----------------------------------------------------------------------------
(* The loop.                                                               *)

\* A step of the loop, or its end, that takes no volume.
LEMMA PassInv ==
    ASSUME LoopInv, TypeOK', result = "mapping",
           UNCHANGED <<items, system, volumes, claim, pv>>,
           \/ at' = at /\ (result' = "ok" => at > Len(items))
           \/ /\ at' = at + 1 /\ at <= Len(items) /\ result' = "mapping"
              /\ items[at].phase # "Bound" \/ pv[items[at].name].state # "bound",
           result' # "listing", result' # ""
    PROVE  LoopInv'
<1>1. /\ at \in Nat \ {0} /\ Len(items) \in Nat
      /\ at + 1 # 1
      /\ \A k \in 1..Len(items) : k < at + 1 <=> k < at \/ k = at
  <2>1. at \in Nat \ {0} /\ Len(items) \in Nat
    BY LenIsNat DEF LoopInv, TypeOK
  <2> QED  BY <2>1, NextPlace
<1>2. PlaceInv'
  BY <1>1 DEF LoopInv, PlaceInv
<1>3. ArrayInv'
  BY DEF LoopInv, ArrayInv, ArrayOf
<1>4. DistinctInv'
  <2>1. \A k \in 1..Len(items) : k < at => k < at'
    BY <1>1
  <2> QED  BY <2>1 DEF LoopInv, DistinctInv, EachOnce
<1>5. PassedInv'
  <2>1. \A k \in 1..Len(items) : k < at' => k < at \/ (k = at /\ at' = at + 1)
    BY <1>1
  <2> QED  BY <2>1 DEF LoopInv, PassedInv
<1> QED  BY <1>2, <1>3, <1>4, <1>5 DEF LoopInv

\* The loop takes the volume of the item it is at.
LEMMA TakeVolumeInv ==
    ASSUME LoopInv, TakeVolume
    PROVE  LoopInv'
<1>1. /\ result = "mapping" /\ at \in Nat \ {0} /\ at \in 1..Len(items)
      /\ items \in Seq(Items) /\ volumes \in Seq(Claims)
      /\ UNCHANGED <<items, claim, pv, asked, changes>>
      /\ TypeOK /\ PlaceInv /\ ArrayInv /\ DistinctInv /\ PassedInv
  <2>1. /\ result = "mapping" /\ at <= Len(items)
        /\ UNCHANGED <<items, claim, pv, asked, changes>>
    BY DEF TakeVolume, Mapping, Cluster
  <2>2. /\ at \in Nat \ {0} /\ items \in Seq(Items) /\ volumes \in Seq(Claims)
    BY DEF LoopInv, TypeOK
  <2>3. at \in 1..Len(items)
    BY <2>1, <2>2, LenIsNat
  <2> QED  BY <2>1, <2>2, <2>3 DEF LoopInv
<1>2. Current \in Claims
  <2>1. items[at] \in Items
    BY <1>1, ElementInSeq
  <2> QED  BY <2>1 DEF Current, Items
<1>3. /\ Len(items) \in Nat /\ Len(volumes) \in Nat
      /\ at + 1 # 1 /\ at + 1 \in Nat \ {0}
      /\ \A k \in 1..Len(items) : k < at + 1 <=> k < at \/ k = at
  BY <1>1, LenIsNat, NextPlace
<1>4. system' = SystemID /\ system' \in Tokens \cup {""}
  BY <1>1, <1>2, ArrayIsToken DEF TakeVolume, SystemID, TypeOK
<1>5. \A c \in Claims : ArrayOf(c)' = ArrayOf(c)
  BY <1>1 DEF ArrayOf
<1>6. \A i \in 1..Len(volumes) : ArrayOf(volumes[i]) = system' /\ volumes[i] \in Claims
  <2>1. CASE at = 1
    <3>1. 1..Len(volumes) = {}
      BY <1>1, <2>1, EmptyIsSeq DEF PlaceInv
    <3> QED  BY <3>1
  <2>2. CASE at # 1
    BY <1>1, <1>4, <2>2, ElementInSeq DEF SystemID, ArrayInv
  <2> QED  BY <2>1, <2>2
<1>7. CASE Return("error") /\ UNCHANGED <<volumes, at>>
  <2>1. TypeOK'
    BY <1>1, <1>4, <1>7 DEF TypeOK, Return
  <2>2. PlaceInv' /\ DistinctInv' /\ PassedInv'
    BY <1>1, <1>7 DEF PlaceInv, DistinctInv, PassedInv, EachOnce, Return
  <2>3. ArrayInv'
    BY <1>5, <1>6, <1>7 DEF ArrayInv
  <2> QED  BY <2>1, <2>2, <2>3 DEF LoopInv
<1>8. CASE /\ ArrayOf(Current) = SystemID
           /\ volumes' = Append(volumes, Current)
           /\ at' = at + 1 /\ UNCHANGED result
  <2>1. /\ volumes' \in Seq(Claims) /\ Len(volumes') = Len(volumes) + 1
        /\ \A i \in 1..Len(volumes) : volumes'[i] = volumes[i]
        /\ volumes'[Len(volumes) + 1] = Current
    BY <1>1, <1>2, <1>8
  <2>2. /\ \A i \in 1..Len(volumes') : i \in 1..Len(volumes) \/ i = Len(volumes) + 1
        /\ \A i \in 1..Len(volumes) : i \in 1..Len(volumes')
        /\ Len(volumes) + 1 \in 1..Len(volumes')
    BY <1>3, <2>1
  <2>3. TypeOK'
    BY <1>1, <1>3, <1>4, <1>8, <2>1 DEF TypeOK
  <2>4. PlaceInv'
    BY <1>1, <1>3, <1>8 DEF PlaceInv
  <2>5. ArrayInv'
    <3>1. \A i \in 1..Len(volumes') :
             volumes'[i] \in Claims /\ ArrayOf(volumes'[i]) = system'
      BY <1>2, <1>4, <1>6, <1>8, <2>1, <2>2
    <3> QED  BY <1>5, <3>1 DEF ArrayInv
  <2>6. PassedInv'
    <3>1. \A k \in 1..Len(items) : k < at' => k < at \/ items[k].name = Current
      BY <1>3, <1>8 DEF Current
    <3> QED  BY <1>1, <2>1, <2>2, <3>1 DEF PassedInv
  <2>7. DistinctInv'
    <3>1. ASSUME NEW i \in 1..Len(volumes)
          PROVE  volumes[i] # Current
      <4>1. PICK k \in 1..Len(items) : k < at /\ volumes[i] = items[k].name
        BY <1>1 DEF DistinctInv
      <4>2. k # at
        BY <1>1, <4>1
      <4> QED  BY <1>1, <4>1, <4>2 DEF DistinctInv, Current
    <3>2. EachOnce'
      <4>1. ASSUME NEW i \in 1..Len(volumes'), NEW j \in 1..Len(volumes'),
                   volumes'[i] = volumes'[j]
            PROVE  i = j
        <5>1. CASE i \in 1..Len(volumes) /\ j \in 1..Len(volumes)
          <6>1. volumes[i] = volumes[j]
            BY <2>1, <4>1, <5>1
          <6> QED  BY <1>1, <5>1, <6>1 DEF DistinctInv, EachOnce
        <5>2. CASE i = Len(volumes) + 1 \/ j = Len(volumes) + 1
          BY <1>1, <2>1, <2>2, <3>1, <4>1, <5>2
        <5> QED  BY <1>1, <2>2, <5>1, <5>2
      <4> QED  BY <4>1 DEF EachOnce
    <3>3. \A i \in 1..Len(volumes') :
             \E k \in 1..Len(items) : k < at' /\ volumes'[i] = items[k].name
      <4>1. \A i \in 1..Len(volumes) :
               \E k \in 1..Len(items) : k < at' /\ volumes'[i] = items[k].name
        BY <1>1, <1>3, <1>8, <2>1 DEF DistinctInv
      <4>2. at < at' /\ volumes'[Len(volumes) + 1] = items[at].name
        BY <1>1, <1>8, <2>1 DEF Current
      <4> QED  BY <1>1, <2>2, <4>1, <4>2
    <3> QED  BY <1>1, <3>2, <3>3 DEF DistinctInv
  <2> QED  BY <2>3, <2>4, <2>5, <2>6, <2>7 DEF LoopInv
<1> QED  BY <1>7, <1>8 DEF TakeVolume

\* What was found and taken stays distinct while the loop does not move.
LEMMA UnmovedDistinct ==
    ASSUME DistinctInv, UNCHANGED <<items, at, volumes>>
    PROVE  DistinctInv'
<1>1. /\ \A i, j \in 1..Len(items) : items[i].name = items[j].name => i = j
      /\ \A i \in 1..Len(volumes) :
            \E k \in 1..Len(items) : k < at /\ volumes[i] = items[k].name
      /\ EachOnce
  BY DEF DistinctInv
<1>2. items' = items /\ at' = at /\ volumes' = volumes
  OBVIOUS
<1>3. EachOnce'
  BY <1>1, <1>2 DEF EachOnce
<1> QED  BY <1>1, <1>2, <1>3 DEF DistinctInv

\* A volume that changes is not bound again.
LEMMA ChangeVolumeInv ==
    ASSUME LoopInv, NEW c \in Claims, ChangeVolume(c)
    PROVE  LoopInv'
<1>1. PICK s \in {"released", "missing"} : pv' = [pv EXCEPT ![c].state = s]
  BY DEF ChangeVolume
<1>2. pv \in [Claims -> Volumes] /\ changes \in 0..MaxChanges
  BY DEF LoopInv, TypeOK
<1>3. pv' \in [Claims -> Volumes]
  BY <1>1, <1>2 DEF Volumes
<1>4. changes' \in 0..MaxChanges
  BY <1>2, ChangesAssumption DEF ChangeVolume
<1>5. TypeOK'
  BY <1>3, <1>4 DEF LoopInv, TypeOK, ChangeVolume
<1>6. \A d \in Claims :
         /\ pv'[d].driver = pv[d].driver /\ pv'[d].handle = pv[d].handle
         /\ pv'[d].state = "bound" => pv[d].state = "bound"
  BY <1>1, <1>2 DEF Volumes
<1>7. \A d \in Claims : ArrayOf(d)' = ArrayOf(d)
  BY <1>6 DEF ArrayOf
<1>8. /\ \A i \in 1..Len(volumes) : volumes[i] \in Claims
      /\ \A k \in 1..Len(items) : items[k].name \in Claims
  <2>1. volumes \in Seq(Claims) /\ items \in Seq(Items)
    BY DEF LoopInv, TypeOK
  <2>2. /\ \A i \in 1..Len(volumes) : volumes[i] \in Claims
        /\ \A k \in 1..Len(items) : items[k] \in Items
    BY <2>1, ElementInSeq
  <2> QED  BY <2>2 DEF Items
<1>9. ArrayInv'
  BY <1>7, <1>8 DEF LoopInv, ArrayInv, ChangeVolume
<1>10. PassedInv'
  BY <1>6, <1>8 DEF LoopInv, PassedInv, ChangeVolume
<1>11. UNCHANGED <<items, at, volumes, result>>
  BY DEF ChangeVolume
<1>12. PlaceInv'
  BY <1>11 DEF LoopInv, PlaceInv
<1>13. DistinctInv'
  BY <1>11, UnmovedDistinct DEF LoopInv
<1> QED  BY <1>5, <1>9, <1>10, <1>12, <1>13 DEF LoopInv

\* The loop invariant is inductive.
LEMMA LoopNext == LoopInv /\ [Next]_vars => LoopInv'
<1> SUFFICES ASSUME LoopInv, [Next]_vars PROVE LoopInv'
  OBVIOUS
<1>1. TypeOK /\ at \in Nat \ {0} /\ Len(items) \in Nat
  BY LenIsNat DEF LoopInv, TypeOK
<1>2. CASE StartNames \/ EndNames
  <2>1. TypeOK'
    BY <1>1, <1>2 DEF StartNames, EndNames, Cluster, Return, TypeOK
  <2>2. \A i, j \in 1..Len(items') : items'[i].name = items'[j].name => i = j
    BY <1>2 DEF StartNames, EndNames, LoopInv, DistinctInv
  <2> QED
    BY <1>2, <2>1, <2>2, ListingInv DEF StartNames, EndNames, Cluster, Return
<1>3. CASE MissVolume
  <2>1. TypeOK'
    BY <1>1, <1>3 DEF MissVolume, Mapping, Cluster, Return, TypeOK
  <2> QED  BY <1>3, <2>1, PassInv DEF MissVolume, Mapping, Cluster, Return
<1>4. CASE SkipClaim
  <2>1. TypeOK'
    BY <1>1, <1>4, NextPlace DEF SkipClaim, Mapping, Cluster, TypeOK
  <2> QED
    BY <1>4, <2>1, PassInv
    DEF SkipClaim, Skippable, Current, Mapping, Cluster
<1>5. CASE EndMapping
  <2>1. TypeOK'
    BY <1>1, <1>5 DEF EndMapping, Cluster, Return, TypeOK
  <2>2. /\ result = "mapping" /\ at > Len(items)
        /\ result' \in {"ok", "error"} /\ at' = at
        /\ UNCHANGED <<items, system, volumes, claim, pv>>
    BY <1>5 DEF EndMapping, Cluster, Return
  <2> QED  BY <2>1, <2>2, PassInv
<1>6. CASE UNCHANGED vars
  <2>1. TypeOK'
    BY <1>1, <1>6 DEF vars, TypeOK
  <2>2. ArrayInv'
    BY <1>6 DEF vars, LoopInv, ArrayInv, ArrayOf
  <2>3. UNCHANGED <<items, at, volumes, result, pv>>
    BY <1>6 DEF vars
  <2>4. PlaceInv'
    BY <2>3 DEF LoopInv, PlaceInv
  <2>5. DistinctInv'
    BY <2>3, UnmovedDistinct DEF LoopInv
  <2>6. PassedInv'
    BY <2>3 DEF LoopInv, PassedInv
  <2> QED  BY <2>1, <2>2, <2>4, <2>5, <2>6 DEF LoopInv
<1> QED
  BY <1>2, <1>3, <1>4, <1>5, <1>6, ReadNameInv, ListClaimsInv, TakeVolumeInv,
     ChangeVolumeInv
  DEF Next

\* The loop invariant of mapVolIDToPvcName holds in every reachable state.
THEOREM LoopInvariance == Spec => []LoopInv
BY LoopInit, LoopNext, PTL DEF Spec

\* Every variable of the loop keeps its type.
THEOREM SelectionTyped == Spec => []TypeOK
<1>1. LoopInv => TypeOK
  BY DEF LoopInv
<1> QED  BY <1>1, LoopInvariance, PTL

\* The volumes handed to the driver are all of one array.
THEOREM SelectionOneArray == Spec => []OneArray
<1>1. LoopInv => OneArray
  BY DEF LoopInv, ArrayInv, OneArray
<1> QED  BY <1>1, LoopInvariance, PTL

\* No volume is handed to the driver twice, whatever names a user lists.
THEOREM SelectionOnce == Spec => []EachOnce
<1>1. LoopInv => EachOnce
  BY DEF LoopInv, DistinctInv
<1> QED  BY <1>1, LoopInvariance, PTL

\* A successful selection holds the volume of every claim it found that is
\* bound and whose volume has been bound all along.
THEOREM SelectionComplete == Spec => []NothingMissed
<1>1. LoopInv => NothingMissed
  <2> SUFFICES ASSUME LoopInv, result = "ok",
                      NEW i \in 1..Len(items),
                      items[i].phase = "Bound", pv[items[i].name].state = "bound"
               PROVE  \E j \in 1..Len(volumes) : volumes[j] = items[i].name
    BY DEF NothingMissed
  <2>1. at > Len(items) /\ at \in Nat /\ Len(items) \in Nat
    BY LenIsNat DEF LoopInv, PlaceInv, TypeOK
  <2>2. i < at
    BY <2>1
  <2> QED  BY <2>2 DEF LoopInv, PassedInv
<1> QED  BY <1>1, LoopInvariance, PTL

-----------------------------------------------------------------------------
(* Why a selection is refused.                                             *)

\* Until the functions return, systemID is set with the first volume taken.
SystemInv ==
    result \in {"", "listing", "mapping"} /\ volumes = <<>> => system = ""

LEMMA SystemNext ==
    ASSUME LoopInv, SystemInv, [Next]_vars
    PROVE  SystemInv'
<1>1. CASE TakeVolume
  <2>1. CASE volumes' = Append(volumes, Current)
    <3>1. volumes \in Seq(Claims) /\ at \in 1..Len(items) /\ items \in Seq(Items)
      <4>1. at <= Len(items)
        BY <1>1 DEF TakeVolume, Mapping
      <4>2. at \in Nat \ {0} /\ items \in Seq(Items) /\ volumes \in Seq(Claims)
        BY DEF LoopInv, TypeOK
      <4>3. at \in 1..Len(items)
        BY <4>1, <4>2, LenIsNat
      <4> QED  BY <4>2, <4>3
    <3>2. Current \in Claims
      <4>1. items[at] \in Items
        BY <3>1, ElementInSeq
      <4> QED  BY <4>1 DEF Current, Items
    <3>3. volumes' # <<>>
      BY <2>1, <3>1, <3>2
    <3> QED  BY <3>3 DEF SystemInv
  <2>2. CASE result' = "error"
    BY <2>2 DEF SystemInv
  <2> QED  BY <1>1, <2>1, <2>2 DEF TakeVolume, Return
<1>2. CASE StartNames \/ ReadName \/ EndNames \/ ListClaims
  <2>1. result \in {"", "listing"} /\ UNCHANGED <<system, volumes>>
    BY <1>2 DEF StartNames, ReadName, EndNames, ListClaims
  <2> QED  BY <2>1 DEF SystemInv
<1>3. CASE MissVolume \/ SkipClaim \/ EndMapping
  <2>1. result = "mapping" /\ UNCHANGED <<system, volumes>>
    BY <1>3 DEF MissVolume, SkipClaim, EndMapping, Mapping
  <2> QED  BY <2>1 DEF SystemInv
<1>4. CASE (\E c \in Claims : ChangeVolume(c)) \/ UNCHANGED vars
  <2>1. UNCHANGED <<system, volumes, result>>
    BY <1>4 DEF ChangeVolume, vars
  <2> QED  BY <2>1 DEF SystemInv
<1> QED  BY <1>1, <1>2, <1>3, <1>4 DEF Next

\* TakeVolume refuses the volume it is at because of another array's volume,
\* or because the first claim left systemID empty.
LEMMA MismatchRefused ==
    ASSUME LoopInv, SystemInv, TakeVolume, result' = "error"
    PROVE  \/ \E i, j \in Taken \cup Usable :
                 ArrayOf(items[i].name) # ArrayOf(items[j].name)
           \/ at > 1 /\ 1 \notin Taken /\ system = ""
<1>1. /\ result = "mapping" /\ ArrayOf(Current) # SystemID
      /\ at \in Nat \ {0} /\ at \in 1..Len(items)
      /\ volumes \in Seq(Claims)
  <2>1. result = "mapping" /\ ArrayOf(Current) # SystemID /\ at <= Len(items)
    BY DEF TakeVolume, Mapping
  <2>2. at \in Nat \ {0} /\ Len(items) \in Nat /\ volumes \in Seq(Claims)
    BY LenIsNat DEF LoopInv, TypeOK
  <2>3. at \in 1..Len(items)
    BY <2>1, <2>2
  <2> QED  BY <2>1, <2>2, <2>3
<1>2. at # 1 /\ ArrayOf(items[at].name) # system
  BY <1>1 DEF SystemID, Current
<1>3. at \in Usable
  <2>1. items[at].phase = "Bound" /\ pv[items[at].name].state = "bound"
    BY DEF TakeVolume, Skippable, Current
  <2> QED  BY <1>1, <2>1 DEF Usable
<1>4. CASE volumes = <<>>
  <2>1. Taken = {}
    BY <1>4, EmptyIsSeq DEF Taken
  <2>2. system = ""
    BY <1>1, <1>4 DEF SystemInv
  <2>3. at > 1
    BY <1>1, <1>2
  <2> QED  BY <2>1, <2>2, <2>3
<1>5. CASE volumes # <<>>
  <2>1. 1 \in 1..Len(volumes)
    BY <1>1, <1>5
  <2>2. ArrayOf(volumes[1]) = system
    BY <2>1 DEF LoopInv, ArrayInv
  <2>3. PICK k \in 1..Len(items) : volumes[1] = items[k].name
    BY <2>1 DEF LoopInv, DistinctInv
  <2>4. k \in Taken
    BY <2>1, <2>3 DEF Taken
  <2>5. ArrayOf(items[k].name) # ArrayOf(items[at].name)
    BY <1>2, <2>2, <2>3
  <2>6. k \in Taken \cup Usable /\ at \in Taken \cup Usable
    BY <1>3, <2>4
  <2>7. \E i, j \in Taken \cup Usable :
           ArrayOf(items[i].name) # ArrayOf(items[j].name)
    BY <2>5, <2>6
  <2> QED  BY <2>7
<1> QED  BY <1>4, <1>5

\* A loop that ends with nothing taken had no usable claim.
LEMMA EmptyRefused ==
    ASSUME LoopInv, EndMapping, result' = "error"
    PROVE  Taken \cup Usable = {}
<1>1. volumes = <<>> /\ at > Len(items)
  BY DEF EndMapping, Return
<1>2. Taken = {}
  BY <1>1, EmptyIsSeq DEF Taken
<1>3. \A k \in 1..Len(items) : k < at
  <2>1. at \in Nat /\ Len(items) \in Nat
    BY LenIsNat DEF LoopInv, TypeOK
  <2> QED  BY <1>1, <2>1
<1>4. Usable = {}
  BY <1>1, <1>3, EmptyIsSeq DEF Usable, LoopInv, PassedInv
<1> QED  BY <1>2, <1>4

\* A selection of claims that were found is refused only when none is usable,
\* a volume is not found, two are of different arrays, or the first claim of
\* the list was skipped.
THEOREM SelectionRefusal == Spec => RefusedForAReason
<1> DEFINE Refusal == result = "mapping" /\ result' = "error"
           Reason ==
             \/ Taken \cup Usable = {}
             \/ at <= Len(items) /\ pv[Current].state = "missing"
             \/ \E i, j \in Taken \cup Usable :
                   ArrayOf(items[i].name) # ArrayOf(items[j].name)
             \/ at > 1 /\ 1 \notin Taken /\ system = ""
<1>1. Init => SystemInv
  BY DEF Init, SystemInv
<1>2. LoopInv /\ SystemInv /\ [Next]_vars => SystemInv'
  BY SystemNext
<1>3. LoopInv /\ SystemInv /\ [Next]_vars => [Refusal => Reason]_vars
  <2> SUFFICES ASSUME LoopInv, SystemInv, Next, Refusal
               PROVE  Reason
    OBVIOUS
  <2>1. CASE MissVolume
    BY <2>1 DEF MissVolume, Mapping, Return
  <2>2. CASE TakeVolume
    BY <2>2, MismatchRefused
  <2>3. CASE EndMapping
    BY <2>3, EmptyRefused
  <2>4. ~(StartNames \/ ReadName \/ EndNames \/ ListClaims \/ SkipClaim)
    BY DEF StartNames, ReadName, EndNames, ListClaims, SkipClaim
  <2>5. ~ \E c \in Claims : ChangeVolume(c)
    BY DEF ChangeVolume
  <2> QED  BY <2>1, <2>2, <2>3, <2>4, <2>5 DEF Next
<1> QED
  BY <1>1, <1>2, <1>3, LoopInvariance, PTL DEF Spec, RefusedForAReason
=============================================================================
