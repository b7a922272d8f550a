------------------------------ MODULE LanesProofs ------------------------------
(****************************************************************************)
(* The sweep for every log: however long it is and however many lines it    *)
(* has, lane numbers stay in their range, lines without merges keep apart,  *)
(* and all pages agree on the lane of a row.                                *)
(****************************************************************************)
EXTENDS Lanes, TLAPS, FiniteSetTheorems

(* The vector knows who is on a lane: a commit whose line goes on below the *)
(* row swept last holds the lane it was given.                              *)
Holds(c) == laneOf[c] < Len(lanes) /\ lanes[laneOf[c] + 1] = c
Held ==
    ChildrenFirst(parents) /\ MergeFree(parents) /\ Room
        => \A c \in Swept : Runs(c) => Holds(c)

IInv == TypeOK /\ Held

-----------------------------------------------------------------------------
(* Facts about numbers and sets.                                            *)

(* A set of numbers has a least one.                                        *)
LEMMA MinIsOne ==
    ASSUME NEW S \in SUBSET Nat, S # {}
    PROVE  Min(S) \in S /\ \A y \in S : Min(S) <= y
<1>. DEFINE Less == {ss \in Nat \X Nat : ss[1] < ss[2]}
<1>1. IsWellFoundedOn(Less, Nat)
  <2>1. OpToRel(<, Nat) = Less
    BY DEF OpToRel
  <2>. QED  BY <2>1, NatLessThanWellFounded
<1>2. PICK x \in S : \A y \in S : <<y, x>> \notin Less
  <2>. HIDE DEF Less
  <2>. QED  BY <1>1, WFMin
<1>3. ASSUME NEW y \in S PROVE x <= y
  <2>1. <<y, x>> \in Nat \X Nat /\ <<y, x>>[1] = y /\ <<y, x>>[2] = x
    OBVIOUS
  <2>2. ~(<<y, x>>[1] < <<y, x>>[2])
    BY <1>2, <2>1, Zenon
  <2>3. ~(y < x)
    BY <2>1, <2>2
  <2>. QED  BY <2>3
<1>. QED  BY <1>3 DEF Min

(* Without merges a commit has one parent at most.                          *)
LEMMA OneParent ==
    ASSUME TypeOK, MergeFree(parents), NEW c \in Rows, NEW p \in parents[c], NEW q \in parents[c]
    PROVE  p = q
<1>1. IsFiniteSet(Rows)
  BY LengthAssumption, FS_Interval DEF Rows
<1>2. parents[c] \subseteq Rows
  BY DEF TypeOK
<1>3. {p, q} \in SUBSET parents[c] /\ IsFiniteSet(parents[c])
  BY <1>1, <1>2, FS_Subset
<1>4. Cardinality({p, q}) <= Cardinality(parents[c])
  BY <1>3, FS_Subset
<1>5. p # q => Cardinality({p, q}) = 2
  <2>1. IsFiniteSet({p}) /\ Cardinality({p}) = 1
    BY FS_Singleton
  <2>2. Cardinality({p} \cup {q}) = IF q \in {p} THEN 1 ELSE 2
    BY <2>1, FS_AddElement
  <2>3. {p, q} = {p} \cup {q}
    OBVIOUS
  <2>. QED  BY <2>2, <2>3
<1>6. Cardinality(parents[c]) \in Nat /\ Cardinality(parents[c]) <= 1
  BY <1>3, FS_CardinalityType DEF MergeFree
<1>. QED  BY <1>4, <1>5, <1>6

(* The rows swept so far are the first ones.                                *)
LEMMA SweptRows == ASSUME TypeOK PROVE Swept = 1..Len(laneOf) /\ Swept \subseteq Rows
<1>1. DOMAIN laneOf = 1..Len(laneOf) /\ Len(laneOf) \in Nat
  BY DEF TypeOK
<1>2. Len(laneOf) <= Length
  BY <1>1, LengthAssumption DEF TypeOK
<1>. QED  BY <1>1, <1>2, LengthAssumption DEF Swept, Rows

-----------------------------------------------------------------------------
(* A turn of the sweep, as far as the lanes are concerned: a lane in its    *)
(* range for the row, and a vector that is no shorter.                      *)
Turn(l, vector) ==
    /\ row <= end
    /\ l \in Lane /\ vector \in Seq(Rows \cup {Free})
    /\ Len(vector) <= MaxLanes /\ Len(lanes) <= Len(vector)
    /\ laneOf' = Append(laneOf, l) /\ lanes' = vector
    /\ UNCHANGED <<parents, offset, end, shown>>

(* A turn of the sweep keeps the types.                                     *)
LEMMA TurnTypeOK ==
    ASSUME TypeOK, NEW l, NEW vector, Turn(l, vector)
    PROVE  TypeOK'
<1>1. laneOf' \in Seq(Lane) /\ Len(laneOf') = Len(laneOf) + 1
  BY DEF TypeOK, Turn
<1>. QED  BY <1>1 DEF TypeOK, Turn, row, Rows, Lane, Free, Range

(* The line of a commit goes on below the row.                              *)
RunsBelow(c) == \E p \in parents[c] : p > row

(* After a turn the vector knows the row, and the commits whose lines go on *)
(* if it knew them before; the lines that ended may be forgotten.           *)
LEMMA TurnHeld ==
    ASSUME IInv, NEW l, NEW vector, Turn(l, vector),
           ChildrenFirst(parents) /\ MergeFree(parents) /\ Len(vector) < MaxLanes =>
             /\ l < Len(vector) /\ vector[l + 1] = row
             /\ \A c \in Swept : RunsBelow(c) /\ Holds(c) => vector[laneOf[c] + 1] = c
    PROVE  TypeOK' /\ Held'
<1>. SUFFICES ASSUME ChildrenFirst(parents), MergeFree(parents), Room',
                     NEW c \in Swept', Runs(c)'
              PROVE  Holds(c)'
  BY TurnTypeOK DEF Held, Turn, IInv
<1>1. Room /\ Len(vector) < MaxLanes
  BY LanesAssumption DEF Room, Turn, IInv, TypeOK
<1>2. /\ Swept = 1..Len(laneOf) /\ Swept \subseteq Rows
      /\ Len(laneOf) \in Nat /\ row = Len(laneOf) + 1
  BY SweptRows DEF IInv, TypeOK, row
<1>3. /\ laneOf' = Append(laneOf, l) /\ Len(laneOf') = row /\ row' = row + 1
      /\ Swept' = 1..row /\ laneOf'[row] = l
      /\ \A d \in Swept : laneOf'[d] = laneOf[d]
  BY <1>2 DEF Turn, IInv, TypeOK, row, Swept
<1>4. CASE c = row
  BY <1>1, <1>3, <1>4 DEF Holds, Turn
<1>5. CASE c # row
  <2>1. c \in Swept
    BY <1>2, <1>3, <1>5
  <2>2. PICK p \in parents[c] : p >= row + 1
    BY <1>3 DEF Runs, Turn
  <2>3. p \in Nat
    BY <1>2, <2>1 DEF IInv, TypeOK, Rows
  <2>4. Runs(c) /\ p > row
    BY <1>2, <2>2, <2>3 DEF Runs
  <2>5. Holds(c)
    BY <1>1, <2>1, <2>4 DEF IInv, Held
  <2>6. vector[laneOf[c] + 1] = c
    BY <1>1, <2>1, <2>2, <2>4, <2>5 DEF RunsBelow
  <2>7. laneOf[c] \in Nat /\ Len(lanes) \in Nat /\ Len(vector) \in Nat
    BY <1>2, <2>1, LanesAssumption DEF IInv, TypeOK, Turn, Lane
  <2>8. laneOf[c] < Len(vector)
    BY <2>5, <2>7 DEF Holds, Turn
  <2>. QED  BY <1>3, <2>1, <2>6, <2>8 DEF Holds, Turn
<1>. QED  BY <1>4, <1>5

(* The row that the sweep looks at is one of the rows.                      *)
LEMMA RowInRange ==
    ASSUME IInv, row <= end
    PROVE  row \in Rows /\ row # Free /\ Len(lanes) \in Nat
BY LengthAssumption, LanesAssumption DEF IInv, TypeOK, row, Rows, Free

(* The vector with the row in a lane.                                       *)
LEMMA HoldIs ==
    ASSUME IInv, row <= end, NEW l \in Lane
    PROVE  /\ Hold(l) \in Seq(Rows \cup {Free}) /\ Len(Hold(l)) = Len(lanes)
           /\ \A i \in 1..Len(lanes) : Hold(l)[i] = IF i = l + 1 THEN row ELSE lanes[i]
<1>1. l \in Nat /\ lanes \in Seq(Rows \cup {Free})
  BY LanesAssumption DEF Lane, IInv, TypeOK
<1>2. l < Len(lanes) => l + 1 \in 1..Len(lanes)
  BY <1>1, RowInRange
<1>. QED  BY <1>1, <1>2, RowInRange DEF Hold

(* A commit that holds a lane is in the vector of lanes, at its own.        *)
LEMMA HolderIs ==
    ASSUME IInv, row <= end, NEW c \in Swept, Holds(c)
    PROVE  /\ laneOf[c] \in Lane /\ laneOf[c] \in Nat /\ laneOf[c] + 1 \in 1..Len(lanes)
           /\ lanes[laneOf[c] + 1] = c /\ c \in Rows /\ c # row /\ c # Free
<1>1. /\ Swept = 1..Len(laneOf) /\ Swept \subseteq Rows /\ Len(laneOf) \in Nat
      /\ laneOf \in Seq(Lane)
  BY SweptRows DEF IInv, TypeOK
<1>2. laneOf[c] \in Lane /\ laneOf[c] \in Nat
  BY <1>1, LanesAssumption DEF Lane
<1>. QED  BY <1>1, <1>2, RowInRange DEF Holds, row, Rows, Free

(* A row on a lane of its own at the right.                                 *)
LEMMA RightmostStep ==
    ASSUME IInv, row <= end, PlaceRightmost, Sweep
    PROVE  TypeOK' /\ Held'
<1>1. CASE Room /\ Place(Len(lanes), Append(lanes, row))
  <2>. DEFINE vector == Append(lanes, row)
  <2>1. /\ vector \in Seq(Rows \cup {Free}) /\ Len(vector) = Len(lanes) + 1
        /\ vector[Len(lanes) + 1] = row /\ \A i \in 1..Len(lanes) : vector[i] = lanes[i]
    BY RowInRange DEF IInv, TypeOK
  <2>2. Turn(Len(lanes), vector)
    BY <1>1, <2>1, RowInRange, LanesAssumption DEF Turn, Place, Sweep, Room, Lane
  <2>3. \A c \in Swept : Holds(c) => vector[laneOf[c] + 1] = c
    BY <2>1, HolderIs
  <2>. HIDE DEF vector
  <2>. QED  BY <2>1, <2>2, <2>3, RowInRange, TurnHeld
<1>2. CASE ~Room /\ Place(0, lanes)
  <2>1. Turn(0, lanes)
    BY <1>2, RowInRange, LanesAssumption DEF Turn, Place, Sweep, Lane, IInv, TypeOK
  <2>. QED  BY <1>2, <2>1, TurnHeld DEF Room
<1>. QED  BY <1>1, <1>2 DEF PlaceRightmost

(* A row on a lane that no line needs any more.                             *)
LEMMA HoldStep ==
    ASSUME IInv, row <= end, NEW l \in Lane, Place(l, Hold(l)), Sweep,
           ChildrenFirst(parents) /\ MergeFree(parents) /\ Room =>
             /\ l < Len(lanes)
             /\ \A c \in Swept : RunsBelow(c) /\ Holds(c) => laneOf[c] # l
    PROVE  TypeOK' /\ Held'
<1>. DEFINE vector == Hold(l)
<1>1. /\ vector \in Seq(Rows \cup {Free}) /\ Len(vector) = Len(lanes)
      /\ \A i \in 1..Len(lanes) : vector[i] = IF i = l + 1 THEN row ELSE lanes[i]
  BY HoldIs
<1>2. Turn(l, vector)
  BY <1>1, RowInRange, LanesAssumption DEF Turn, Place, Sweep, IInv, TypeOK
<1>3. l \in Nat
  BY LanesAssumption DEF Lane
<1>4. \A c \in Swept : Holds(c) /\ laneOf[c] # l => vector[laneOf[c] + 1] = c
  BY <1>1, <1>3, HolderIs
<1>. HIDE DEF vector
<1>5. ChildrenFirst(parents) /\ MergeFree(parents) /\ Len(vector) < MaxLanes =>
             /\ l < Len(vector) /\ vector[l + 1] = row
             /\ \A c \in Swept : RunsBelow(c) /\ Holds(c) => vector[laneOf[c] + 1] = c
  BY <1>1, <1>3, <1>4, RowInRange DEF Room
<1>. QED  BY <1>2, <1>5, TurnHeld

-----------------------------------------------------------------------------
(* The three turns.                                                         *)

(* A commit without a child takes a free lane or a new one.                 *)
LEMMA TipStep == ASSUME IInv, PlaceTip PROVE IInv'
<1>1. row <= end /\ Sweep
  BY DEF PlaceTip
<1>2. CASE FreeLanes = {}
  BY <1>1, <1>2, RightmostStep DEF PlaceTip, IInv
<1>3. CASE FreeLanes # {}
  <2>. DEFINE l == Min(FreeLanes)
  <2>1. FreeLanes \subseteq Lane /\ Lane \subseteq Nat
    BY LanesAssumption DEF FreeLanes, Lane
  <2>2. l \in FreeLanes
    BY <1>3, <2>1, MinIsOne
  <2>3. l \in Lane /\ l < Len(lanes) /\ lanes[l + 1] = Free
    BY <2>2 DEF FreeLanes
  <2>4. Place(l, Hold(l))
    BY <1>3 DEF PlaceTip
  <2>. HIDE DEF l
  <2>5. \A c \in Swept : Holds(c) => laneOf[c] # l
    BY <1>1, <2>3, HolderIs
  <2>. QED  BY <1>1, <2>3, <2>4, <2>5, HoldStep DEF IInv
<1>. QED  BY <1>2, <1>3

(* The children of a row were all swept, their lines end at it, and till    *)
(* then each has held its lane.                                             *)
LEMMA ChildrenOf ==
    ASSUME IInv, row <= end, ChildrenFirst(parents), MergeFree(parents), Room
    PROVE  /\ Above(row) = Children(row)
           /\ \A c \in Children(row) : c \in Swept /\ Holds(c) /\ ~RunsBelow(c)
<1>1. /\ Swept = 1..Len(laneOf) /\ Swept \subseteq Rows /\ Len(laneOf) \in Nat
      /\ row = Len(laneOf) + 1 /\ row \in Rows
  BY SweptRows, RowInRange DEF IInv, TypeOK, row
<1>. SUFFICES ASSUME NEW c \in Children(row)
              PROVE  c \in Swept /\ Holds(c) /\ ~RunsBelow(c)
  BY DEF Above
<1>2. c \in Rows /\ row \in parents[c]
  BY LengthAssumption DEF Children, Rows, IInv, TypeOK
<1>3. row > c
  BY <1>2 DEF ChildrenFirst
<1>4. c \in Swept
  BY <1>1, <1>2, <1>3 DEF Rows
<1>5. Runs(c)
  BY <1>1, <1>2 DEF Runs, Rows
<1>6. Holds(c)
  BY <1>4, <1>5 DEF IInv, Held
<1>7. ~RunsBelow(c)
  BY <1>1, <1>2, OneParent DEF RunsBelow, IInv, Rows
<1>. QED  BY <1>4, <1>6, <1>7

(* Two commits that hold lanes hold different ones.                         *)
LEMMA HoldersDiffer ==
    ASSUME NEW c \in Swept, NEW d \in Swept, Holds(c), Holds(d), laneOf[c] = laneOf[d]
    PROVE  c = d
BY DEF Holds

(* A commit takes over the lane that its child holds for it.                *)
LEMMA BelowChildStep == ASSUME IInv, PlaceBelowChild PROVE IInv'
<1>1. row <= end /\ Sweep
  BY DEF PlaceBelowChild
<1>2. PICK c \in 1..end :
        /\ Children(row) = {c}
        /\ LET l == IF c \in Swept THEN laneOf[c] ELSE 0 IN Place(l, Hold(l))
  BY DEF PlaceBelowChild
<1>. DEFINE l == IF c \in Swept THEN laneOf[c] ELSE 0
<1>3. l \in Lane
  BY SweptRows, LanesAssumption DEF Lane, IInv, TypeOK
<1>4. Place(l, Hold(l))
  BY <1>2
<1>5. ChildrenFirst(parents) /\ MergeFree(parents) /\ Room =>
        c \in Swept /\ Holds(c) /\ ~RunsBelow(c)
  BY <1>1, <1>2, ChildrenOf
<1>6. ChildrenFirst(parents) /\ MergeFree(parents) /\ Room =>
        /\ l < Len(lanes)
        /\ \A d \in Swept : RunsBelow(d) /\ Holds(d) => laneOf[d] # l
  <2>. SUFFICES ASSUME ChildrenFirst(parents), MergeFree(parents), Room
                PROVE  /\ laneOf[c] < Len(lanes)
                       /\ \A d \in Swept : RunsBelow(d) /\ Holds(d) => laneOf[d] # laneOf[c]
    BY <1>5
  <2>. QED  BY <1>5, HoldersDiffer DEF Holds
<1>. HIDE DEF l
<1>. QED  BY <1>1, <1>3, <1>4, <1>6, HoldStep DEF IInv

(* A commit of several children takes the first of their lanes and frees    *)
(* the others.                                                              *)
LEMMA BelowChildrenStep == ASSUME IInv, PlaceBelowChildren PROVE IInv'
<1>1. row <= end /\ Sweep
  BY DEF PlaceBelowChildren
<1>2. CASE Above(row) = {}
  BY <1>1, <1>2, RightmostStep DEF PlaceBelowChildren, IInv
<1>3. CASE Above(row) # {}
  <2>. DEFINE l == Min(ChildLanes(row))
              kept == Hold(l)
              vector == [i \in DOMAIN kept |-> IF i - 1 \in Freed(row) THEN Free ELSE kept[i]]
  <2>1. ChildLanes(row) \subseteq Lane /\ Lane \subseteq Nat
    BY LanesAssumption, SweptRows DEF ChildLanes, Above, Lane, IInv, TypeOK
  <2>2. l \in ChildLanes(row)
    <3>1. ChildLanes(row) \in SUBSET Nat /\ ChildLanes(row) # {}
      BY <1>3, <2>1 DEF ChildLanes
    <3>. QED  BY <3>1, MinIsOne
  <2>3. PICK c \in Above(row) : l = laneOf[c]
    BY <2>2 DEF ChildLanes
  <2>4. Place(l, vector)
    BY <1>3 DEF PlaceBelowChildren
  <2>5. /\ l \in Lane /\ l \in Nat
        /\ kept \in Seq(Rows \cup {Free}) /\ Len(kept) = Len(lanes)
        /\ \A i \in 1..Len(lanes) : kept[i] = IF i = l + 1 THEN row ELSE lanes[i]
    BY <1>1, <2>1, <2>2, HoldIs
  <2>. HIDE DEF l, kept
  <2>6. /\ vector \in Seq(Rows \cup {Free}) /\ Len(vector) = Len(lanes)
        /\ \A i \in 1..Len(lanes) :
             vector[i] = IF i - 1 \in Freed(row) THEN Free ELSE kept[i]
    <3>1. DOMAIN kept = 1..Len(lanes) /\ Len(lanes) \in Nat
      BY <1>1, <2>5, RowInRange
    <3>2. vector \in [1..Len(lanes) -> Rows \cup {Free}]
      BY <2>5, <3>1
    <3>. QED  BY <3>1, <3>2
  <2>. HIDE DEF vector
  <2>7. Turn(l, vector)
    BY <1>1, <2>4, <2>5, <2>6, RowInRange, LanesAssumption DEF Turn, Place, Sweep, IInv, TypeOK
  <2>8. ASSUME ChildrenFirst(parents), MergeFree(parents), Len(vector) < MaxLanes
        PROVE  /\ l < Len(vector) /\ vector[l + 1] = row
               /\ \A d \in Swept : RunsBelow(d) /\ Holds(d) => vector[laneOf[d] + 1] = d
    <3>1. \A b \in Above(row) : b \in Swept /\ Holds(b) /\ ~RunsBelow(b)
      BY <1>1, <2>6, <2>8, ChildrenOf DEF Room
    <3>2. l + 1 \in 1..Len(lanes)
      BY <1>1, <2>3, <3>1, HolderIs
    <3>3. l \notin Freed(row)
      <4>1. {b \in Above(row) : laneOf[b] = l} = {c}
        BY <2>3, <3>1, HoldersDiffer
      <4>2. Cardinality({b \in Above(row) : laneOf[b] = l}) = 1
        BY <4>1, FS_Singleton
      <4>. QED  BY <4>2 DEF Freed, l
    <3>4. ASSUME NEW d \in Swept, RunsBelow(d), Holds(d)
          PROVE  vector[laneOf[d] + 1] = d
      <4>1. laneOf[d] \notin ChildLanes(row)
        BY <3>1, <3>4, HoldersDiffer DEF ChildLanes
      <4>2. laneOf[d] \notin Freed(row) /\ laneOf[d] # l
        BY <2>2, <4>1 DEF Freed
      <4>. QED  BY <1>1, <2>5, <2>6, <3>4, <4>2, HolderIs
    <3>. QED  BY <2>5, <2>6, <3>2, <3>3, <3>4, RowInRange, <1>1
  <2>. QED  BY <2>7, <2>8, TurnHeld DEF IInv
<1>. QED  BY <1>2, <1>3

-----------------------------------------------------------------------------
(* The webview's steps, and the theorems.                                   *)

(* A scroll begins the sweep anew.                                          *)
LEMMA ScrollStep == ASSUME IInv, NEW o \in 0..(Length - 1), Scroll(o) PROVE IInv'
<1>. DEFINE S == {Length, o + Limit + Margin}
<1>1. S \in SUBSET Nat /\ S # {}
  BY LengthAssumption, PageAssumption
<1>2. Min(S) \in Nat /\ Min(S) <= Length
  BY <1>1, MinIsOne
<1>3. end' = Min(S)
  BY DEF Scroll
<1>. HIDE DEF S
<1>4. end = 0 /\ offset' = o /\ UNCHANGED <<parents, lanes, laneOf, shown>>
  BY DEF Scroll
<1>5. TypeOK'
  BY <1>2, <1>3, <1>4, LengthAssumption DEF IInv, TypeOK, Rows, Lane, Free, Range
<1>6. Held'
  BY <1>4 DEF IInv, Held, Room, Swept, Runs, Holds, row
<1>. QED  BY <1>5, <1>6 DEF IInv

(* A page is served when the sweep is through.                              *)
LEMMA ServeStep == ASSUME IInv, Serve PROVE IInv'
<1>. DEFINE S == {end, offset + Limit}
<1>1. S \in SUBSET Nat /\ S # {} /\ offset \in Nat /\ end \in Nat
  BY PageAssumption DEF IInv, TypeOK
<1>2. Min(S) \in Nat /\ Min(S) <= end
  BY <1>1, MinIsOne
<1>3. Page = (offset + 1)..Min(S)
  BY DEF Page
<1>. HIDE DEF S
<1>4. Page \subseteq Swept /\ Swept \subseteq Rows /\ Swept = 1..Len(laneOf)
  BY <1>1, <1>2, <1>3, SweptRows DEF Serve, row, IInv, TypeOK
<1>5. /\ shown' = [r \in Page \cup DOMAIN shown |-> IF r \in Page THEN laneOf[r] ELSE shown[r]]
      /\ offset' = 0 /\ end' = 0 /\ lanes' = <<>> /\ laneOf' = <<>> /\ parents' = parents
  BY DEF Serve
<1>6. DOMAIN shown' \subseteq Rows
  BY <1>4, <1>5 DEF IInv, TypeOK
<1>7. \A r \in DOMAIN shown' : shown'[r] \in Lane
  <2>1. \A r \in Page : shown'[r] = laneOf[r] /\ laneOf[r] \in Lane
    BY <1>4, <1>5 DEF IInv, TypeOK
  <2>2. \A r \in DOMAIN shown \ Page : shown'[r] = shown[r]
    BY <1>5
  <2>3. \A r \in DOMAIN shown : shown[r] \in Lane
    BY DEF IInv, TypeOK, Range
  <2>4. DOMAIN shown' = Page \cup DOMAIN shown
    BY <1>5
  <2>. QED  BY <2>1, <2>2, <2>3, <2>4
<1>8. TypeOK'
  <2>1. Range(shown)' \subseteq Lane
    BY <1>7 DEF Range
  <2>2. lanes' \in Seq(Rows \cup {Free}) /\ Len(lanes') = 0
        /\ laneOf' \in Seq(Lane) /\ Len(laneOf') = 0
    BY <1>5
  <2>3. parents' \in [Rows -> SUBSET Rows] /\ offset' \in 0..Length /\ end' \in 0..Length
    BY <1>5, LengthAssumption DEF IInv, TypeOK
  <2>4. Len(lanes') <= MaxLanes /\ Len(laneOf') <= end'
    BY <1>5, <2>2, LanesAssumption
  <2>. QED  BY <1>6, <2>1, <2>2, <2>3, <2>4 DEF TypeOK
<1>9. Held'
  BY <1>5 DEF Held, Swept
<1>. QED  BY <1>8, <1>9 DEF IInv

(* At first nothing is swept and no lane is held.                           *)
LEMMA InitIInv == Init => IInv
<1>. SUFFICES ASSUME Init PROVE IInv
  OBVIOUS
<1>1. parents \in [Rows -> SUBSET Rows]
  BY DEF Init, Logs
<1>2. /\ lanes \in Seq(Rows \cup {Free}) /\ Len(lanes) = 0
      /\ laneOf \in Seq(Lane) /\ Len(laneOf) = 0
      /\ DOMAIN shown = {} /\ DOMAIN laneOf = {}
  BY DEF Init
<1>3. TypeOK
  BY <1>1, <1>2, LengthAssumption, LanesAssumption DEF Init, TypeOK, Range
<1>. QED  BY <1>2, <1>3 DEF IInv, Held, Swept

(* Every step keeps the strengthening.                                      *)
LEMMA NextIInv == IInv /\ [Next]_vars => IInv'
<1>. SUFFICES ASSUME IInv, [Next]_vars PROVE IInv'
  OBVIOUS
<1>1. ASSUME NEW o \in 0..(Length - 1), Scroll(o) PROVE IInv'
  BY <1>1, ScrollStep
<1>2. CASE PlaceTip
  BY <1>2, TipStep
<1>3. CASE PlaceBelowChild
  BY <1>3, BelowChildStep
<1>4. CASE PlaceBelowChildren
  BY <1>4, BelowChildrenStep
<1>5. CASE Serve
  BY <1>5, ServeStep
<1>6. CASE UNCHANGED vars
  BY <1>6 DEF vars, IInv, TypeOK, Held, Room, Swept, Runs, Holds, row, Rows, Lane, Free, Range
<1>. QED  BY <1>1, <1>2, <1>3, <1>4, <1>5, <1>6 DEF Next

(* Two commits that hold lanes hold different ones.                         *)
LEMMA HeldApart == IInv => LinesApart
<1>. SUFFICES ASSUME IInv, ChildrenFirst(parents), MergeFree(parents), Room,
                     NEW c \in Swept, NEW d \in Swept, c # d, Runs(c), Runs(d)
              PROVE  laneOf[c] # laneOf[d]
  BY DEF LinesApart, OneLinePerLane
<1>. QED  BY HoldersDiffer DEF IInv, Held

(* Lane numbers fit in their type for every log: however many lines there   *)
(* are side by side, a row gets one of the lanes 0 to MaxLanes - 1.         *)
THEOREM TypeCorrect == Spec => []TypeOK
<1>1. IInv => TypeOK
  BY DEF IInv
<1>. QED  BY InitIInv, NextIInv, <1>1, PTL DEF Spec

(* Two lines of a log without merges are never drawn on one lane, however   *)
(* long the log and however often lanes were freed and used again.          *)
THEOREM LinesKeepApart == Spec => []LinesApart
BY InitIInv, NextIInv, HeldApart, PTL DEF Spec

-----------------------------------------------------------------------------
(* Pages of different depth.  Where children come before their parents, the *)
(* place of a row follows from the lanes of its children and from the       *)
(* vector as it is when the row's turn comes, however far the sweep will    *)
(* go: f has the lane of every child.                                       *)
Kids(r) == {c \in Rows : r \in parents[c]}

HoldIn(v, l, r) == IF l < Len(v) THEN [v EXCEPT ![l + 1] = r] ELSE v
FreeIn(v)       == {l \in Lane : l < Len(v) /\ v[l + 1] = Free}
LanesOf(f)      == {f[c] : c \in DOMAIN f}
FreedOf(f) ==
    {l \in LanesOf(f) : \/ l # Min(LanesOf(f))
                        \/ Cardinality({c \in DOMAIN f : f[c] = l}) > 1}
CutOut(v, ls) == [i \in DOMAIN v |-> IF i - 1 \in ls THEN Free ELSE v[i]]

PlaceOf(r, f, v) ==
    IF DOMAIN f = {} THEN
        IF FreeIn(v) # {} THEN <<Min(FreeIn(v)), HoldIn(v, Min(FreeIn(v)), r)>>
        ELSE IF Len(v) < MaxLanes THEN <<Len(v), Append(v, r)>> ELSE <<0, v>>
    ELSE IF \E c : DOMAIN f = {c} THEN
        <<Min(LanesOf(f)), HoldIn(v, Min(LanesOf(f)), r)>>
    ELSE <<Min(LanesOf(f)), CutOut(HoldIn(v, Min(LanesOf(f)), r), FreedOf(f))>>

(* The lanes ls of the first rows, with the vectors vs between them, are    *)
(* those of a sweep.                                                        *)
Run(ls, vs) ==
    /\ Len(ls) \in Nat /\ vs[0] = <<>>
    /\ \A k \in 1..Len(ls) :
          <<ls[k], vs[k]>> = PlaceOf(k, [c \in Kids(k) |-> ls[c]], vs[k - 1])

(* Two sweeps of a log give a row the same lane: there is no first row that *)
(* they differ at.                                                          *)
LEMMA RunsAgree ==
    ASSUME IInv, ChildrenFirst(parents), NEW ls, NEW vs, NEW ms, NEW ws, Run(ls, vs), Run(ms, ws),
           NEW r, r \in 1..Len(ls), r \in 1..Len(ms)
    PROVE  ls[r] = ms[r]
<1>. DEFINE Same(k) == vs[k] = ws[k] /\ (k # 0 => ls[k] = ms[k])
            D == {k \in Nat : k <= Len(ls) /\ k <= Len(ms) /\ ~Same(k)}
<1>1. Len(ls) \in Nat /\ Len(ms) \in Nat
  BY DEF Run
<1>2. D = {}
  <2>. SUFFICES ASSUME D # {} PROVE FALSE
    OBVIOUS
  <2>1. D \in SUBSET Nat
    OBVIOUS
  <2>2. PICK k \in D : \A j \in D : k <= j
    BY <2>1, MinIsOne
  <2>3. k \in Nat /\ k <= Len(ls) /\ k <= Len(ms) /\ ~Same(k)
    BY <2>2
  <2>4. k # 0
    BY <2>3 DEF Run
  <2>5. \A j \in 0..(k - 1) : Same(j)
    BY <1>1, <2>2, <2>3
  <2>6. \A c \in Kids(k) : c \in 1..(k - 1)
    BY <1>1, <2>3, <2>4, LengthAssumption DEF Kids, ChildrenFirst, Rows, IInv, TypeOK
  <2>7. [c \in Kids(k) |-> ls[c]] = [c \in Kids(k) |-> ms[c]]
    BY <2>3, <2>5, <2>6
  <2>8. vs[k - 1] = ws[k - 1]
    BY <2>3, <2>4, <2>5
  <2>9. k \in 1..Len(ls) /\ k \in 1..Len(ms)
    BY <1>1, <2>3, <2>4
  <2>10. <<ls[k], vs[k]>> = <<ms[k], ws[k]>>
    BY <2>7, <2>8, <2>9 DEF Run
  <2>. QED BY <2>3, <2>10
<1>3. r \in Nat /\ r # 0 /\ r <= Len(ls) /\ r <= Len(ms)
  BY <1>1
<1>. QED BY <1>2, <1>3

(* The children of a row in turn have all been swept.                       *)
LEMMA KidsAreSwept ==
    ASSUME IInv, ChildrenFirst(parents), row <= end
    PROVE  Kids(row) = Children(row) /\ Kids(row) \subseteq Swept /\ Above(row) = Kids(row)
<1>1. /\ Swept = 1..Len(laneOf) /\ Len(laneOf) \in Nat /\ row = Len(laneOf) + 1
      /\ end \in 0..Length
  BY SweptRows DEF IInv, TypeOK, row
<1>2. \A c \in Rows : row \in parents[c] => c < row
  BY <1>1, LengthAssumption DEF ChildrenFirst, Rows, IInv, TypeOK
<1>3. Kids(row) \subseteq Swept
  BY <1>1, <1>2 DEF Kids, Rows
<1>4. Kids(row) = Children(row)
  BY <1>1, <1>2, LengthAssumption DEF Kids, Children, Rows
<1>. QED BY <1>3, <1>4 DEF Above

(* The three turns are what PlaceOf says.                                   *)
LEMMA TurnIsPlaceOf ==
    ASSUME IInv, ChildrenFirst(parents), PlaceTip \/ PlaceBelowChild \/ PlaceBelowChildren,
           NEW r, r = row, NEW v, v = lanes, NEW f, f = [c \in Kids(row) |-> laneOf[c]]
    PROVE  \E l, w : <<l, w>> = PlaceOf(r, f, v) /\ Place(l, w)
<1>1. row <= end
  BY DEF PlaceTip, PlaceBelowChild, PlaceBelowChildren
<1>2. /\ Kids(row) = Children(row) /\ Kids(row) \subseteq Swept /\ Above(row) = Kids(row)
      /\ DOMAIN f = Kids(row)
  BY <1>1, KidsAreSwept
<1>3. \A l : HoldIn(v, l, r) = Hold(l)
  BY DEF HoldIn, Hold
<1>4. LanesOf(f) = ChildLanes(row) /\ FreedOf(f) = Freed(row)
  <2>1. LanesOf(f) = ChildLanes(row)
    BY <1>2 DEF LanesOf, ChildLanes
  <2>2. \A l : {c \in DOMAIN f : f[c] = l} = {c \in Above(row) : laneOf[c] = l}
    BY <1>2
  <2>. QED BY <2>1, <2>2 DEF FreedOf, Freed
<1>5. ASSUME PlaceRightmost, DOMAIN f = {}, FreeIn(v) = {}
      PROVE  \E l, w : <<l, w>> = PlaceOf(r, f, v) /\ Place(l, w)
  BY <1>5 DEF PlaceRightmost, Room, PlaceOf
<1>6. CASE PlaceTip
  <2>1. FreeLanes = FreeIn(v) /\ DOMAIN f = {}
    BY <1>2, <1>6 DEF FreeLanes, FreeIn, PlaceTip
  <2>2. CASE FreeLanes = {}
    BY <1>5, <1>6, <2>1, <2>2 DEF PlaceTip
  <2>3. CASE FreeLanes # {}
    BY <1>3, <1>6, <2>1, <2>3 DEF PlaceTip, PlaceOf
  <2>. QED BY <2>2, <2>3
<1>7. CASE PlaceBelowChild
  <2>1. PICK c \in 1..end : Children(row) = {c} /\ Place(laneOf[c], Hold(laneOf[c]))
    BY <1>2, <1>7 DEF PlaceBelowChild
  <2>2. LanesOf(f) = {laneOf[c]} /\ laneOf[c] \in Nat
    BY <1>2, <2>1, LanesAssumption, SweptRows DEF LanesOf, IInv, TypeOK, Lane
  <2>3. Min(LanesOf(f)) = laneOf[c]
    <3>1. LanesOf(f) \in SUBSET Nat /\ LanesOf(f) # {}
      BY <2>2
    <3>. QED BY <2>2, <3>1, MinIsOne
  <2>4. PlaceOf(r, f, v) = <<laneOf[c], HoldIn(v, laneOf[c], r)>>
    BY <1>2, <2>1, <2>3 DEF PlaceOf
  <2>. QED BY <1>3, <2>1, <2>4
<1>8. CASE PlaceBelowChildren
  <2>1. Cardinality(DOMAIN f) > 1
    BY <1>2, <1>8 DEF PlaceBelowChildren
  <2>2. DOMAIN f # {} /\ ~\E c : DOMAIN f = {c}
    <3>1. Cardinality({}) = 0 /\ \A c : Cardinality({c}) = 1
      BY FS_EmptySet, FS_Singleton
    <3>2. DOMAIN f # {}
      BY <2>1, <3>1
    <3>3. ASSUME NEW c, DOMAIN f = {c} PROVE FALSE
      <4>1. Cardinality(DOMAIN f) = 1
        BY <3>1, <3>3
      <4>. QED BY <2>1, <4>1
    <3>. QED BY <3>2, <3>3
  <2>3. Place(Min(ChildLanes(row)), CutOut(Hold(Min(ChildLanes(row))), Freed(row)))
    BY <1>2, <1>8, <2>2 DEF PlaceBelowChildren, CutOut
  <2>4. PlaceOf(r, f, v) =
           <<Min(ChildLanes(row)), CutOut(Hold(Min(ChildLanes(row))), Freed(row))>>
    BY <1>3, <1>4, <2>2 DEF PlaceOf
  <2>. QED BY <2>3, <2>4
<1>. QED BY <1>6, <1>7, <1>8

(* The sweep under way, and the one that gave a row of the webview its      *)
(* lane.                                                                    *)
SweepIsRun == \E vs : Run(laneOf, vs) /\ vs[Len(laneOf)] = lanes
ShownBySweep(r) == \E ls, vs : Run(ls, vs) /\ r \in 1..Len(ls) /\ ls[r] = shown[r]

PagesInv ==
    ChildrenFirst(parents) => SweepIsRun /\ \A r \in DOMAIN shown : ShownBySweep(r)

(* Another turn goes on with the sweep.                                     *)
LEMMA TurnGoesOn ==
    ASSUME IInv, PagesInv, PlaceTip \/ PlaceBelowChild \/ PlaceBelowChildren
    PROVE  PagesInv'
<1>. SUFFICES ASSUME ChildrenFirst(parents)'
              PROVE  SweepIsRun' /\ \A r \in DOMAIN shown' : ShownBySweep(r)'
  BY DEF PagesInv
<1>1. UNCHANGED <<parents, shown>> /\ row <= end
  BY DEF PlaceTip, PlaceBelowChild, PlaceBelowChildren, Sweep
<1>2. ChildrenFirst(parents) /\ SweepIsRun /\ \A r \in DOMAIN shown : ShownBySweep(r)
  BY <1>1 DEF PagesInv
<1>3. \A k : Kids(k)' = Kids(k)
  BY <1>1 DEF Kids
<1>4. \A r \in DOMAIN shown' : ShownBySweep(r)'
  BY <1>1, <1>2, <1>3 DEF ShownBySweep, Run
<1>5. PICK n, r, v, f, ls : /\ n = Len(laneOf) /\ r = row /\ v = lanes /\ ls = laneOf
                            /\ f = [c \in Kids(row) |-> laneOf[c]]
  OBVIOUS
<1>6. n \in Nat /\ r = n + 1 /\ ls \in Seq(Lane) /\ Len(ls) = n
  BY <1>5 DEF row, IInv, TypeOK
<1>7. PICK l, w : <<l, w>> = PlaceOf(r, f, v) /\ Place(l, w)
  BY <1>2, <1>5, TurnIsPlaceOf
<1>8. PICK vs : Run(ls, vs) /\ vs[n] = v
  BY <1>2, <1>5 DEF SweepIsRun
<1>. DEFINE ms == Append(ls, l)
            ws == [k \in 0..r |-> IF k = r THEN w ELSE vs[k]]
<1>9. laneOf' = ms /\ lanes' = w
  BY <1>5, <1>7 DEF Place
<1>10. Len(ms) = r /\ ms[r] = l /\ \A k \in 1..n : ms[k] = ls[k]
  BY <1>6
<1>11. ws[0] = <<>> /\ ws[r] = w /\ \A k \in 0..n : ws[k] = vs[k]
  BY <1>6, <1>8 DEF Run
<1>12. ASSUME NEW k \in 1..r, NEW c \in Kids(k) PROVE c \in 1..n
  BY <1>2, <1>6, <1>12, LengthAssumption DEF Kids, ChildrenFirst, Rows, IInv, TypeOK
<1>. HIDE DEF ms, ws
<1>13. ASSUME NEW k \in 1..r
       PROVE  <<ms[k], ws[k]>> = PlaceOf(k, [c \in Kids(k) |-> ms[c]], ws[k - 1])
  <2>1. [c \in Kids(k) |-> ms[c]] = [c \in Kids(k) |-> ls[c]]
    BY <1>10, <1>12
  <2>2. CASE k = r
    <3>1. f = [c \in Kids(k) |-> ls[c]]
      BY <1>5, <2>2
    <3>2. ws[k - 1] = v
      BY <1>6, <1>8, <1>11, <2>2
    <3>. QED BY <1>7, <1>10, <1>11, <2>1, <2>2, <3>1, <3>2
  <2>3. CASE k # r
    <3>1. k \in 1..n /\ k - 1 \in 0..n
      BY <1>6, <2>3
    <3>2. <<ls[k], vs[k]>> = PlaceOf(k, [c \in Kids(k) |-> ls[c]], vs[k - 1])
      BY <1>6, <1>8, <3>1 DEF Run
    <3>. QED BY <1>6, <1>10, <1>11, <2>1, <3>1, <3>2
  <2>. QED BY <2>2, <2>3
<1>14. Run(ms, ws)'
  <2>1. r \in Nat
    BY <1>6
  <2>2. \A k \in 1..Len(ms) :
           <<ms[k], ws[k]>> = PlaceOf(k, [c \in Kids(k)' |-> ms[c]], ws[k - 1])
    BY <1>3, <1>10, <1>13
  <2>. QED BY <1>10, <1>11, <2>1, <2>2 DEF Run
<1>15. SweepIsRun'
  BY <1>9, <1>10, <1>11, <1>14 DEF SweepIsRun
<1>. QED BY <1>4, <1>15

(* A page that is served has the lanes of its sweep, and so it agrees with  *)
(* what is shown.                                                           *)
LEMMA ServeAgrees ==
    ASSUME IInv, PagesInv, Serve, ChildrenFirst(parents)
    PROVE  /\ \A r \in DOMAIN shown : shown'[r] = shown[r]
           /\ \A r \in DOMAIN shown' : ShownBySweep(r)'
<1>1. SweepIsRun /\ \A r \in DOMAIN shown : ShownBySweep(r)
  BY DEF PagesInv
<1>2. /\ shown' = [r \in Page \cup DOMAIN shown |-> IF r \in Page THEN laneOf[r] ELSE shown[r]]
      /\ parents' = parents
  BY DEF Serve
<1>3. Page \subseteq 1..Len(laneOf)
  <2>. DEFINE S == {end, offset + Limit}
  <2>1. S \in SUBSET Nat /\ S # {} /\ offset \in Nat /\ end \in Nat
    BY PageAssumption DEF IInv, TypeOK
  <2>2. Min(S) \in Nat /\ Min(S) <= end
    BY <2>1, MinIsOne
  <2>3. Page = (offset + 1)..Min(S)
    BY DEF Page
  <2>4. Len(laneOf) = end
    BY <2>1 DEF Serve, row, IInv, TypeOK
  <2>. HIDE DEF S
  <2>. QED BY <2>1, <2>2, <2>3, <2>4
<1>4. PICK ls, vs : ls = laneOf /\ Run(ls, vs)
  BY <1>1 DEF SweepIsRun
<1>5. \A r \in DOMAIN shown : shown'[r] = shown[r]
  <2>. SUFFICES ASSUME NEW r \in DOMAIN shown, r \in Page PROVE laneOf[r] = shown[r]
    BY <1>2
  <2>1. PICK ms, ws : Run(ms, ws) /\ r \in 1..Len(ms) /\ ms[r] = shown[r]
    BY <1>1 DEF ShownBySweep
  <2>. QED BY <1>3, <1>4, <2>1, RunsAgree
<1>6. \A k, ms, ws : Kids(k)' = Kids(k) /\ (Run(ms, ws)' <=> Run(ms, ws))
  BY <1>2 DEF Kids, Run
<1>7. ASSUME NEW r \in DOMAIN shown' PROVE ShownBySweep(r)'
  <2>1. CASE r \in Page
    BY <1>2, <1>3, <1>4, <1>6, <2>1 DEF ShownBySweep
  <2>2. CASE r \notin Page
    <3>1. r \in DOMAIN shown /\ shown'[r] = shown[r]
      BY <1>2, <2>2
    <3>. QED BY <1>1, <1>6, <3>1 DEF ShownBySweep
  <2>. QED BY <2>1, <2>2
<1>. QED BY <1>5, <1>7

(* Before the first row there is a sweep of none.                           *)
LEMMA NoRows ==
    /\ lanes = <<>> /\ laneOf = <<>> => SweepIsRun
    /\ lanes' = <<>> /\ laneOf' = <<>> => SweepIsRun'
<1>. DEFINE vs == [k \in {0} |-> <<>>]
<1>1. vs[0] = <<>> /\ Len(<<>>) = 0 /\ 1..0 = {}
  OBVIOUS
<1>. HIDE DEF vs
<1>. QED BY <1>1 DEF SweepIsRun, Run

(* Every step keeps the sweeps, and none moves a row to another lane.       *)
LEMMA PagesInductive == Spec => []PagesInv
<1>1. Init => PagesInv
  BY NoRows DEF Init, PagesInv
<1>2. IInv /\ PagesInv /\ [Next]_vars => PagesInv'
  <2>. SUFFICES ASSUME IInv, PagesInv, [Next]_vars PROVE PagesInv'
    OBVIOUS
  <2>1. CASE PlaceTip \/ PlaceBelowChild \/ PlaceBelowChildren
    BY <2>1, TurnGoesOn
  <2>2. CASE Serve
    <3>1. parents' = parents /\ lanes' = <<>> /\ laneOf' = <<>>
      BY <2>2 DEF Serve
    <3>. QED BY <2>2, <3>1, NoRows, ServeAgrees DEF PagesInv
  <2>3. CASE UNCHANGED <<parents, lanes, laneOf, shown>>
    <3>1. \A k : Kids(k)' = Kids(k)
      BY <2>3 DEF Kids
    <3>2. \A ls, vs : Run(ls, vs)' <=> Run(ls, vs)
      BY <3>1 DEF Run
    <3>. QED BY <2>3, <3>2 DEF PagesInv, SweepIsRun, ShownBySweep
  <2>. QED BY <2>1, <2>2, <2>3 DEF Next, Scroll, vars
<1>. QED BY <1>1, <1>2, InitIInv, NextIInv, PTL DEF Spec

(* Scrolling never moves a row to another lane, however deep the pages are  *)
(* and in whatever order they come, for every log that has its children     *)
(* before their parents.                                                    *)
THEOREM ScrollingKeepsLanes == Spec => PagesAgree
<1>1. IInv /\ PagesInv /\ [Next]_vars =>
        [ChildrenFirst(parents) => \A r \in DOMAIN shown : shown'[r] = shown[r]]_vars
  <2>. SUFFICES ASSUME IInv, PagesInv, Next, ChildrenFirst(parents), NEW r \in DOMAIN shown
                PROVE  shown'[r] = shown[r]
    OBVIOUS
  <2>1. CASE Serve
    BY <2>1, ServeAgrees
  <2>2. CASE ~Serve
    BY <2>2 DEF Next, Scroll, PlaceTip, PlaceBelowChild, PlaceBelowChildren, Sweep
  <2>. QED BY <2>1, <2>2
<1>. QED BY <1>1, PagesInductive, InitIInv, NextIInv, PTL DEF Spec, PagesAgree

=============================================================================
