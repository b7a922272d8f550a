--------------------------------- MODULE Lanes ---------------------------------
(****************************************************************************)
(* The columns of the commit graph: the sweep of read_graph_page            *)
(* (crates/engine/src/gix_read.rs) over the log, newest commit first, which *)
(* gives every row a lane, and the pages of rows the webview collects while *)
(* the user scrolls.  Every page is swept from the first row of the log.    *)
(* The log does not move here; GraphEpoch has the epochs.                   *)
(****************************************************************************)
EXTENDS Naturals, Sequences, FiniteSets, SequencesExt, FiniteSetsExt, Functions

CONSTANTS
    Length,    \* commits in the log, row 1 is the newest
    Limit,     \* rows of a page
    Margin,    \* PRELOAD_MARGIN: rows walked below a page
    MaxLanes   \* u16::MAX

ASSUME LengthAssumption == Length \in Nat \ {0}
ASSUME PageAssumption == Limit \in Nat \ {0} /\ Margin \in Nat
ASSUME LanesAssumption == MaxLanes \in Nat \ {0}

Rows == 1..Length
Lane == 0..(MaxLanes - 1)
Free == 0    \* None in the vector of lanes

VARIABLES
    parents,  \* the log: the rows of each commit's parents
    offset,   \* the page asked for: it begins below this row
    end,      \* rows walked for it, 0 when no page is asked for
    lanes,    \* the vector: the commit that holds each lane, or Free
    laneOf,   \* commit_lanes of the rows swept
    shown     \* the lanes of the rows the webview has

vars == <<parents, offset, end, lanes, laneOf, shown>>

(* The row the sweep is at, and those it has been at.                       *)
row   == Len(laneOf) + 1
Swept == DOMAIN laneOf

(* The walk is by commit time.  It puts children before their parents,      *)
(* unless a clock was wrong when they were committed; then a parent may     *)
(* come first, if a ref names it.  Bound: no more than two parents.         *)
ChildrenFirst(log) == \A r \in Rows : \A p \in log[r] : p > r
MergeFree(log)     == \A r \in Rows : Cardinality(log[r]) <= 1
Acyclic(log) ==
    \A S \in SUBSET Rows \ {{}} : \E r \in S : log[r] \cap S = {}
Logs == {log \in [Rows -> {ps \in SUBSET Rows : Cardinality(ps) <= 2}] : Acyclic(log)}

TypeOK ==
    /\ parents \in [Rows -> SUBSET Rows]
    /\ offset \in 0..Length /\ end \in 0..Length
    /\ lanes \in Seq(Rows \cup {Free}) /\ Len(lanes) <= MaxLanes
    /\ laneOf \in Seq(Lane) /\ Len(laneOf) <= end
    /\ DOMAIN shown \subseteq Rows /\ Range(shown) \subseteq Lane

Init ==
    /\ parents \in Logs
    /\ offset = 0 /\ end = 0
    /\ lanes = <<>> /\ laneOf = <<>> /\ shown = <<>>

-----------------------------------------------------------------------------
(* Mutant: the children are looked for in the page only.                    *)
ChildrenInPage(r) == {c \in (offset + 1)..end : r \in parents[c]}

(* The map of children, made of the rows walked.                            *)
Children(r) == {c \in 1..end : r \in parents[c]}

Place(l, vector) == laneOf' = Append(laneOf, l) /\ lanes' = vector
Hold(l) == IF l < Len(lanes) THEN [lanes EXCEPT ![l + 1] = row] ELSE lanes
Sweep == UNCHANGED <<parents, offset, end, shown>>

(* Mutant: the vector may grow by one lane more than a lane number can say. *)
RoomLoose == Len(lanes) <= MaxLanes

Room == Len(lanes) < MaxLanes

(* A new lane at the right, or lane 0 when lane numbers are used up.        *)
PlaceRightmost ==
    \/ Room /\ Place(Len(lanes), Append(lanes, row))
    \/ ~Room /\ Place(0, lanes)

(* A tip gets the lowest free lane.                                         *)
FreeLanes == {l \in Lane : l < Len(lanes) /\ lanes[l + 1] = Free}
PlaceTip ==
    /\ row <= end /\ Children(row) = {}
    /\ IF FreeLanes = {} THEN PlaceRightmost
                         ELSE Place(Min(FreeLanes), Hold(Min(FreeLanes)))
    /\ Sweep

(* An only child hands its lane down; one not swept yet counts as lane 0.   *)
PlaceBelowChild ==
    /\ row <= end
    /\ \E c \in 1..end :
         /\ Children(row) = {c}
         /\ LET l == IF c \in Swept THEN laneOf[c] ELSE 0 IN Place(l, Hold(l))
    /\ Sweep

(* Below several children the leftmost of their lanes goes on and the       *)
(* others are freed: the leftmost as well, if two children are on it.       *)
Above(r) == Children(r) \cap Swept
ChildLanes(r) == {laneOf[c] : c \in Above(r)}

(* Mutant: all lanes of the children are freed.                             *)
FreedAll(r) == ChildLanes(r)

Freed(r) ==
    {l \in ChildLanes(r) : \/ l # Min(ChildLanes(r))
                           \/ Cardinality({c \in Above(r) : laneOf[c] = l}) > 1}

PlaceBelowChildren ==
    /\ row <= end /\ Cardinality(Children(row)) > 1
    /\ IF Above(row) = {} THEN PlaceRightmost
       ELSE LET l    == Min(ChildLanes(row))
                kept == Hold(l)
            IN  Place(l, [i \in DOMAIN kept |-> IF i - 1 \in Freed(row) THEN Free ELSE kept[i]])
    /\ Sweep

-----------------------------------------------------------------------------
(* The webview asks for a page of rows; they are cut out of the rows swept  *)
(* and put beside, or over, those it has.                                   *)
Scroll(o) ==
    /\ end = 0
    /\ offset' = o
    /\ end' = Min({Length, o + Limit + Margin})
    /\ UNCHANGED <<parents, lanes, laneOf, shown>>

Page == (offset + 1)..Min({end, offset + Limit})

Serve ==
    /\ end # 0 /\ row = end + 1
    /\ shown' = [r \in Page \cup DOMAIN shown |-> IF r \in Page THEN laneOf[r] ELSE shown[r]]
    /\ offset' = 0 /\ end' = 0 /\ lanes' = <<>> /\ laneOf' = <<>>
    /\ UNCHANGED parents

Next ==
    \/ \E o \in 0..(Length - 1) : Scroll(o)
    \/ PlaceTip \/ PlaceBelowChild \/ PlaceBelowChildren
    \/ Serve

Spec == Init /\ [][Next]_vars

-----------------------------------------------------------------------------
(* Properties.                                                              *)

(* Scrolling never moves a row to another lane: pages of different depth,   *)
(* each swept from the top for itself, fit together.                        *)
PagesAgree ==
    [][ChildrenFirst(parents) => \A r \in DOMAIN shown : shown'[r] = shown[r]]_vars

(* The lane of a commit is its line's until its parents are reached: no two *)
(* lines share a lane.  Where a commit has two parents both lines begin on  *)
(* its lane; without merges, and as long as lane numbers suffice, this      *)
(* never happens.                                                           *)
Runs(c) == \E p \in parents[c] : p >= row
OneLinePerLane ==
    \A c, d \in Swept : c # d /\ Runs(c) /\ Runs(d) => laneOf[c] # laneOf[d]
LinesApart ==
    ChildrenFirst(parents) /\ MergeFree(parents) /\ Room => OneLinePerLane

=============================================================================
