------------------------------ MODULE Picture ------------------------------
(***************************************************************************)
(* The picture src/view/graph.py draws of a deployment: a column per       *)
(* strong component in the order the walk over every placed entry returns, *)
(* and a cell per entry and per generated value.  A slot of no known shape *)
(* is left out of the plan before it is walked.                            *)
(***************************************************************************)
EXTENDS Walk

CONSTANTS
  ValueKeys,   \* the plan keys of the generated values, none of them an entry's
  ReaderSets   \* bound: the sets of entries that may read a value

ASSUME ValuesAssumption ==
  /\ ValueKeys \subseteq Nat
  /\ IsFiniteSet(ValueKeys)
  /\ ValueKeys \cap Keys = {}
  /\ ReaderSets \subseteq SUBSET Placed

VARIABLES
  result,    \* what the walk returned: the order, the cycles, the broken reads
  columns,   \* the column of every entry
  readers,   \* who reads each value
  cells      \* the place of every entry and value

picture == <<result, columns, readers, cells>>

Shown == Placed \cup ValueKeys

(* `_columns`: a column begins at an entry of no cycle and at the first    *)
(* entry of each.                                                          *)
Begins(order, cycles) ==
  {p \in 1 .. Len(order) :
     \A cycle \in cycles : order[p] \in cycle => \A q \in 1 .. p - 1 : order[q] \notin cycle}

Columns(order, cycles) ==
  LET begins == Begins(order, cycles)
  IN [entry \in Placed |->
        Cardinality({p \in begins : \E q \in p .. Len(order) : order[q] = entry}) - 1]

Arrange ==
  /\ phase = "ordered" /\ selected = Placed
  /\ phase' = "arranged"
  /\ result' = [order |-> Order, cycles |-> Cycles, broken |-> Broken]
  /\ columns' = Columns(result'.order, result'.cycles)
  /\ UNCHANGED <<plan, selected, forward, components, tarjan, kahn, readers, cells>>

(* Mutant: a value is drawn before the last of its readers.                *)
BeforeLast(into) ==
  IF into = {} THEN -1
  ELSE (CHOOSE c \in {columns[r] : r \in into} : \A r \in into : columns[r] <= c) - 1

(* A value is drawn before the first of its readers, or of all entries.    *)
Before(into) == IF into = {} THEN -1 ELSE Lowest({columns[r] : r \in into}) - 1

(* `_cells`: the columns moved so that the first is 0, and in each column  *)
(* the keys in their order.                                                *)
Draw ==
  /\ phase = "arranged"
  /\ phase' = "drawn"
  /\ readers' \in [ValueKeys -> ReaderSets]
  /\ LET at == [key \in Shown |->
                 IF key \in Placed THEN columns[key] ELSE Before(readers'[key])]
         first == Lowest({at[key] : key \in Shown})
     IN cells' = [key \in Shown |->
          [column |-> at[key] - first,
           row |-> Cardinality({other \in Shown : other < key /\ at[other] = at[key]})]]
  /\ UNCHANGED <<plan, selected, forward, components, tarjan, kahn, result, columns>>

PictureInit == result = <<>> /\ columns = <<>> /\ readers = <<>> /\ cells = <<>>

PictureNext ==
  \/ WalkStep /\ UNCHANGED picture
  \/ Arrange \/ Draw
  \/ (Returned \/ phase = "drawn") /\ UNCHANGED <<walk, picture>>

PictureSpec == WalkInit /\ PictureInit /\ [][PictureNext]_<<walk, picture>>

-----------------------------------------------------------------------------
(* Whoever reads which value, the picture can be read: no two cells share  *)
(* a place and none is off the page; two entries share a column exactly    *)
(* when they are of one cycle; every arrow points right, or stays in its   *)
(* column inside a cycle, as each that the run contradicts does; and a     *)
(* value stands left of all its readers.                                   *)
Legible ==
  phase = "drawn" =>
    /\ \A key, other \in Shown : cells[key] = cells[other] => key = other
    /\ \A key \in Shown : cells[key].column >= 0
    /\ Shown # {} => \E key \in Shown : cells[key].column = 0
    /\ \A a, b \in Placed :
         cells[a].column = cells[b].column
           <=> (a = b \/ \E cycle \in result.cycles : {a, b} \subseteq cycle)
    /\ \A edge \in EdgesOf(forward) : cells[edge[1]].column <= cells[edge[2]].column
    /\ \A edge \in result.broken : cells[edge[1]].column = cells[edge[2]].column
    /\ \A value \in ValueKeys : \A reader \in readers[value] :
         cells[value].column < cells[reader].column
=============================================================================
