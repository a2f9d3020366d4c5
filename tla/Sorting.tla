------------------------------ MODULE Sorting ------------------------------
(***************************************************************************)
(* BubbleSort and ChoiseSort (bubbleSort.c) and revstr (revstr.c): nested  *)
(* loops over an array, one step for each round of the inner loop.  Arrays *)
(* begin at 0, as in the code.                                             *)
(***************************************************************************)
EXTENDS Integers, FiniteSets

CONSTANTS
  Values,   \* what an array holds
  MaxSize   \* bound: length of an array

ASSUME SortAssumption == Values \subseteq Int /\ MaxSize \in Nat

VARIABLES
  algorithm,  \* "bubble", "choise", "rev"
  phase,      \* "outer", "inner", "done"
  size, data,
  outLoop, inLoop,
  index,      \* ChoiseSort's place of the least element; revstr's index
  given       \* history: the array at the start

sortVars == <<algorithm, phase, size, data, outLoop, inLoop, index, given>>

Indices(n) == 0 .. n - 1

SortInit ==
  /\ algorithm \in {"bubble", "choise", "rev"}
  /\ phase = "outer" /\ size \in 0 .. MaxSize
  /\ data \in [Indices(size) -> Values] /\ given = data
  /\ outLoop = 0 /\ inLoop = 0 /\ index = 0

\* Three exclusive ors; of an element with itself they leave 0.
Exchange(d, i, j) ==
  [k \in DOMAIN d |-> IF i = j /\ k = i THEN 0
                      ELSE IF k = i THEN d[j] ELSE IF k = j THEN d[i] ELSE d[k]]

\* the head of the outer loop of both sorts
Outer ==
  /\ phase = "outer" /\ algorithm # "rev"
  /\ IF outLoop < size - 1
       THEN phase' = "inner" /\ inLoop' = outLoop + 1 /\ index' = outLoop
       ELSE phase' = "done" /\ UNCHANGED <<inLoop, index>>
  /\ UNCHANGED <<algorithm, size, data, outLoop, given>>

\* Mutant of NextInner: the last place is left out.
NextInnerShort ==
  /\ inLoop' = inLoop + 1
  /\ IF inLoop + 1 < size - 1
       THEN UNCHANGED <<phase, outLoop>>
       ELSE phase' = "outer" /\ outLoop' = outLoop + 1

NextInner ==
  /\ inLoop' = inLoop + 1
  /\ IF inLoop + 1 < size
       THEN UNCHANGED <<phase, outLoop>>
       ELSE phase' = "outer" /\ outLoop' = outLoop + 1

BubbleSort ==
  /\ phase = "inner" /\ algorithm = "bubble"
  /\ data' = IF data[outLoop] > data[inLoop] THEN Exchange(data, outLoop, inLoop) ELSE data
  /\ NextInner
  /\ UNCHANGED <<algorithm, size, index, given>>

\* The exchange is inside the inner loop and index goes on from its place.
ChoiseSort ==
  /\ phase = "inner" /\ algorithm = "choise"
  /\ index' = IF data[index] > data[inLoop] THEN inLoop ELSE index
  /\ data' = IF outLoop # index' THEN Exchange(data, outLoop, index') ELSE data
  /\ NextInner
  /\ UNCHANGED <<algorithm, size, given>>

revstr ==
  /\ phase = "outer" /\ algorithm = "rev"
  /\ IF index < size \div 2
       THEN /\ data' = Exchange(data, index, size - index - 1)
            /\ index' = index + 1 /\ UNCHANGED phase
       ELSE phase' = "done" /\ UNCHANGED <<data, index>>
  /\ UNCHANGED <<algorithm, size, outLoop, inLoop, given>>

SortNext == Outer \/ BubbleSort \/ ChoiseSort \/ revstr

SortSpec == SortInit /\ [][SortNext]_sortVars

-----------------------------------------------------------------------------
Count(d, v) == Cardinality({i \in DOMAIN d : d[i] = v})

(* At every step the array holds what it held at the start.  BubbleSort has     *)
(* put the outLoop least elements in order at its front, and in the end all of  *)
(* them; revstr has turned the array round; ChoiseSort sorts up to two          *)
(* elements, more it only keeps.                                                *)
SortedSoFar ==
  /\ \A v \in Values \cup {0} : Count(data, v) = Count(given, v)
  /\ algorithm = "bubble" =>
       \A i, j \in DOMAIN data : i < j /\ (i < outLoop \/ phase = "done") => data[i] <= data[j]
  /\ algorithm = "choise" /\ phase = "done" /\ size = 2 => data[0] <= data[1]
  /\ algorithm = "rev" /\ phase = "done" =>
       \A i \in DOMAIN data : data[i] = given[size - 1 - i]
=============================================================================
