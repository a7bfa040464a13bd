------------------------------- MODULE OsdGrid -------------------------------
(***************************************************************************)
(* The cursor of the screen of OSDSYS options (Config_fmcb_OSDSYS): rows   *)
(* of one option each, two rows of four colour components, and two rows of *)
(* a pair of coordinates.  On row 1 left and right choose an item instead. *)
(***************************************************************************)
EXTENDS Integers

MAX_S == 26
SEL_COL == 9
UNSEL_COL == 14
ENTER == 20
VERSION == 23
Row == 0..MAX_S

Sel == SEL_COL..(SEL_COL + 4)
Unsel == UNSEL_COL..(UNSEL_COL + 4)
Enters == ENTER..(ENTER + 2)
Versions == VERSION..(VERSION + 2)
Groups == {Sel, Unsel, Enters, Versions}
First(g) == CHOOSE s \in g : s - 1 \notin g
Final(g) == CHOOSE s \in g : s + 1 \notin g

AtLeastZero(s) == IF s < 0 THEN 0 ELSE s

\* PAD_UP (3558-3579)
UpFrom(s) ==
    CASE s \in Sel      -> SEL_COL - 1
      [] s \in Unsel    -> SEL_COL
      [] s = UNSEL_COL + 5 -> UNSEL_COL
      [] s \in Enters   -> ENTER - 1
      [] s \in Versions -> ENTER
      [] s = VERSION + 3 -> VERSION
      [] s = 0          -> MAX_S
      [] OTHER          -> s - 1

\* PAD_DOWN (3580-3597)
DownFrom(s) ==
    IF \E g \in Groups : s \in g THEN 1 + Final(CHOOSE g \in Groups : s \in g)
    ELSE IF s = MAX_S THEN 0 ELSE s + 1

\* PAD_LEFT but on row 1 (3606-3636)
LeftFrom(s) ==
    IF \E g \in Groups : s \in g /\ s # First(g) THEN s - 1
    ELSE CASE s = SEL_COL   -> s - 5
           [] s = UNSEL_COL -> s - 9
           [] s = ENTER - 1 -> SEL_COL - 3
           [] s = ENTER     -> SEL_COL - 2
           [] s = VERSION   -> SEL_COL - 1
           [] OTHER -> LET t == s - 5
                       IN IF t \in (ENTER + 1)..(VERSION + 1) /\ t # VERSION THEN 7
                          ELSE IF t \in (SEL_COL + 1)..(UNSEL_COL + 3) /\ t # UNSEL_COL THEN 5
                          ELSE AtLeastZero(t)

RightFrom_FromSecond(s) ==
    IF \E g \in Groups : s \in g \ {First(g)} THEN LET g == CHOOSE g \in Groups : s \in g IN IF s = Final(g) THEN s ELSE s + 1
    ELSE LET t == s + 5
         IN IF t \in Sel \cup Unsel THEN IF t = UNSEL_COL THEN t ELSE UNSEL_COL + 5
            ELSE IF t \in Enters \cup Versions THEN IF t = VERSION THEN t ELSE VERSION + 3
            ELSE IF t >= MAX_S THEN MAX_S ELSE t

\* PAD_RIGHT but on row 1 (3647-3668)
RightFrom(s) ==
    IF \E g \in Groups : s \in g THEN LET g == CHOOSE g \in Groups : s \in g IN IF s = Final(g) THEN s ELSE s + 1
    ELSE LET t == s + 5
         IN IF t \in Sel \cup Unsel THEN IF t = UNSEL_COL THEN t ELSE UNSEL_COL + 5
            ELSE IF t \in Enters \cup Versions THEN IF t = VERSION THEN t ELSE VERSION + 3
            ELSE IF t >= MAX_S THEN MAX_S ELSE t

\* The rows the cursor gets to from row s in n moves at most.
Moves(s) == {UpFrom(s), DownFrom(s)} \cup (IF s = 1 THEN {} ELSE {LeftFrom(s), RightFrom(s)})
Further(R) == R \cup UNION {Moves(r) : r \in R \cap Row}
Reached[n \in 0..MAX_S] == [s \in Row |-> IF n = 0 THEN {s} ELSE Further(Reached[n - 1][s])]

AllReached == \A s \in Row : Reached[MAX_S][s] = Row
==============================================================================
