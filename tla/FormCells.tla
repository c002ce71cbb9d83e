----------------------------- MODULE FormCells -----------------------------
(***************************************************************************)
(* The numbers of the cells of the two project forms.  The arrays behind a *)
(* form have 33 places, 10 for the required section and 23 for the         *)
(* optional one.  A text field carries a tag: 5 and the row, or 6 and the  *)
(* row, written one after the other.  Three pieces of code turn the tag    *)
(* back into a place: the table when it draws the cell, the pickers when   *)
(* they insert what was picked, and the text fields when editing ends.     *)
(***************************************************************************)
EXTENDS Integers

Places == 0..32
Section(i) == IF i < 10 THEN 0 ELSE 1
Row(i) == IF i < 10 THEN i ELSE i - 10

\* The tag of the cell at a place: the digits of section + 5 and of the row.
CellTag(i) ==
    IF Row(i) < 10 THEN (Section(i) + 5) * 10 + Row(i)
                   ELSE (Section(i) + 5) * 100 + Row(i)

\* substringFromIndex:1 of the digits of a tag of two or three digits, and the
\* first of them.
Tail1(tag) == IF tag < 100 THEN tag % 10 ELSE tag % 100
First(tag) == IF tag < 100 THEN tag \div 10 ELSE tag \div 100

\* cellForRowAtIndexPath, which compares the tag with 59
DrawnAt(tag) == IF tag <= 59 THEN Tail1(tag) ELSE Tail1(tag) + 10

\* insertObject:intoArrayWithTag: and addObjectToProjectStrings:withTag:, which
\* compare the first digit with 5
InsertedAt(tag) == IF First(tag) = 5 THEN Tail1(tag) ELSE Tail1(tag) + 10

\* The cells the user types into: textFieldDidEndEditing ignores the others.
TakesText(tag) == tag = 50 \/ tag = 59 \/ tag >= 616

\* Mutant of EndedAt: ten added after the first digit is gone, and once more.
EndedAtTwice(tag) == Tail1(tag + 10) + 10

\* textFieldDidEndEditing, for those it takes
EndedAt(tag) == IF tag = 50 THEN 0 ELSE IF tag = 59 THEN 9 ELSE Tail1(tag + 10)

\* The cells that open a picker of names, or of dates.
PicksName(i) == i \in 1..8
PicksDate(i) == i \in 10..25

=============================================================================
