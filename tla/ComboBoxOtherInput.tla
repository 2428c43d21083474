-------------------------- MODULE ComboBoxOtherInput --------------------------
(***************************************************************************)
(* Qt/Shell/QComboBox/ComboBoxOtherInput.cpp: a combo box whose option for *)
(* "other" shows a line edit.  An option is written "name:title"; here it  *)
(* is its title.  The box tells a changed index, and only a changed one.   *)
(***************************************************************************)
EXTENDS Integers, Sequences

CONSTANTS
  Optionals,    \* the lists of options that config() is called with
  Typed,        \* what users type, and callers set
  OtherIndices, \* the indices given for other; -1 when none is: the last
  MaxChoice     \* bound: calls and inputs

VARIABLES
  optionals, otherIndex,
  currentIndex,        \* of the box, from 0; -1 for none
  lineEdit, isHidden,  \* the edit's text
  choices

comboVars == <<optionals, otherIndex, currentIndex, lineEdit, isHidden, choices>>

NoText == ""
titleAt(index) == optionals[index + 1]

ComboInit ==
  /\ optionals = <<>> /\ otherIndex = -1
  /\ currentIndex = -1
  /\ lineEdit = NoText /\ isHidden = TRUE
  /\ choices = 0

\* With an index for other the second half is false: the edit is shown for every option.
hides(index, other, size) == index # other /\ other = -1 /\ index + 1 # size

\* comboBox_onCurrentIndexChanged, called for another index alone.
setCurrentIndex(index) ==
  /\ currentIndex' = index
  /\ isHidden' = IF index = currentIndex THEN isHidden
                 ELSE index < 0 \/ optionals = <<>> \/ hides(index, otherIndex, Len(optionals))

\* The box selects its first item as it is added; whatever that shows is hidden at last.
config(list, other) ==
  /\ optionals' = list /\ otherIndex' = other
  /\ currentIndex' = IF list = <<>> THEN -1 ELSE 0
  /\ lineEdit' = NoText /\ isHidden' = TRUE

getText ==
  IF currentIndex < 0 THEN NoText ELSE IF isHidden THEN titleAt(currentIndex) ELSE lineEdit

\* The first option of this title, or -1.
targetOf(text) ==
  LET titled == {k \in DOMAIN optionals : optionals[k] = text} IN
  IF titled = {} THEN -1 ELSE (CHOOSE k \in titled : \A j \in titled : k <= j) - 1

\* Variant: the edit keeps what it had.
cleared_Kept(text) == lineEdit
cleared(text) == text

\* A text that is no option is taken for other, if the last option is other.
setText(text) ==
  LET target == targetOf(text) IN
  /\ optionals # <<>>
  /\ IF target = otherIndex
     THEN /\ lineEdit' = cleared(text)
          /\ setCurrentIndex(IF otherIndex < 0 THEN Len(optionals) - 1 ELSE target)
     ELSE IF target = -1 THEN UNCHANGED <<lineEdit, currentIndex, isHidden>>
     ELSE lineEdit' = NoText /\ setCurrentIndex(target)
  /\ UNCHANGED <<optionals, otherIndex>>

\* The user.
select(index) ==
  /\ index < Len(optionals)
  /\ setCurrentIndex(index)
  /\ UNCHANGED <<optionals, otherIndex, lineEdit>>
type(text) ==
  /\ ~isHidden
  /\ lineEdit' = text
  /\ UNCHANGED <<optionals, otherIndex, currentIndex, isHidden>>

ComboNext ==
  /\ choices < MaxChoice /\ choices' = choices + 1
  /\ \/ \E list \in Optionals, other \in OtherIndices : config(list, other)
     \/ \E text \in Typed : setText(text) \/ type(text)
     \/ \E index \in 0..2 : select(index)

ComboSpec == ComboInit /\ [][ComboNext]_comboVars

\* With other as the last of several options: the edit is shown exactly when that is
\* selected, and a text that is set is the text that is got, unless it is the title of
\* other.
ShowsTheText ==
  otherIndex = -1 /\ Len(optionals) > 1 =>
    /\ ~isHidden <=> currentIndex = Len(optionals) - 1
    /\ \A text \in Typed : setText(text) /\ targetOf(text) # Len(optionals) - 1
         => getText' = text
ComboSound == [][ShowsTheText]_comboVars
===============================================================================
