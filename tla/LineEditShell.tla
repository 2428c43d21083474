---------------------------- MODULE LineEditShell ----------------------------
(***************************************************************************)
(* Qt/Shell/QLineEdit/LineEditShell.cpp: a line edit whose text should     *)
(* match an expression and a length.  In the strong mode a text that does  *)
(* not is taken back.                                                      *)
(***************************************************************************)
EXTENDS Integers

CONSTANTS
  EditText,    \* records: whether the text matches the expression, and its length
  MaxLengths,  \* what the length can be set to; 0 for any
  EmptyText,   \* the text of an edit at first
  MaxTyped     \* bound: edits and settings

VARIABLES
  text, previousText,
  hasExpression, maxLength, strongMatchMode, isMatching,
  weak,       \* history: edits were taken since the text had to match less
  typed

editVars == <<text, previousText, hasExpression, maxLength, strongMatchMode, isMatching,
              weak, typed>>
settings == <<hasExpression, maxLength, strongMatchMode>>

EditInit ==
  /\ text = EmptyText /\ previousText = EmptyText
  /\ hasExpression = FALSE /\ maxLength = 0
  /\ strongMatchMode = FALSE /\ isMatching = FALSE
  /\ weak = FALSE /\ typed = 0

\* configAll takes one of the three settings in a call.
configAll ==
  /\ \/ hasExpression' = TRUE /\ UNCHANGED <<maxLength, strongMatchMode>>
     \/ maxLength' \in MaxLengths /\ UNCHANGED <<hasExpression, strongMatchMode>>
     \/ strongMatchMode' \in BOOLEAN /\ UNCHANGED <<hasExpression, maxLength>>
  /\ weak' = (weak \/ text # EmptyText)
  /\ UNCHANGED <<text, previousText, isMatching>>

matches(t) == (hasExpression => t.matches) /\ (maxLength > 0 => t.length <= maxLength)

\* Variant: the flag is raised again by any text.
flag_Raised(t) == TRUE
\* A text that does not match clears the flag; only one taken back raises it again.
flag(t) == isMatching /\ matches(t)

onTextEdited(t) ==
  /\ IF strongMatchMode /\ ~flag(t)
     THEN text' = previousText /\ isMatching' = TRUE
     ELSE text' = t /\ isMatching' = flag(t)
  /\ previousText' = text'
  /\ weak' = (weak \/ ~strongMatchMode)
  /\ UNCHANGED settings

EditNext ==
  /\ typed < MaxTyped /\ typed' = typed + 1
  /\ configAll \/ \E t \in EditText : onTextEdited(t)

EditSpec == EditInit /\ [][EditNext]_editVars

\* In the strong mode, and when nothing was taken before it or before a stricter setting, the
\* edit shows nothing or a text that matches, and a text that matches is taken when the one
\* before was.
EditSound ==
  [][/\ strongMatchMode /\ ~weak => text = EmptyText \/ matches(text)
     /\ \A t \in EditText : strongMatchMode /\ isMatching /\ matches(t) /\ onTextEdited(t)
          => text' = t]_editVars
===============================================================================
