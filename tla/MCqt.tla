--------------------------------- MODULE MCqt ---------------------------------
(***************************************************************************)
(* The parts under Qt/ that do not call each other, for MCdata: `unit`     *)
(* says whose behaviours these are.                                        *)
(***************************************************************************)
EXTENDS Integers, Sequences

CONSTANTS
  Manager, DbPath, Key, Number, MaxMap, MaxSql,
  JsonKey, Scalar, MaxStep,
  Count, CountPerPage, PageIndex, Garbage, MaxClick,
  Optionals, Typed, OtherIndices, MaxChoice,
  EditText, MaxLengths, EmptyText, MaxTyped

VARIABLES
  unit,
  isOpen, database, connections, files, asked, shared, answer, sqlCalls,
  root, first, second, saved, loadedFrom, status, steps,
  pageIndex, pageCount, back, forward, label, told, good, crashed, clicks,
  optionals, otherIndex, currentIndex, lineEdit, isHidden, choices,
  text, previousText, hasExpression, maxLength, strongMatchMode, isMatching, weak, typed

sqlVars == <<isOpen, database, connections, files, asked, shared, answer, sqlCalls>>
qtJsonVars == <<root, first, second, saved, loadedFrom, status, steps>>
pageVars == <<pageIndex, pageCount, back, forward, label, told, good, crashed, clicks>>
comboVars == <<optionals, otherIndex, currentIndex, lineEdit, isHidden, choices>>
editVars == <<text, previousText, hasExpression, maxLength, strongMatchMode, isMatching,
              weak, typed>>
qtVars == <<sqlVars, qtJsonVars, pageVars, comboVars, editVars>>

Sql == INSTANCE SqlDatabaseManager WITH Path <- DbPath, Value <- Number
Json == INSTANCE XXqtJson
Page == INSTANCE ButtonPage
Combo == INSTANCE ComboBoxOtherInput
Edit == INSTANCE LineEditShell

Units == {"SqlDatabaseManager", "XXqtJson", "ButtonPage", "ComboBoxOtherInput", "LineEditShell"}

QtInit ==
  /\ Sql!SqlInit /\ Json!QtJsonInit /\ Page!PageInit /\ Combo!ComboInit /\ Edit!EditInit
  /\ unit # "ButtonPage" => pageIndex = 1 /\ pageCount = 1

QtNext ==
  \/ /\ unit = "SqlDatabaseManager" /\ Sql!SqlNext
     /\ UNCHANGED <<qtJsonVars, pageVars, comboVars, editVars>>
  \/ /\ unit = "XXqtJson" /\ Json!QtJsonNext
     /\ UNCHANGED <<sqlVars, pageVars, comboVars, editVars>>
  \/ /\ unit = "ButtonPage" /\ Page!PageNext
     /\ UNCHANGED <<sqlVars, qtJsonVars, comboVars, editVars>>
  \/ /\ unit = "ComboBoxOtherInput" /\ Combo!ComboNext
     /\ UNCHANGED <<sqlVars, qtJsonVars, pageVars, editVars>>
  \/ /\ unit = "LineEditShell" /\ Edit!EditNext
     /\ UNCHANGED <<sqlVars, qtJsonVars, pageVars, comboVars>>
===============================================================================
