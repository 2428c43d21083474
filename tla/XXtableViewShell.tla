-------------------------- MODULE XXtableViewShell --------------------------
(***************************************************************************)
(* The shell of Objective-C/Shell/XXtableViewShell.m: it keeps sections of *)
(* rows and is the data source of a UITableView, which remembers the counts *)
(* it was last told, asks for a cell when one comes on screen, and hands   *)
(* out again the cells that left it.  A cell of the application's class    *)
(* keeps the index path it was filled for and posts its data there, on     *)
(* screen or not.  All is on the main thread; the table lays out between calls. *)
(***************************************************************************)
EXTENDS Integers, Sequences, FiniteSets, SequencesExt, Positions

CONSTANTS
  MaxSection, MaxRow,   \* bounds: sections, rows of a section
  MaxEdit,              \* bound: calls that change the data
  MaxPool               \* bound: kinds of cells off the screen

VARIABLES
  sectionDatas,  \* sections, with None where a key is missing
  state,         \* "Live", or "Exception" once one was thrown
  dirty,         \* reloadData was called, and the table has not been laid out since
  loaded,        \* rows of each section, as the table was last told
  shown,         \* the cells on screen, by their paths
  pool,          \* the cells off the screen: the table hands them out, or the application keeps them
  rowClass,      \* "system" cells, filled by the shell, or "custom" ones
  silent,        \* the table was not told of all since the last layout, or a cell posted off the screen
  edits

table == <<dirty, loaded, shown, pool, rowClass>>
vars == <<sectionDatas, state, table, silent, edits>>

(***************************************************************************)
(* Sections.  A row is a string, a dictionary that can be updated, one     *)
(* that has been, or the array of a dictionary's keys; rows the shell did  *)
(* not copy are the caller's array.                                        *)
(***************************************************************************)
None == "None"
Row == {"String", "Dictionary", "Updated", "Keys"}
rowsOfAny(S) == UNION {[1..n -> S] : n \in 0..MaxRow}
Rows == rowsOfAny({"String", "Dictionary"})
own(rows) == [foreign |-> FALSE, of |-> rows]
NoRows == own(<<>>)

\* hasRows: the key Row is there; titled: there is a header or a footer.
section(titled, hasRows, rows) == [titled |-> titled, hasRows |-> hasRows, rows |-> rows]
emptySection == section(FALSE, FALSE, NoRows)
withRows(S) == [titled : BOOLEAN, hasRows : {TRUE}, rows : [foreign : {FALSE}, of : S]]
Section == withRows(Rows) \cup [titled : BOOLEAN, hasRows : {FALSE}, rows : {NoRows}]

rowsOf(s) == sectionDatas[s].rows.of
counts(datas) == [s \in DOMAIN datas |-> Len(datas[s].rows.of)]
IndexPath(c) == UNION {{<<s, r>> : r \in 1..c[s]} : s \in DOMAIN c}
hasRow(p) == p \in IndexPath(counts(sectionDatas))
rowAt(p) == rowsOf(p[1])[p[2]]

(***************************************************************************)
(* Cells: the row that each label is from, and where a post goes.          *)
(***************************************************************************)
Text == {"title", "detail"}
NoPath == <<>>
NewCell == [text |-> [k \in Text |-> None], path |-> NoPath]
\* A string is a title; dictionaries are of the kind that gets its title by an update.
keysOf == [String |-> {"title"}, Dictionary |-> {"detail"}, Updated |-> Text, Keys |-> {}]
sets(row) == IF rowClass = "custom" THEN Text ELSE keysOf[row]
postsTo(p) == IF rowClass = "custom" THEN p ELSE NoPath

\* Variant: the block of a cell that is handed out again stays.
fill_Keeps(cell, p, row) ==
  [text |-> [k \in Text |-> IF k \in sets(row) THEN row ELSE cell.text[k]],
   path |-> IF cell = NewCell THEN postsTo(p) ELSE cell.path]
\* A label whose key the row lacks keeps what it shows; resetData: shows the whole row.
fill(cell, p, row) ==
  [text |-> [k \in Text |-> IF k \in sets(row) THEN row ELSE cell.text[k]],
   path |-> postsTo(p)]

\* What may be left of the cells off the screen, those that leave it included.
kept(leaving) == {S \in SUBSET (pool \cup leaving) : Cardinality(S) <= MaxPool}

Init ==
  /\ sectionDatas = <<>> /\ state = "Live" /\ dirty = FALSE
  /\ loaded = <<>> /\ shown = <<>> /\ silent = FALSE /\ edits = 0
  /\ pool = {} /\ rowClass \in {"system", "custom"}

(***************************************************************************)
(* What an edit does to the table                                          *)
(***************************************************************************)
edit(datas) ==
  /\ state = "Live" /\ edits < MaxEdit /\ Len(datas) <= MaxSection
  /\ \A s \in DOMAIN datas : Len(datas[s].rows.of) <= MaxRow
  /\ edits' = edits + 1
  /\ sectionDatas' = datas

reloadData == dirty' = TRUE /\ silent' = FALSE /\ UNCHANGED <<loaded, shown, pool, rowClass, state>>
noReload == silent' = TRUE /\ UNCHANGED <<table, state>>

throws ==
  /\ state = "Live"
  /\ state' = "Exception"
  /\ UNCHANGED <<sectionDatas, table, silent, edits>>

\* Variant: the data change and no cell is asked for again.
reloadSome_None(paths) == UNCHANGED <<table, silent, state>>
\* reloadRowsAtIndexPaths, reloadSections: the table compares its counts with the new ones.
reloadSome(paths) ==
  IF dirty THEN UNCHANGED <<table, silent, state>>
  ELSE IF loaded # counts(sectionDatas') THEN state' = "Exception" /\ UNCHANGED <<table, silent>>
  ELSE \E from \in [DOMAIN shown \cap paths -> pool \cup {NewCell}] :
         /\ shown' = [p \in DOMAIN shown |->
                        IF p \in paths
                        THEN fill(from[p], p, sectionDatas'[p[1]].rows.of[p[2]]) ELSE shown[p]]
         /\ pool' \in kept({shown[p] : p \in DOMAIN shown \cap paths})
         /\ UNCHANGED <<dirty, loaded, rowClass, silent, state>>

(***************************************************************************)
(* Sections: add, insert, remove, set                                      *)
(***************************************************************************)
addSection(new) == edit(Append(sectionDatas, new)) /\ reloadData
insertSection(new, s) == edit(InsertAt(sectionDatas, s, new)) /\ reloadData
removeSection(s) == edit(RemoveAt(sectionDatas, s)) /\ reloadData
removeAllSections == edit(<<>>) /\ reloadData

\* configSectionHeader and configDataUsingBlock wait for configFinished.
configSection(new) == edit(Append(sectionDatas, new)) /\ noReload

\* The block's sections replace all; each row is handed to toMutableIfDictionaryItem as if
\* it were the array, so that a dictionary becomes its keys (and a string throws at once,
\* which is left out).
BlockSection == withRows(rowsOfAny({"Keys"}))
configDataUsingBlock(all) == edit(all) /\ noReload
configFinished ==
  /\ state = "Live"
  /\ reloadData
  /\ UNCHANGED <<sectionDatas, edits>>

\* setSectionHeader:row:footer:atIndex: keeps the caller's array and does not reload.
setSection(s, new) ==
  /\ edit([sectionDatas EXCEPT ![s] = [new EXCEPT !.rows.foreign = new.hasRows]])
  /\ noReload

\* removeSectionHeaderAtIndex: no reload either; a footer is a title too.
removeSectionHeader(s) ==
  /\ \E titled \in {FALSE, sectionDatas[s].titled} : edit([sectionDatas EXCEPT ![s].titled = titled])
  /\ noReload

(***************************************************************************)
(* Rows                                                                    *)
(***************************************************************************)

\* Variant: every section without rows goes, titled or not.
dropEmptied_Titled(datas) == picked(datas, {s \in DOMAIN datas : datas[s].hasRows})
\* A section that has nothing left is removed with removeObject:, which removes every
\* section equal to it.
dropEmptied(datas) == picked(datas, {s \in DOMAIN datas : datas[s] # emptySection})
removeRows(s) ==
  LET datas == [sectionDatas EXCEPT ![s].hasRows = FALSE, ![s].rows = NoRows] IN
  IF datas[s] = emptySection THEN dropEmptied(datas) ELSE datas

removeSectionRows(s) == edit(removeRows(s)) /\ reloadData

\* setSectionRows: a new section behind the last is made for rows; nil removes the key.
setSectionRows(s, rows) ==
  /\ s \in DOMAIN sectionDatas \/ rows # <<>>
  /\ edit(IF s \in DOMAIN sectionDatas
          THEN [sectionDatas EXCEPT ![s].hasRows = TRUE, ![s].rows = own(rows)]
          ELSE Append(sectionDatas, section(FALSE, TRUE, own(rows))))
  /\ reloadData

isForeign(s) == sectionDatas[s].rows.foreign

\* addSectionRows: rows of the caller's array cannot be added to.
addSectionRows(s, rows) ==
  /\ s \in DOMAIN sectionDatas \/ rows # <<>>
  /\ IF s \notin DOMAIN sectionDatas
     THEN edit(Append(sectionDatas, section(FALSE, TRUE, own(rows)))) /\ reloadData
     ELSE IF isForeign(s) THEN throws
     ELSE /\ edit([sectionDatas EXCEPT ![s].hasRows = TRUE, ![s].rows.of = @ \o rows])
          /\ reloadData

\* Variant: the table is not told.
removeSectionRow_Quiet(p) ==
  /\ hasRow(p) /\ ~isForeign(p[1])
  /\ edit([sectionDatas EXCEPT ![p[1]].rows.of = RemoveAt(@, p[2])])
  /\ UNCHANGED <<table, silent, state>>
removeSectionRow(p) ==
  /\ hasRow(p)
  /\ IF isForeign(p[1]) THEN throws
     ELSE edit([sectionDatas EXCEPT ![p[1]].rows.of = RemoveAt(@, p[2])]) /\ reloadData

\* A dictionary given to setSectionRow is never copied, and so never updated.
setSectionRow(p, row) ==
  /\ hasRow(p)
  /\ IF isForeign(p[1]) THEN throws
     ELSE edit([sectionDatas EXCEPT ![p[1]].rows.of[p[2]] = row]) /\ reloadSome({p})

updated(row) == IF row = "Dictionary" THEN "Updated" ELSE row
isMutable(row) == row \in {"Dictionary", "Updated"}

updateSectionRow(p) ==
  /\ hasRow(p) /\ isMutable(rowAt(p))
  /\ edit([sectionDatas EXCEPT ![p[1]].rows.of[p[2]] = updated(@)])
  /\ reloadSome({p})

\* With key, value and section: both are ignored, every dictionary of the section is updated.
updateSectionRowsOf(s) ==
  /\ \E r \in DOMAIN rowsOf(s) : isMutable(rowsOf(s)[r])
  /\ edit([sectionDatas EXCEPT ![s].rows.of = [r \in DOMAIN @ |-> updated(@[r])]])
  /\ reloadSome({s} \X (1..MaxRow))

\* With key and value: the rows that match, wherever they are.
updateMatchingRows(paths) ==
  /\ paths # {} /\ \A p \in paths : hasRow(p) /\ isMutable(rowAt(p))
  /\ edit([s \in DOMAIN sectionDatas |->
             [sectionDatas[s] EXCEPT !.rows.of =
                [r \in DOMAIN @ |-> IF <<s, r>> \in paths THEN updated(@[r]) ELSE @[r]]]])
  /\ reloadData

(***************************************************************************)
(* The table                                                               *)
(***************************************************************************)
layout ==
  /\ state = "Live" /\ dirty
  /\ dirty' = FALSE /\ silent' = FALSE
  /\ loaded' = counts(sectionDatas)
  /\ shown' = <<>> /\ pool' \in kept({shown[p] : p \in DOMAIN shown})
  /\ UNCHANGED <<sectionDatas, state, rowClass, edits>>

\* objectAtIndex: of the sections, or of the rows if the section has the key, throws.
missing(p) ==
  p[1] \in DOMAIN sectionDatas => sectionDatas[p[1]].hasRows /\ ~hasRow(p)

\* cellForRowAtIndexPath, for a path of the table's counts; without rows the cell stays as it was.
cellForRow(p) ==
  /\ state = "Live" /\ ~dirty
  /\ IF missing(p) THEN throws
     ELSE \E cell \in pool \cup {NewCell} :
            /\ shown' = [q \in DOMAIN shown \cup {p} |->
                           IF q # p THEN shown[q]
                           ELSE IF hasRow(p) THEN fill(cell, p, rowAt(p)) ELSE cell]
            /\ pool' \in kept({})
            /\ UNCHANGED <<sectionDatas, state, dirty, loaded, rowClass, silent, edits>>

\* The cell leaves the screen.
endDisplaying(p) ==
  /\ state = "Live" /\ ~dirty
  /\ shown' = [q \in DOMAIN shown \ {p} |-> shown[q]]
  /\ pool' \in kept({shown[p]})
  /\ UNCHANGED <<sectionDatas, state, dirty, loaded, rowClass, silent, edits>>

\* didSelectRowAtIndexPath reads the row without a look at the count.
didSelectRow(p) == missing(p) /\ throws

\* onDataPost writes to the path the cell was filled for; without rows nothing happens.
reaches(q) == q # NoPath /\ q[1] \in DOMAIN sectionDatas /\ sectionDatas[q[1]].hasRows
refuses(q) == isForeign(q[1]) \/ ~hasRow(q)
replaceRow(q, row) == edit([sectionDatas EXCEPT ![q[1]].rows.of[q[2]] = row])

onDataPost(p, row) ==
  LET q == shown[p].path IN
  /\ reaches(q)
  /\ IF refuses(q) THEN throws
     ELSE /\ replaceRow(q, row)
          /\ shown' = [shown EXCEPT ![p] = fill(@, q, row)]
          /\ UNCHANGED <<state, dirty, loaded, pool, rowClass, silent>>

\* The same from a cell off the screen: whatever row is at its path by now is overwritten.
latePost(cell, row) ==
  LET q == cell.path IN
  /\ state = "Live" /\ reaches(q)
  /\ IF refuses(q)
     THEN state' = "Exception" /\ silent' = TRUE /\ UNCHANGED <<sectionDatas, edits>>
     ELSE /\ replaceRow(q, row)
          /\ silent' = (silent \/ q \in DOMAIN shown)
          /\ UNCHANGED state
  /\ UNCHANGED table

\* commitEditingStyle: the user deletes a row of the screen.
commitDelete(p) == ~dirty /\ removeSectionRow(p)

Next ==
  \/ \E new \in Section : addSection(new) \/ configSection(new)
  \/ \E new \in Section, s \in DOMAIN sectionDatas : insertSection(new, s)
  \/ \E all \in {<<>>} \cup {<<s>> : s \in BlockSection} : configDataUsingBlock(all)
  \/ removeAllSections \/ configFinished \/ layout
  \/ \E s \in DOMAIN sectionDatas :
       \/ removeSection(s) \/ removeSectionHeader(s) \/ removeSectionRows(s)
       \/ updateSectionRowsOf(s)
       \/ \E new \in Section : setSection(s, new)
  \/ \E s \in 1..(Len(sectionDatas) + 1), rows \in Rows :
       setSectionRows(s, rows) \/ addSectionRows(s, rows)
  \/ \E p \in IndexPath(counts(sectionDatas)) :
       \/ removeSectionRow(p) \/ updateSectionRow(p)
       \/ \E row \in {"String", "Updated"} : setSectionRow(p, row)
  \/ \E p \in IndexPath(counts(sectionDatas)) : updateMatchingRows({p})
  \/ \E p \in IndexPath(loaded) \ DOMAIN shown : cellForRow(p)
  \/ \E p \in DOMAIN shown :
       \/ endDisplaying(p) \/ didSelectRow(p) \/ commitDelete(p)
       \/ \E row \in {"String", "Updated"} : onDataPost(p, row)
  \/ \E cell \in pool, row \in {"String", "Updated"} : latePost(cell, row)

Spec == Init /\ [][Next]_vars

(***************************************************************************)
(* Properties                                                              *)
(***************************************************************************)
TypeOK ==
  /\ Len(sectionDatas) <= MaxSection
  /\ \A s \in DOMAIN sectionDatas : \A r \in DOMAIN rowsOf(s) : rowsOf(s)[r] \in Row
  /\ DOMAIN shown \subseteq IndexPath(loaded)
  /\ \A cell \in pool \cup {shown[p] : p \in DOMAIN shown} : cell.text \in [Text -> Row \cup {None}]

\* Once laid out, the table has the counts of the data, every cell shows its row as far as the
\* row has something for a label, and what it posts goes to that row: after any calls but those
\* that leave the reload to the caller, whatever the cell showed before it was handed out again,
\* and until a cell off the screen overwrites a row that is on it.
inPlace(p) ==
  /\ \A k \in sets(rowAt(p)) : shown[p].text[k] = rowAt(p)
  /\ shown[p].path = postsTo(p)
InStep ==
  state = "Live" /\ ~dirty /\ ~silent
    => loaded = counts(sectionDatas) /\ \A p \in DOMAIN shown : inPlace(p)

\* An exception needs a call that left out the reload, an array that is the caller's, an event of
\* a cell between an edit and the layout behind it, or a post from off the screen.
ThrowsForAReason ==
  state = "Exception" => silent \/ dirty \/ \E s \in DOMAIN sectionDatas : isForeign(s)

\* A section that loses its rows, and has no title, is removed, and no other; unless another
\* is empty already, which then goes with it.
RemovesItself ==
  [][edits' > edits => \A s \in DOMAIN sectionDatas :
       removeSectionRows(s) /\ (\A t \in DOMAIN sectionDatas \ {s} : sectionDatas[t] # emptySection)
         => sectionDatas' = IF sectionDatas[s].titled
                            THEN [sectionDatas EXCEPT ![s] = section(TRUE, FALSE, NoRows)]
                            ELSE RemoveAt(sectionDatas, s)]_vars
=============================================================================
