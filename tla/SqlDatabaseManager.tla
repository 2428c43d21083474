-------------------------- MODULE SqlDatabaseManager --------------------------
(***************************************************************************)
(* Qt/Utility/SqlDatabaseManager.cpp: managers that open SQLite files      *)
(* through Qt's connections, which are shared by name, and a name comes    *)
(* from the file without its directory.  Each statement is atomic; opening *)
(* a file, a statement and a commit may fail.  The SQL that is put together *)
(* is modelled by what SQLite does with it.                                *)
(***************************************************************************)
EXTENDS Integers, Sequences, FiniteSets, Positions

CONSTANTS
  Manager,
  Path,       \* records [dir, file]: a name is the file alone
  Key, Value, \* columns, and numbers to store
  MaxMap,     \* bound: rows of a table
  MaxSql      \* bound: calls

VARIABLES
  isOpen,       \* _isOpen of each manager
  database,     \* _database: the name of a connection, or None
  connections,  \* Qt's: None, or the path, whether it is open and, in a transaction, its begin
  files,        \* the table of each file: none, or its keys and rows
  asked,        \* history: the path of a manager's last open()
  shared,       \* history: names opened while another manager or path had their connection
  answer,       \* what the last call returned
  sqlCalls

managerVars == <<isOpen, database>>
historyVars == <<asked, shared>>
sqlVars == <<managerVars, connections, files, historyVars, answer, sqlCalls>>

None == "none"
Name == {p.file : p \in Path}
Null == 0   \* no number of Value
noTable == [keys |-> {}, rows |-> <<>>]
newConnection(p) == [path |-> p, open |-> FALSE, begin |-> <<>>]

SqlInit ==
  /\ isOpen = [m \in Manager |-> FALSE] /\ database = [m \in Manager |-> None]
  /\ connections = [n \in Name |-> <<>>]   \* at most one for a name
  /\ files = [p \in Path |-> noTable]
  /\ asked = [m \in Manager |-> <<>>] /\ shared = {}
  /\ answer = TRUE /\ sqlCalls = 0

(***************************************************************************)
(* Connections                                                             *)
(***************************************************************************)
connection(m) == connections[database[m]][1]
usable(m) == database[m] # None /\ connection(m).open
pathOf(m) == connection(m).path
table(m) == files[pathOf(m)]

\* A connection that ends takes what was not committed with it.
rolledBack(f, cs) ==
  [p \in Path |-> IF \E k \in DOMAIN cs : cs[k].path = p /\ cs[k].begin # <<>>
                  THEN cs[CHOOSE k \in DOMAIN cs : cs[k].path = p].begin[1] ELSE f[p]]

\* Variant: the flag is not taken back.
openFlag_Kept(ok) == TRUE
openFlag(ok) == ok

\* A registered connection is used again, with the path it was made for; opening it closes
\* it first.
open(m, p) ==
  LET known == connections[p.file]
      c == IF known # <<>> THEN known[1] ELSE newConnection(p)
  IN \E ok \in BOOLEAN :
       /\ answer' = (~isOpen[m] /\ ok)
       /\ IF isOpen[m] THEN UNCHANGED <<managerVars, connections, files, historyVars>>
          ELSE /\ isOpen' = [isOpen EXCEPT ![m] = openFlag(ok)]
               /\ database' = [database EXCEPT ![m] = p.file]
               /\ connections' = [connections EXCEPT ![p.file] =
                                    <<[c EXCEPT !.open = ok, !.begin = <<>>]>>]
               /\ files' = rolledBack(files, known)
               /\ asked' = [asked EXCEPT ![m] = <<p>>]
               /\ shared' = IF known # <<>> /\ (c.path # p \/ \E k \in Manager \ {m} :
                                                               database[k] = p.file)
                             THEN shared \cup {p.file} ELSE shared

\* removeDatabase: who else uses the connection is left with none.
removeConnection(n) ==
  /\ connections' = [connections EXCEPT ![n] = <<>>]
  /\ files' = rolledBack(files, connections[n])
  /\ database' = [k \in Manager |-> IF database[k] = n THEN None ELSE database[k]]

close(m) ==
  /\ answer' = isOpen[m]
  /\ isOpen' = [isOpen EXCEPT ![m] = FALSE]
  /\ IF isOpen[m] /\ database[m] # None THEN removeConnection(database[m])
     ELSE UNCHANGED <<database, connections, files>>
  /\ UNCHANGED historyVars

\* The destructor, and a new manager in its place.
destroy(m) ==
  /\ answer' = TRUE
  /\ isOpen' = [isOpen EXCEPT ![m] = FALSE]
  /\ IF isOpen[m] /\ database[m] # None THEN removeConnection(database[m])
     ELSE database' = [database EXCEPT ![m] = None] /\ UNCHANGED <<connections, files>>
  /\ UNCHANGED historyVars

(***************************************************************************)
(* The table                                                               *)
(***************************************************************************)
Map == UNION {[ks -> Value] : ks \in SUBSET Key}
agrees(row, map) == \A k \in DOMAIN map : row[k] = map[k]
names(map, t) == DOMAIN map # {} /\ DOMAIN map \subseteq t.keys

tableExisted(m) == isOpen[m] /\ usable(m) /\ table(m) # noTable
keyExisted(m, k) == tableExisted(m) /\ k \in table(m).keys

\* A write that can be done is done, or the storage fails; one that cannot, fails.
write(m, can, changed) ==
  /\ \/ can /\ answer' = TRUE /\ files' = [files EXCEPT ![pathOf(m)] = changed]
     \/ answer' = FALSE /\ UNCHANGED files
  /\ UNCHANGED <<managerVars, connections, historyVars>>

createTable(m, keys) ==
  write(m, isOpen[m] /\ usable(m) /\ keys # {} /\ ~tableExisted(m),
        [keys |-> keys, rows |-> <<>>])

\* sqlite cannot remove a key: removeKeyAtTable returns false at once.
removeKeyAtTable(m) == write(m, FALSE, noTable)

widened(row, k) == [key \in DOMAIN row \cup {k} |-> IF key = k THEN Null ELSE row[key]]
addKey2Table(m, k) ==
  write(m, tableExisted(m) /\ ~keyExisted(m, k),
        [keys |-> table(m).keys \cup {k},
         rows |-> [i \in DOMAIN table(m).rows |-> widened(table(m).rows[i], k)]])

canAdd(m, map) == tableExisted(m) /\ names(map, table(m))
full(map, keys) == [k \in keys |-> IF k \in DOMAIN map THEN map[k] ELSE Null]
added(t, map) == [t EXCEPT !.rows = Append(@, full(map, t.keys))]
addMap2Table(m, map) ==
  /\ usable(m) => Len(table(m).rows) < MaxMap
  /\ write(m, canAdd(m, map), added(table(m), map))

\* It does not ask _isOpen.
removeMapAtTable(m, equalTo) ==
  write(m, usable(m) /\ table(m) # noTable /\ names(equalTo, table(m)),
        [table(m) EXCEPT !.rows = picked(@, {i \in DOMAIN @ : ~agrees(@[i], equalTo)})])

rewritten(row, map) == [k \in DOMAIN row |-> IF k \in DOMAIN map THEN map[k] ELSE row[k]]
setValues2Table(m, map, equalTo) ==
  write(m, tableExisted(m) /\ names(map, table(m)) /\ names(equalTo, table(m)),
        [table(m) EXCEPT !.rows = [i \in DOMAIN @ |->
           IF agrees(@[i], equalTo) THEN rewritten(@[i], map) ELSE @[i]]])

\* Variant: what was added before the failure is committed.
undone_Not(begin, t) == t
\* rollbackTransaction
undone(begin, t) == begin

\* One map after the other in a transaction; begin fails when one is left open.  Whether
\* the commit succeeds is not asked: if not, the transaction stays open.
addMaps2Table(m, maps) ==
  IF ~usable(m) THEN answer' = FALSE /\ UNCHANGED <<managerVars, connections, files, historyVars>>
  ELSE
  LET begin == IF connection(m).begin # <<>> THEN connection(m).begin ELSE <<table(m)>>
      after(n) == [table(m) EXCEPT !.rows = @ \o [i \in 1..n |-> full(maps[i], table(m).keys)]]
      leaves(rest, t) ==
        /\ connections' = [connections EXCEPT ![database[m]] = <<[connection(m) EXCEPT !.begin = rest]>>]
        /\ files' = [files EXCEPT ![pathOf(m)] = t]
  IN \E n \in 0..Len(maps) :   \* so many are added
       /\ \A i \in 1..n : canAdd(m, maps[i])
       /\ Len(table(m).rows) + n <= MaxMap
       /\ answer' = (maps # <<>> /\ n = Len(maps))
       /\ IF answer' THEN \E rest \in {<<>>, begin} : leaves(rest, after(n))
          ELSE leaves(<<>>, undone(begin[1], after(n)))
       /\ UNCHANGED <<managerVars, historyVars>>

(***************************************************************************)
(* What is read                                                            *)
(***************************************************************************)
getMapFromTable(m, equalTo) ==
  IF tableExisted(m) /\ DOMAIN equalTo \subseteq table(m).keys
  THEN LET rows == table(m).rows IN picked(rows, {i \in DOMAIN rows : agrees(rows[i], equalTo)})
  ELSE <<>>

\* No number is a Null, and 0.
getKeyMaxFromTable(m, k) ==
  IF ~keyExisted(m, k) THEN -1
  ELSE LET ns == {Null} \cup {table(m).rows[i][k] : i \in DOMAIN table(m).rows} IN
       CHOOSE n \in ns : \A i \in ns : i <= n

SqlNext ==
  /\ sqlCalls < MaxSql /\ sqlCalls' = sqlCalls + 1
  /\ \E m \in Manager :
       \/ \E p \in Path : open(m, p)
       \/ close(m) \/ destroy(m)
       \/ \E keys \in SUBSET Key : createTable(m, keys)
       \/ removeKeyAtTable(m)
       \/ \E k \in Key : addKey2Table(m, k)
       \/ \E map \in Map :
            \/ addMap2Table(m, map) \/ removeMapAtTable(m, map)
            \/ \E equalTo \in Map : setValues2Table(m, map, equalTo)
            \/ \E next \in Map : addMaps2Table(m, <<map, next>>)
       \/ addMaps2Table(m, <<>>)

SqlSpec == SqlInit /\ [][SqlNext]_sqlVars

(***************************************************************************)
(* Properties                                                              *)
(***************************************************************************)

\* While a name is one manager's and one path's, an open manager works on the file it was
\* asked for, whatever opens failed, closed or were destroyed before.
OpenMeansOwn ==
  \A m \in Manager : isOpen[m] =>
    \/ asked[m][1].file \in shared
    \/ usable(m) /\ pathOf(m) = asked[m][1]

\* A commit that failed, and that nobody was told of.
pending == \E n \in Name : connections[n] # <<>> /\ connections[n][1].begin # <<>>

KeepsFiles == ~answer' /\ ~pending => files' = files

\* A call that returns false has changed nothing, in the middle of a batch or anywhere
\* else, unless a commit has failed before.
FailureChangesNothing == [][KeepsFiles]_sqlVars

FindsTheAdded ==
  sqlCalls' > sqlCalls => \A m \in Manager, map \in Map :
    addMap2Table(m, map) /\ answer' =>
      /\ Len(getMapFromTable(m, map)') = Len(getMapFromTable(m, map)) + 1
      /\ \A k \in DOMAIN map : getKeyMaxFromTable(m, k)' >= map[k]

\* What was added is found by its own values, one more than before, and is counted into the
\* largest number of its keys.
AddedIsFound == [][FindsTheAdded]_sqlVars
===============================================================================
