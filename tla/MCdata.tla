-------------------------------- MODULE MCdata --------------------------------
(***************************************************************************)
(* Parts that keep, convert, show or carry data and do not call each       *)
(* other: the path map with its JSON, the table view's shell, the UDP      *)
(* socket and the parts of MCqt.  `unit` says whose behaviours these are;  *)
(* the variables of the others keep their initial values.                  *)
(***************************************************************************)
EXTENDS MCqt, FiniteSets

CONSTANTS
  Path, Value, MaxItem, MaxIndex, MaxCall,
  MaxSection, MaxRow, MaxEdit, MaxPool,
  DatagramSize, BufferSize, TryTimes, MaxDatagram

VARIABLES
  data, state, handmade, calls,
  sectionDatas, shellState, dirty, loaded, shown, pool, rowClass, silent, edits,
  socket, binded, hasSomething, recvCountAfterSelect, datagrams, arrived, recvCall,
  recvResult, udpSent

\* The nodes in the order of strings.
NodeOrder == <<".0", ".1", "0", "1", "2", "3", "a", "x">>

MapJson == INSTANCE XXjson

\* Nodes of the path map are told apart as far as a run can number items and indices: in
\* decimal, and after a point for an index.  No name is a number, and an index is one of
\* those given.
NodeNumber == 0..(MaxItem + MaxCall + 2)
NodesDiffer ==
  /\ \A i \in NodeNumber, j \in NodeNumber :
       /\ MapJson!itemNode(i) = MapJson!itemNode(j) => i = j
       /\ MapJson!indexNode(i) = MapJson!indexNode(j) => i = j
       /\ MapJson!itemNode(i) # MapJson!indexNode(j)
  /\ \A n, m \in MapJson!Index : MapJson!indexNode(n) = MapJson!indexNode(m) => n = m
  /\ \A p \in Path : \A k \in DOMAIN p : \A i \in NodeNumber :
       /\ p[k] # MapJson!itemNode(i)
       /\ p[k] = MapJson!indexNode(i) => i \in MapJson!Index

\* A caller has room for a byte at least, and the socket tries at least once.  Paths are not
\* the name for no connection, what is counted is not below 0, and -1 stands for an index
\* that is not given.
ASSUME DataAssumption ==
  /\ Path \subseteq Seq(STRING) /\ MaxItem \in Nat /\ MaxIndex \in Nat /\ MaxCall \in Nat
  /\ NodesDiffer
  /\ DatagramSize \subseteq Nat /\ BufferSize \subseteq Nat \ {0}
  /\ TryTimes \in Nat \ {0} /\ MaxDatagram \in Nat
  /\ DbPath \subseteq [dir : STRING, file : STRING \ {"none"}]
  /\ JsonKey \subseteq [name : STRING] \cup [index : Nat]
  /\ Number \subseteq Nat \ {0} /\ MaxMap \in Nat /\ MaxSql \in Nat
  /\ Count \subseteq Nat /\ CountPerPage \subseteq Nat /\ PageIndex \subseteq Int
  /\ Garbage \subseteq Int
  /\ Optionals \subseteq Seq(STRING) /\ Typed \subseteq STRING
  /\ OtherIndices \subseteq Nat \cup {-1}
  /\ EditText \subseteq [matches : BOOLEAN, length : Nat] /\ EmptyText \in EditText
  /\ MaxLengths \subseteq Nat /\ MaxSection \in Nat /\ MaxRow \in Nat

\* An array with data in its items, one level of nesting each way, and a path next to them.
MCPath == {<<"a">>, <<"a", "x">>, <<"a", ".0">>, <<"a", ".1">>, <<"a", ".0", "x">>,
           <<"a", ".0", ".0">>}
\* Two files of one name, and another.
MCDbPath == {[dir |-> "d", file |-> "x"], [dir |-> "e", file |-> "x"], [dir |-> "d", file |-> "y"]}
\* Two names and two indices of Qt's JSON.
MCJsonKey == {[name |-> "a"], [name |-> "b"], [index |-> 0], [index |-> 1]}
\* The default of the index for other, and two that are given.
MCOtherIndices == {-1, 0, 1}
MCOptionals == {<<>>, <<"a">>, <<"a", "b">>, <<"a", "b", "c">>}
MCEmptyText == [matches |-> FALSE, length |-> 0]
MCEditText == {MCEmptyText} \cup [matches : BOOLEAN, length : 1..2]

mapVars == <<data, state, handmade, calls>>
shellVars == <<sectionDatas, shellState, dirty, loaded, shown, pool, rowClass, silent, edits>>
udpVars == <<socket, binded, hasSomething, recvCountAfterSelect, datagrams, arrived,
             recvCall, recvResult, udpSent>>

Shell == INSTANCE XXtableViewShell WITH state <- shellState
Udp == INSTANCE XXudpSocket

Init ==
  /\ unit \in Units \cup {"XXmap", "XXtableViewShell", "XXudpSocket"}
  /\ MapJson!Init /\ Shell!Init /\ Udp!UdpInit /\ QtInit

Next ==
  /\ UNCHANGED unit
  /\ \/ /\ unit = "XXmap" /\ MapJson!Next
        /\ UNCHANGED <<shellVars, udpVars, qtVars>>
     \/ /\ unit = "XXtableViewShell" /\ Shell!Next
        /\ UNCHANGED <<mapVars, udpVars, qtVars>>
     \/ /\ unit = "XXudpSocket" /\ Udp!UdpNext
        /\ UNCHANGED <<mapVars, shellVars, qtVars>>
     \/ QtNext /\ UNCHANGED <<mapVars, shellVars, udpVars>>

dataVars == <<unit, mapVars, shellVars, udpVars, qtVars>>

Spec == Init /\ [][Next]_dataVars

\* A map written as JSON and read again is the same: JsonKeeps of XXjson.
JsonKeeps == MapJson!JsonKeeps

\* A call that receives gets whole datagrams in order, and data that wait: DatagramsSound
\* and WaitingIsRead of XXudpSocket.
DatagramsSound == Udp!DatagramsSound /\ Udp!WaitingIsRead

\* A manager works on its file, a failed call leaves it alone and what is added is found:
\* OpenMeansOwn, FailureChangesNothing and AddedIsFound of SqlDatabaseManager.
DatabaseSound == []Sql!OpenMeansOwn /\ Sql!FailureChangesNothing /\ Sql!AddedIsFound

\* A call changes what it names and nothing else, in the path map (EditsKeepTheRest,
\* NewItemsAreFresh of XXmap), in the JSON of Qt (SavesTheRest of XXqtJson) and in a table
\* whose section loses its last rows (RemovesItself of XXtableViewShell).
EditsKeepTheRest ==
  /\ MapJson!EditsKeepTheRest /\ MapJson!NewItemsAreFresh
  /\ Json!SavesTheRest
  /\ Shell!RemovesItself

\* A control shows what it holds, whatever it was told before: the table (TypeOK, InStep,
\* ThrowsForAReason), the pages (PagesSound), the combo box (ComboSound) and the line edit
\* (EditSound).
ControlsSound ==
  /\ [](Shell!TypeOK /\ Shell!InStep /\ Shell!ThrowsForAReason)
  /\ []Page!PagesSound
  /\ Combo!ComboSound
  /\ Edit!EditSound
===============================================================================
