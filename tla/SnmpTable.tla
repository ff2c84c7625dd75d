----------------------------- MODULE SnmpTable -----------------------------
(***************************************************************************)
(* snmpfwk::SnmpTable on SnmpNode (snmpfwk/SnmpTable.cpp, SnmpNode.cpp,     *)
(* SnmpLeaf.h): a conceptual table.  A row is one leaf per column, named by *)
(* the column followed by the index of the row; rows come and go by the     *)
(* application (addRow, removeRow, clear) and by managers, who set the row  *)
(* status column.  Every operation holds the lock of the node and is one    *)
(* step; a manager walks the table with one GetNext after the other, and    *)
(* rows change in between.                                                  *)
(***************************************************************************)
EXTENDS Naturals, Sequences, SequencesExt, FiniteSets

CONSTANTS
    Columns,        \* the columns, numbers
    StatusColumn,   \* _rowStatusOid
    Unreadable,     \* columns without a getter
    Indices,        \* row indices, sequences of numbers
    RemovedBy,      \* prefixes that rows are removed by
    Written,        \* statuses a manager writes that are no action
    Finished        \* where a walk that has ended is

ASSUME ColumnAssumption ==
    /\ Columns \subseteq Nat /\ StatusColumn \in Columns \ Unreadable
    /\ Indices \subseteq Seq(Nat) /\ RemovedBy \subseteq Seq(Nat)
    /\ Written \subseteq Nat \ {0} /\ Finished \notin Seq(Nat)

Active == 1
NotReady == 3
NoStatus == 0

VARIABLES leaves,        \* _leaves, the names
          statusMap,     \* _statusMap, NoStatus where there is none
          notifEnabled,  \* _notifEnabled
          failing,       \* rows whose getters of the application fail
          at,            \* the name a walk has come to, or Finished
          pending        \* leaves that were there all the walk and are not read yet

tableVars == <<leaves, statusMap, notifEnabled, failing, at, pending>>

TableInit == /\ leaves = {} /\ statusMap = [i \in Indices |-> NoStatus]
             /\ notifEnabled = TRUE /\ failing = {}
             /\ at = Finished /\ pending = {}

Leaf(c, i) == <<c>> \o i
RowLeaves(i) == {Leaf(c, i) : c \in Columns}
Index(l) == Tail(l)
Exists(i) == Leaf(StatusColumn, i) \in leaves

\* Oid::operator<
Less(a, b) ==
    \E k \in 1 .. Len(b) : /\ k <= Len(a) + 1
                           /\ \A j \in 1 .. k - 1 : a[j] = b[j]
                           /\ k <= Len(a) => a[k] < b[k]

\* newRow: the leaves of all columns, which replace what is there; then the status.
AddedRow(i, s) ==
    /\ leaves' = leaves \cup RowLeaves(i)
    /\ statusMap' = [statusMap EXCEPT ![i] = s]
    /\ pending' = pending \ RowLeaves(i)
    /\ UNCHANGED <<notifEnabled, failing, at>>

\* addRow of the application; while notifications are enabled rowAdding may
\* refuse, and nothing happens.
AddRow(i) == AddedRow(i, Active)

\* Mistake: only the row with exactly this index is looked for in _statusMap.
RemoveRowExact(p) ==
    LET gone == {l \in leaves : IsPrefix(p, Index(l))} IN
    /\ leaves' = leaves \ gone
    /\ statusMap' = [i \in Indices |->
          IF notifEnabled /\ i = p THEN NoStatus ELSE statusMap[i]]
    /\ pending' = pending \ gone
    /\ UNCHANGED <<notifEnabled, failing, at>>

\* removeRow: all the leaves whose index starts with p; the status goes with the
\* notification of the row.
RemoveRow(p) ==
    LET gone == {l \in leaves : IsPrefix(p, Index(l))} IN
    /\ leaves' = leaves \ gone
    /\ statusMap' = [i \in Indices |->
          IF notifEnabled /\ \E l \in gone : Index(l) = i THEN NoStatus ELSE statusMap[i]]
    /\ pending' = pending \ gone
    /\ UNCHANGED <<notifEnabled, failing, at>>

Clear == RemoveRow(<<>>)

\* setRowStatus: createAndGo and createAndWait of a row that does not exist
\* (a set of a column with create access does the former first) ...
Create(i, s) == s \in {Active, NotReady} /\ ~Exists(i) /\ AddedRow(i, s)

\* ... and any other value for a row that has a status.
WriteStatus(i, s) ==
    /\ statusMap[i] # NoStatus
    /\ statusMap' = [statusMap EXCEPT ![i] = s]
    /\ UNCHANGED <<leaves, notifEnabled, failing, at, pending>>

Notifications(b) == /\ notifEnabled' = b
                    /\ UNCHANGED <<leaves, statusMap, failing, at, pending>>

\* beginInit, endInit
BeginInit == Notifications(FALSE)
EndInit == Notifications(TRUE)

\* get of a leaf: the status column answers from _statusMap.
Readable(l) ==
    /\ Head(l) \notin Unreadable
    /\ IF Head(l) = StatusColumn THEN statusMap[Index(l)] # NoStatus
                                 ELSE Index(l) \notin failing

\* The application loses or regains the data behind a row.
HostChanges(i) ==
    /\ failing' = SymDiff(failing, {i})
    /\ pending' = {l \in pending : Index(l) \in failing' => Head(l) = StatusColumn}
    /\ UNCHANGED <<leaves, statusMap, notifEnabled, at>>

\* findLeaf: the nearest lower leaf, or the first one; no leaf if there are none.
FindLeaf(name) ==
    LET lower == {l \in leaves : ~Less(name, l)} IN
    IF lower # {} THEN {l \in lower : \A m \in lower : ~Less(l, m)}
                  ELSE {l \in leaves : \A m \in leaves : ~Less(m, l)}

\* doGetNext: the leaves from there on that lie behind the name.
Behind(name) == {l \in leaves : Less(name, l) /\ \A f \in FindLeaf(name) : ~Less(l, f)}

\* Mistake: the loop of the commented-out line, which stops at a getter that fails.
AnswersUpToError(name) ==
    {l \in Behind(name) :
        /\ Readable(l)
        /\ \A m \in Behind(name) :
              Less(m, l) /\ Head(m) \notin Unreadable => Readable(m)}

\* The first of them that answers ends the loop.
Answers(name) == {l \in Behind(name) : Readable(l)}

WalkBegin ==
    /\ at = Finished
    /\ at' = <<>> /\ pending' = {l \in leaves : Readable(l)}
    /\ UNCHANGED <<leaves, statusMap, notifEnabled, failing>>

WalkNext ==
    /\ at # Finished
    /\ LET answers == Answers(at) IN
         IF answers = {} THEN at' = Finished /\ UNCHANGED pending
         ELSE \E l \in answers : /\ \A m \in answers : ~Less(m, l)
                                 /\ at' = l /\ pending' = pending \ {l}
    /\ UNCHANGED <<leaves, statusMap, notifEnabled, failing>>

TableNext ==
    \/ \E i \in Indices : \/ AddRow(i) \/ HostChanges(i)
                          \/ \E s \in {Active, NotReady} : Create(i, s)
                          \/ \E s \in Written : WriteStatus(i, s)
    \/ \E p \in RemovedBy : RemoveRow(p)
    \/ Clear \/ BeginInit \/ EndInit \/ WalkBegin \/ WalkNext

TableSpec == TableInit /\ [][TableNext]_tableVars
-----------------------------------------------------------------------------
\* The rows that have a status are those that are there.
StatusOfRows == \A i \in Indices : statusMap[i] # NoStatus <=> Exists(i)

\* As long as notifications are on ("Turns off/on notifications while
\* adding/removing rows", SnmpTable.h), a row that is there has a status and a
\* manager cannot write the status of a row that was removed.
StatusWithNotifications ==
    [][notifEnabled /\ StatusOfRows => StatusOfRows']_tableVars

\* A walk by GetNext, during which other rows come and go, reads every leaf that
\* could be read from its beginning to its end.
WalkComplete ==
    IF at = Finished THEN pending = {} ELSE \A l \in pending : Less(at, l)
=============================================================================
