------------------------------ MODULE Scratch -------------------------------
(***************************************************************************)
(* The tables a connection makes for itself, the one thing the bridge       *)
(* writes: catalog.py's _session_statement with _changed, _make_from,       *)
(* _rows_for, _fitted and _stored, and beside it what a batch keeps in a    *)
(* variable and in @@ROWCOUNT.                                              *)
(*                                                                          *)
(* A connection's batches are one sequence of statements here.  A statement *)
(* stands in a TRY or by itself; one that is refused goes to the CATCH      *)
(* there, and otherwise the batch goes on past it or ends, by its number.   *)
(* Tables outlive a batch and a variable does not.                          *)
(*                                                                          *)
(* A table's rows are a function from the places they were put in at, which *)
(* is their order: a row keeps its place until it goes.  A table has two    *)
(* columns, known by their number; a table of none is one that is not made. *)
(***************************************************************************)
EXTENDS Casts, FiniteSets

CONSTANTS Tables,       (* names a statement uses                            *)
          Statements,   (* the statements a client may send                  *)
          MaxRows,      (* bound: no table is filled past this many places   *)
          MaxStatements (* bound: what the client sends in all               *)

VARIABLES tables,    (* what the connection has made, by name                *)
          variable,  (* the one variable: its declared type, None if it has  *)
                     (* none yet, and its value                              *)
          count,     (* @@ROWCOUNT                                           *)
          last,      (* the statement that ran, and the number it was        *)
                     (* refused with, 0 where it was not                     *)
          sent       (* how many statements the client has sent              *)
vars == <<tables, variable, count, last, sent>>

COLUMNS == 1..2
None == "none"

(* What a client may send: expressions over columns and values there are,   *)
(* and in a VALUES a row or more, of one width.                             *)
IsAtom(e, columns) ==
    /\ e[1] \in {"literal", "column", "variable", "count"}
    /\ e[1] = "literal" => IsValue(e[2])
    /\ e[1] = "column" => e[2] \in columns
IsExpression(e, columns) == IF e[1] = "int" THEN IsAtom(e[2], columns) ELSE IsAtom(e, columns)
IsCondition(w) == w[1] \in {"always", "null", "above"} /\ (w[1] # "always" => w[2] \in COLUMNS)
IsList(list) == Len(list) \in Nat /\ DOMAIN list = 1..Len(list)
AreExpressions(items, columns) ==
    IsList(items) /\ \A p \in DOMAIN items : IsExpression(items[p], columns)
WellFormed(s) ==
    /\ s.op \in {"create", "drop", "make_from", "truncate", "insert_values", "insert_select",
                 "update", "delete"} => s.table \in Tables
    /\ s.op = "create" => s.types \in [COLUMNS -> Types]
    /\ s.op \in {"make_from", "insert_select", "select_assigns"} => s.from \in Tables
    /\ s.op \in {"make_from", "insert_select", "update", "delete", "select_assigns"} =>
         IsCondition(s.where)
    /\ s.op \in {"make_from", "insert_select"} => AreExpressions(s.items, COLUMNS)
    /\ s.op = "make_from" => Len(s.items) = 2
    /\ s.op \in {"insert_values", "insert_select"} => IsList(s.into)
    /\ s.op = "insert_values" =>
         IsList(s.values) /\ 1 \in DOMAIN s.values /\ \A i \in DOMAIN s.values :
           AreExpressions(s.values[i], {}) /\ Len(s.values[i]) = Len(s.values[1])
    /\ s.op = "update" =>
         IsList(s.assigned) /\ \A p \in DOMAIN s.assigned : IsExpression(s.assigned[p][2], COLUMNS)
    /\ s.op = "declare" => s.type \in Types
    /\ s.op = "set" => IsExpression(s.value, {})
    /\ s.op = "select_assigns" => IsExpression(s.value, COLUMNS)
ASSUME StatementsAssumption == \A s \in Statements : WellFormed(s)
ASSUME LimitsAssumption == MaxRows \in 1..MOST /\ MaxStatements \in Nat
NotMade == [types |-> <<>>, rows |-> <<>>, next |-> 1]
Undeclared == [type |-> None, value |-> Null]
Made(name) == tables[name].types # <<>>

INVALID_OBJECT_NAME == 208
NO_SUCH_COLUMN == 207
ALREADY_AN_OBJECT == 2714
NO_SUCH_TABLE_TO_DROP == 3701
CANNOT_FIND_THE_OBJECT == 4701
A_COLUMN_WITH_NO_NAME == 1038
DOES_NOT_MATCH_THE_TABLE == 213
TOO_FEW_TO_INSERT == 120
TOO_MANY_TO_INSERT == 121
THE_BATCH_GOES_ON == {220, 244, 2628, 3701, 8115}

(* ---- what a statement reads ---------------------------------------------*)

(* An expression is a literal, a column, the variable, @@ROWCOUNT, or one   *)
(* of these as an int.  A read knows @@ROWCOUNT; what a SET or a VALUES     *)
(* works out without one does not, and finds NULL there.                    *)
Atom(e, row, known) ==
    CASE e[1] = "literal" -> e[2]
      [] e[1] = "column" -> row[e[2]]
      [] e[1] = "variable" -> known.variable
      [] e[1] = "count" -> known.count
Evaluate(e, row, known) ==
    IF e[1] = "int" THEN CastTo(Atom(e[2], row, known), "INT", FALSE) ELSE Atom(e, row, known)
InARead == [variable |-> variable.value, count |-> Number(count)]
WithoutARead == [variable |-> variable.value, count |-> Null]

ReadsAColumn(e) == e[1] = "column" \/ (e[1] = "int" /\ e[2][1] = "column")
RoundsAsWritten(e) == ~ReadsAColumn(e)

(* A condition: none, a column that is NULL, or a value above a number.     *)
Condition(w, row, known) ==
    CASE w[1] = "always" -> True
      [] w[1] = "null" -> Truth(IsNull(row[w[2]]))
      [] w[1] = "above" ->
           LET v == CastTo(row[w[2]], "INT", FALSE)
           IN IF IsRefused(v) THEN v ELSE IF IsNull(v) THEN Unknown ELSE Truth(v.n > w[3])

First(places) == CHOOSE i \in places : \A j \in places : i <= j
Latest(places) == CHOOSE i \in places : \A j \in places : j <= i

(* What is refused over some rows: the number the first of them meets, a    *)
(* row's parts from the left.                                               *)
RefusedIn(rows) ==
    LET refusing == {i \in DOMAIN rows : \E p \in DOMAIN rows[i] : IsRefused(rows[i][p])}
    IN IF refusing = {} THEN 0
       ELSE LET row == rows[First(refusing)]
            IN row[First({p \in DOMAIN row : IsRefused(row[p])})].n

(* The kind of a column where no value says it: _kind_of.                   *)
KindOf(e, table) ==
    CASE e[1] = "literal" -> IF IsNull(e[2]) THEN "int" ELSE KindOfColumn({e[2]})
      [] e[1] = "column" -> ServedAs(table.types[e[2]])
      [] e[1] = "variable" -> ServedAs(variable.type)
      [] e[1] = "int" -> "int"
      [] OTHER -> "text"

(* A column taken as it is stays what it is; what is worked out is made a   *)
(* column of by its values.                                                 *)
MadeKind(e, values, table, asItIs) ==
    IF asItIs /\ e[1] = "column" THEN ServedAs(table.types[e[2]])
    ELSE IF \A v \in values : IsNull(v) THEN KindOf(e, table)
    ELSE KindOfColumn(values)
MadeValue(e, v, kind, asItIs) == IF asItIs /\ e[1] = "column" THEN v ELSE InColumn(v, kind)

(* A SELECT of these items over these places of a table.                    *)
Reading(items, table, places, asItIs) ==
    LET given == [i \in places |-> [p \in DOMAIN items |-> Evaluate(items[p], table.rows[i], InARead)]]
        kinds == [p \in DOMAIN items |->
                    MadeKind(items[p], {given[i][p] : i \in places}, table, asItIs)]
    IN [refused |-> RefusedIn(given),
        kinds |-> kinds,
        rows |-> [i \in places |->
                    [p \in DOMAIN items |-> MadeValue(items[p], given[i][p], kinds[p], asItIs)]]]

(* Where a WHERE holds: NULL and unknown are not enough.                    *)
Conditions(table, where) == [i \in DOMAIN table.rows |-> <<Condition(where, table.rows[i], InARead)>>]
Hit(table, where) == {i \in DOMAIN table.rows : Condition(where, table.rows[i], InARead) = True}
Asked(items, table, where) ==
    LET refused == RefusedIn(Conditions(table, where))
    IN IF refused # 0 THEN [refused |-> refused, kinds |-> <<>>, rows |-> <<>>]
       ELSE Reading(items, table, Hit(table, where), TRUE)

(* ---- how a statement ends -----------------------------------------------*)

(* A refusal that forgets what the statement's own read counted. *)
RefuseLeavingTheCount(s, number, read, held) ==
    /\ last' = [did |-> s, refused |-> number]
    /\ count' = read
    /\ variable' = IF s.tried \/ number \in THE_BATCH_GOES_ON THEN held ELSE Undeclared
    /\ UNCHANGED tables

(* Refused: no table changes.  The count goes to nought where the batch     *)
(* carries on past it, and stays as the statement's own read left it in a   *)
(* TRY and where the batch ends.                                            *)
RefuseHolding(s, number, read, held) ==
    LET past == ~s.tried /\ number \in THE_BATCH_GOES_ON
    IN /\ last' = [did |-> s, refused |-> number]
       /\ count' = IF past THEN 0 ELSE read
       /\ variable' = IF past \/ s.tried THEN held ELSE Undeclared
       /\ UNCHANGED tables

Refuse(s, number, read) == RefuseHolding(s, number, read, variable)

Keep(s, table, touched) ==
    /\ last' = [did |-> s, refused |-> 0]
    /\ count' = touched
    /\ tables' = [tables EXCEPT ![s.table] = table]
    /\ UNCHANGED variable

(* ---- making a table and letting it go -----------------------------------*)

Create(s) ==
    IF Made(s.table) THEN Refuse(s, ALREADY_AN_OBJECT, count)
    ELSE Keep(s, [types |-> s.types, rows |-> <<>>, next |-> 1], 0)

Drop(s) ==
    IF ~Made(s.table) THEN Refuse(s, NO_SUCH_TABLE_TO_DROP, count) ELSE Keep(s, NotMade, 0)

(* _make_from: a name already taken is refused before anything is read, a   *)
(* column with no name after.                                               *)
MakeFrom(s) ==
    IF Made(s.table) THEN Refuse(s, ALREADY_AN_OBJECT, count)
    ELSE IF ~Made(s.from) THEN Refuse(s, INVALID_OBJECT_NAME, count)
    ELSE LET table == tables[s.from]
             read == Asked(s.items, table, s.where)
             touched == Cardinality(DOMAIN read.rows)
         IN IF read.refused # 0 THEN Refuse(s, read.refused, count)
            ELSE IF ~s.named THEN Refuse(s, A_COLUMN_WITH_NO_NAME, touched)
            ELSE Keep(s, [types |-> [p \in DOMAIN s.items |-> DeclarationOf(read.kinds[p])],
                          rows |-> read.rows, next |-> table.next], touched)

Truncate(s) ==
    IF ~Made(s.table) THEN Refuse(s, CANNOT_FIND_THE_OBJECT, count)
    ELSE Keep(s, [tables[s.table] EXCEPT !.rows = <<>>], 0)

(* ---- filling it ---------------------------------------------------------*)

(* _fitted: by position where the INSERT named no columns, otherwise each   *)
(* value where it was named to go, and NULL elsewhere.                      *)
Misfit(s, width) ==
    IF s.into = <<>> THEN IF width # Cardinality(COLUMNS) THEN DOES_NOT_MATCH_THE_TABLE ELSE 0
    ELSE IF width < Len(s.into) THEN TOO_FEW_TO_INSERT
    ELSE IF width > Len(s.into) THEN TOO_MANY_TO_INSERT
    ELSE IF \E p \in DOMAIN s.into : s.into[p] \notin COLUMNS THEN NO_SUCH_COLUMN ELSE 0
Fitted(s, row) ==
    IF s.into = <<>> THEN row
    ELSE [c \in COLUMNS |->
            IF \E p \in DOMAIN s.into : s.into[p] = c
            THEN row[CHOOSE p \in DOMAIN s.into : s.into[p] = c] ELSE Null]

(* _stored: every row converted before any is kept. *)
StoredRow(types, row) == [c \in COLUMNS |-> IntoAColumn(row[c], types[c])]

(* INSERT: the rows to put in, found before the table they go into changes, *)
(* which may be the one they come from.  Each goes beyond the rows there.   *)
Put(s, table, width, rows, beyond, read) ==
    LET misfit == Misfit(s, width)
        stored == [i \in DOMAIN rows |-> StoredRow(table.types, Fitted(s, rows[i]))]
        refused == IF misfit # 0 THEN misfit ELSE RefusedIn(stored)
        added == {table.next - 1 + i : i \in DOMAIN rows}
    IN IF refused # 0 THEN Refuse(s, refused, read)
       ELSE Keep(s, [types |-> table.types,
                     rows |-> [i \in DOMAIN table.rows \cup added |->
                                 IF i \in added THEN stored[i - table.next + 1] ELSE table.rows[i]],
                     next |-> table.next - 1 + beyond],
                 Cardinality(added))

InsertValues(s) ==
    IF ~Made(s.table) THEN Refuse(s, INVALID_OBJECT_NAME, count)
    ELSE LET rows == [i \in DOMAIN s.values |->
                        [p \in DOMAIN s.values[i] |-> Evaluate(s.values[i][p], <<>>, WithoutARead)]]
             refused == RefusedIn(rows)
         IN IF refused # 0 THEN Refuse(s, refused, count)
            ELSE Put(s, tables[s.table], Len(s.values[1]), rows, Len(s.values) + 1, count)

InsertSelect(s) ==
    IF ~Made(s.table) \/ ~Made(s.from) THEN Refuse(s, INVALID_OBJECT_NAME, count)
    ELSE LET read == Asked(s.items, tables[s.from], s.where)
         IN IF read.refused # 0 THEN Refuse(s, read.refused, count)
            ELSE Put(s, tables[s.table], Len(s.items), read.rows, tables[s.from].next,
                     Cardinality(DOMAIN read.rows))

(* ---- changing what it holds ---------------------------------------------*)

(* What _changed reads: one SELECT over the whole table, with no WHERE of   *)
(* its own, of whether each row is hit and what each column would become.   *)
Answers(s, table) ==
    LET values == [p \in DOMAIN s.assigned |-> s.assigned[p][2]]
        told == [i \in DOMAIN table.rows |->
                   <<Condition(s.where, table.rows[i], InARead)>>
                   \o [p \in DOMAIN values |-> Evaluate(values[p], table.rows[i], InARead)]]
    IN [Reading(values, table, DOMAIN table.rows, FALSE) EXCEPT !.refused = RefusedIn(told)]

(* A change in which a column taken from one given before it is taken from  *)
(* what that one was given.                                                 *)
ChangedAsItGoes(s, table, row, values) ==
    [c \in COLUMNS |->
       LET given == {p \in DOMAIN s.assigned : s.assigned[p][1] = c}
           earlier == {p \in DOMAIN s.assigned : /\ given # {} /\ p < Latest(given)
                                                 /\ s.assigned[Latest(given)][2] = <<"column", s.assigned[p][1]>>}
       IN IF given = {} THEN row[c]
          ELSE IntoAColumn(values[Latest(IF earlier = {} THEN given ELSE earlier)], table.types[c])]

(* A change that puts each value in as it is given. *)
ChangedAsGiven(s, table, row, values) ==
    [c \in COLUMNS |->
       LET given == {p \in DOMAIN s.assigned : s.assigned[p][1] = c}
       IN IF given = {} THEN row[c] ELSE values[Latest(given)]]

(* A row as an UPDATE leaves it: the last value given to a column, worked   *)
(* out from the row as it was, converted as an INSERT converts it.          *)
Changed(s, table, row, values) ==
    [c \in COLUMNS |->
       LET given == {p \in DOMAIN s.assigned : s.assigned[p][1] = c}
       IN IF given = {} THEN row[c]
          ELSE IntoAColumn(values[Latest(given)], table.types[c])]

Update(s) ==
    IF ~Made(s.table) THEN Refuse(s, INVALID_OBJECT_NAME, count)
    ELSE IF \E p \in DOMAIN s.assigned : s.assigned[p][1] \notin COLUMNS THEN Refuse(s, NO_SUCH_COLUMN, count)
    ELSE LET table == tables[s.table]
             read == Answers(s, table)
             hit == Hit(table, s.where)
             all == Cardinality(DOMAIN table.rows)
             changed == [i \in hit |-> Changed(s, table, table.rows[i], read.rows[i])]
         IN IF read.refused # 0 THEN Refuse(s, read.refused, count)
            ELSE IF RefusedIn(changed) # 0 THEN Refuse(s, RefusedIn(changed), all)
            ELSE Keep(s, [table EXCEPT !.rows = [i \in DOMAIN table.rows |->
                                                   IF i \in hit THEN changed[i] ELSE table.rows[i]]],
                      Cardinality(hit))

Delete(s) ==
    IF ~Made(s.table) THEN Refuse(s, INVALID_OBJECT_NAME, count)
    ELSE LET table == tables[s.table]
             refused == RefusedIn(Conditions(table, s.where))
             hit == Hit(table, s.where)
         IN IF refused # 0 THEN Refuse(s, refused, count)
            ELSE Keep(s, [table EXCEPT !.rows = [i \in DOMAIN table.rows \ hit |-> table.rows[i]]],
                      Cardinality(hit))

(* ---- the variable -------------------------------------------------------*)

(* A DECLARE with no value is the one statement that leaves the count.      *)
Declare(s) ==
    /\ variable.type = None
    /\ variable' = [type |-> s.type, value |-> Null]
    /\ last' = [did |-> s, refused |-> 0]
    /\ UNCHANGED <<tables, count>>

(* _assign: the value as the variable's type holds it. *)
Held(v, written) == [variable EXCEPT !.value = CastTo(v, variable.type, written)]

SetVariable(s) ==
    LET held == Held(Evaluate(s.value, <<>>, WithoutARead), RoundsAsWritten(s.value))
    IN /\ variable.type # None
       /\ IF IsRefused(held.value) THEN Refuse(s, held.value.n, count)
          ELSE /\ variable' = held
               /\ count' = 1
               /\ last' = [did |-> s, refused |-> 0]
               /\ UNCHANGED tables

(* SELECT @v = value FROM a table.  A value that is worked out is given row *)
(* by row, and what was given before a row that is refused stays given; a   *)
(* plain column is given once, from the last row.                           *)
Give(s, places, held) ==
    IF IsRefused(held.value) THEN Refuse(s, held.value.n, count)
    ELSE /\ variable' = held
         /\ count' = Cardinality(places)
         /\ last' = [did |-> s, refused |-> 0]
         /\ UNCHANGED tables
AssignLast(s, table, places) ==
    Give(s, places, IF places = {} THEN variable
                    ELSE Held(table.rows[Latest(places)][s.value[2]], FALSE))
AssignEach(s, table, places) ==
    LET held == [i \in places |->
                   Held(Evaluate(s.value, table.rows[i], InARead), RoundsAsWritten(s.value))]
        refusing == {i \in places : IsRefused(held[i].value)}
        given == {i \in places : \A r \in refusing : i < r}
        kind == MadeKind(s.value, {held[i].value : i \in places}, table, TRUE)
    IN IF refusing # {}
       THEN RefuseHolding(s, held[First(refusing)].value.n, count,
                          IF given = {} THEN variable ELSE held[Latest(given)])
       ELSE Give(s, places, IF places = {} THEN variable
                            ELSE Held(InColumn(held[Latest(places)].value, kind), FALSE))

SelectAssigns(s) ==
    /\ variable.type # None
    /\ IF ~Made(s.from) THEN Refuse(s, INVALID_OBJECT_NAME, count)
       ELSE LET table == tables[s.from]
                refused == RefusedIn(Conditions(table, s.where))
            IN IF refused # 0 THEN Refuse(s, refused, count)
               ELSE IF s.value[1] = "column" THEN AssignLast(s, table, Hit(table, s.where))
               ELSE AssignEach(s, table, Hit(table, s.where))

(* The next batch: what it declares is its own. *)
EndBatch(s) ==
    /\ variable' = Undeclared
    /\ last' = [did |-> s, refused |-> 0]
    /\ UNCHANGED <<tables, count>>

(* ---- the connection -----------------------------------------------------*)

Init ==
    /\ tables = [name \in Tables |-> NotMade]
    /\ variable = Undeclared
    /\ count = 0
    /\ last = [did |-> [op |-> "end"], refused |-> 0]
    /\ sent = 0

(* A variable that a statement reads is declared, or the batch does not     *)
(* compile.                                                                 *)
Compiles(s) == s.reads => variable.type # None

Run(s) ==
    \/ s.op = "create" /\ Create(s)
    \/ s.op = "drop" /\ Drop(s)
    \/ s.op = "make_from" /\ MakeFrom(s)
    \/ s.op = "truncate" /\ Truncate(s)
    \/ s.op = "insert_values" /\ InsertValues(s)
    \/ s.op = "insert_select" /\ InsertSelect(s)
    \/ s.op = "update" /\ Update(s)
    \/ s.op = "delete" /\ Delete(s)
    \/ s.op = "declare" /\ Declare(s)
    \/ s.op = "set" /\ SetVariable(s)
    \/ s.op = "select_assigns" /\ SelectAssigns(s)
    \/ s.op = "end" /\ EndBatch(s)

Next ==
    /\ sent < MaxStatements
    /\ sent' = sent + 1
    /\ \E s \in Statements : Compiles(s) /\ Run(s)
    /\ \A name \in Tables : tables'[name].next <= MaxRows + 1

Spec == Init /\ [][Next]_vars

(* ---- properties ---------------------------------------------------------*)

(* Whatever way a value came into a column or the variable - a VALUES, a    *)
(* SELECT, an UPDATE, a table made from another, a row assigned - it is one *)
(* its declared type can hold (_stored, _into_a_column, _assign).           *)
HeldAsDeclared ==
    /\ \A name \in Tables : \A i \in DOMAIN tables[name].rows : \A c \in COLUMNS :
          HeldBy(tables[name].rows[i][c], tables[name].types[c])
    /\ variable.type # None => HeldBy(variable.value, variable.type)

(* After a statement that worked, @@ROWCOUNT is how many rows it added,     *)
(* took away, changed or was given values from, and nought where it made,   *)
(* dropped or emptied a table - never what a read of its own answered; and  *)
(* after one that the batch carries on past it is nought.                   *)
Rows(held) == Cardinality(DOMAIN held.rows)
Touched(s, after) ==
    CASE s.op \in {"create", "drop", "truncate"} -> 0
      [] s.op \in {"make_from", "insert_values", "insert_select"} ->
           Rows(after[s.table]) - Rows(tables[s.table])
      [] s.op = "delete" -> Rows(tables[s.table]) - Rows(after[s.table])
      [] s.op = "update" -> Cardinality(Hit(tables[s.table], s.where))
      [] s.op = "set" -> 1
      [] s.op = "select_assigns" -> Cardinality(Hit(tables[s.from], s.where))
      [] OTHER -> count
Counted ==
    count' = IF last'.refused = 0 THEN Touched(last'.did, tables')
             ELSE IF ~last'.did.tried /\ last'.refused \in THE_BATCH_GOES_ON THEN 0
             ELSE count'
CountsWhatItTouched == [][Counted]_vars

(* A statement reads its tables as they were and writes them once.  Each    *)
(* row an UPDATE hit is worked out from itself as it was, so that swapping  *)
(* two columns swaps them; each row an INSERT put in comes from one row it  *)
(* read, its own table's old rows included and none of the new; the other   *)
(* rows, and the other tables, stay; and a refused statement writes none.   *)
From(s, c) == IF s.into = <<>> THEN {c} ELSE {p \in DOMAIN s.into : s.into[p] = c}
TakenFrom(s, row) ==
    CASE s.op = "insert_values" ->
           \E i \in DOMAIN s.values :
             row = StoredRow(tables[s.table].types,
                             Fitted(s, [p \in DOMAIN s.values[i] |->
                                          Evaluate(s.values[i][p], <<>>, WithoutARead)]))
      [] s.op = "insert_select" ->
           \E i \in Hit(tables[s.from], s.where) : \A c \in COLUMNS :
             \/ From(s, c) = {} /\ row[c] = Null
             \/ \E p \in From(s, c) :
                  s.items[p][1] = "column" =>
                    row[c] = IntoAColumn(tables[s.from].rows[i][s.items[p][2]],
                                         tables[s.table].types[c])
      [] OTHER -> TRUE
OfOneKind(table, c) ==
    \E kind \in {"int", "float", "bit", "text"} : \A i \in DOMAIN table.rows :
       table.rows[i][c].kind \in {kind, "null"}
Follows(s, table, i, after) ==
    \A p \in DOMAIN s.assigned :
       LET to == s.assigned[p][1]
           from == s.assigned[p][2]
       IN (/\ from[1] = "column"
           /\ OfOneKind(table, from[2])
           /\ \A q \in DOMAIN s.assigned : s.assigned[q][1] = to => q <= p)
          => after[to] = IntoAColumn(table.rows[i][from[2]], table.types[to])
Wrote(s) ==
    LET table == tables[s.table]
        before == table.rows
        after == tables'[s.table].rows
        hit == Hit(table, s.where)
    IN /\ s.op \in {"insert_values", "insert_select"} =>
            /\ \A i \in DOMAIN before : i \in DOMAIN after /\ after[i] = before[i]
            /\ \A i \in DOMAIN after \ DOMAIN before : TakenFrom(s, after[i])
       /\ s.op = "delete" =>
            /\ DOMAIN after = DOMAIN before \ hit
            /\ \A i \in DOMAIN after : after[i] = before[i]
       /\ s.op = "update" =>
            /\ DOMAIN after = DOMAIN before
            /\ \A i \in DOMAIN before :
                 IF i \in hit THEN Follows(s, table, i, after[i]) ELSE after[i] = before[i]
WroteWhatItRead ==
    LET s == last'.did
        writes == last'.refused = 0 /\ s.op \notin {"declare", "set", "select_assigns", "end"}
    IN /\ \A name \in Tables : ~writes \/ name # s.table => tables'[name] = tables[name]
       /\ writes => Wrote(s)
WritesWhatItRead == [][WroteWhatItRead]_vars

(* _changed's docstring, catalog.py:2345: an UPDATE's condition and values  *)
(* mean exactly what they mean in a read.  What a WHERE passes over cannot  *)
(* fail it: an UPDATE that a read of its values under its WHERE does not    *)
(* refuse is refused for what it would put in, or not at all.               *)
UpdateMeansARead ==
    [][LET s == last'.did IN
       s.op = "update" /\ last'.refused = CONVERSION_FAILED =>
         LET table == tables[s.table]
             values == [p \in DOMAIN s.assigned |-> s.assigned[p][2]]
             read == Asked(values, table, s.where)
         IN \/ read.refused # 0
            \/ \E i \in Hit(table, s.where) : \E c \in COLUMNS :
                 IsRefused(Changed(s, table, table.rows[i], read.rows[i])[c])]_vars
=============================================================================
