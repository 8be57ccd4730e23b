--------------------------------- MODULE Ddl ---------------------------------
(***************************************************************************)
(* A database schema as the objects of each of its tables, and the         *)
(* statements a migration gives to its QueryRunner.  Types, lengths and    *)
(* default values are left out: of a column we keep whether an insert must *)
(* give it a value.  An index is named by its columns, a foreign key by    *)
(* its column.                                                             *)
(***************************************************************************)
EXTENDS Sequences

Object(kind, name, refers, rule) ==
    [kind |-> kind, name |-> name, refers |-> refers, rule |-> rule]

TheTable == Object("table", "", "", "")

\* A required column is NOT NULL and has no default.
Required(c) == Object("column", c, "", "required")
Optional(c) == Object("column", c, "", "optional")

Unique(c) == Object("unique", c, "", "")
Index(c) == Object("index", c, "", "")
Key(c, ref, onDelete) == Object("key", c, ref, onDelete)

\* What a statement names: objects of some kinds, by their name.
Named(kinds, t, c) == [kinds |-> kinds, table |-> t, name |-> c]
NamedTable(t) == Named({"table"}, t, "")
NamedColumn(t, c) == Named({"column"}, t, c)

Matches(o, p) == o.kind \in p.kinds /\ o.name = p.name

-----------------------------------------------------------------------------
(* Statements: the table they change, what they need, what must not be in  *)
(* it yet, what they add to it and drop from it; whether they drop it      *)
(* whole; whether they look for the table first and leave it alone         *)
(* (ifNotExist); whether they change rows and not the schema.              *)

On(t) ==
    [table |-> t, needs |-> {}, clashes |-> {}, adds |-> {}, drops |-> {},
     whole |-> FALSE, checks |-> FALSE, rows |-> FALSE]

Create(t, required, optional, unique) ==
    [On(t) EXCEPT !.clashes = {NamedTable(t)},
                  !.adds = {TheTable} \union {Required(c) : c \in required}
                               \union {Optional(c) : c \in optional}
                               \union {Unique(c) : c \in unique}]

CreateIfNotExists(t, required, optional, unique) ==
    [Create(t, required, optional, unique) EXCEPT !.checks = TRUE]

AddColumn(t, c) ==
    [On(t) EXCEPT !.needs = {NamedTable(t)}, !.clashes = {NamedColumn(t, c)},
                  !.adds = {Optional(c)}]

\* changeColumn as it is used: only the type changes.
ChangeColumn(t, c) == [On(t) EXCEPT !.needs = {NamedColumn(t, c)}]

CreateIndex(t, c) ==
    [On(t) EXCEPT !.needs = {NamedColumn(t, c)}, !.clashes = {Named({"index"}, t, c)},
                  !.adds = {Index(c)}]

CreateUnique(t, cols, name) ==
    [On(t) EXCEPT !.needs = {NamedColumn(t, c) : c \in cols},
                  !.clashes = {Named({"unique"}, t, name)}, !.adds = {Unique(name)}]

CreateKey(t, c, ref, onDelete) ==
    [On(t) EXCEPT !.needs = {NamedColumn(t, c), NamedTable(ref)},
                  !.clashes = {Named({"key"}, t, c)}, !.adds = {Key(c, ref, onDelete)}]

\* find and update of the rows of an entity: all its columns must exist.
UpdateRows(t, cols) ==
    [On(t) EXCEPT !.needs = {NamedColumn(t, c) : c \in cols}, !.rows = TRUE]

Drop(kinds, t, c) ==
    [On(t) EXCEPT !.needs = {Named(kinds, t, c)}, !.drops = {Named(kinds, t, c)}]

DropIndex(t, c) == Drop({"index"}, t, c)
DropUnique(t, c) == Drop({"unique"}, t, c)

\* dropForeignKey; a name that no key has (TypeORM names them by a hash) is no
\* column either.
DropKey(t, c) == Drop({"key"}, t, c)

\* A column goes with its indices, and stays if a foreign key needs it.
DropColumn(t, c) ==
    [On(t) EXCEPT !.needs = {NamedColumn(t, c)}, !.clashes = {Named({"key"}, t, c)},
                  !.drops = {Named({"column", "index", "unique"}, t, c)}]

\* ALTER TABLE .. CHANGE
RenameColumn(t, c, new) ==
    [On(t) EXCEPT !.needs = {NamedColumn(t, c)}, !.clashes = {NamedColumn(t, new)},
                  !.drops = {NamedColumn(t, c)}, !.adds = {Optional(new)}]

DropTable(t) == [On(t) EXCEPT !.needs = {NamedTable(t)}, !.whole = TRUE]

-----------------------------------------------------------------------------
(* What the database does with them *)

Exists(db, p) == \E o \in db[p.table] : Matches(o, p)

\* A table that a key of another table refers to is not dropped.
Can(db, st) ==
    /\ \A p \in st.needs : Exists(db, p)
    /\ \A p \in st.clashes : ~Exists(db, p)
    /\ st.whole => \A t \in DOMAIN db \ {st.table} : \A o \in db[t] : o.refers # st.table

Dropped(o, st) == st.whole \/ \E p \in st.drops : Matches(o, p)

Apply(db, st) ==
    [db EXCEPT ![st.table] = {o \in @ : ~Dropped(o, st)} \union st.adds]

\* A statement that fails when it is run again.
Exclusive(st) == st.clashes # {} /\ ~st.checks

=============================================================================
