------------------------------- MODULE Tables -------------------------------
(***************************************************************************)
(* How one message becomes a table: its columns, keys, parents, declared   *)
(* indexes and enums, and what it leaves to later passes - the fields to   *)
(* embed and the join tables to build.                                     *)
(*                                                                         *)
(* w is what the build is given: w.files, w.msgs, w.enums, w.readers in    *)
(* key order, w.layout and w.strict. Messages and enums are numbered in    *)
(* the order of their full names, the case enum of a oneof among them; 0   *)
(* is no message (a join table's) and no enum. A resource pattern is the   *)
(* sequence of its segments. Comments, source paths and enum values are    *)
(* left out.                                                               *)
(***************************************************************************)
EXTENDS Structure

NoType == [host |-> NoName, kind |-> NoName]
NoResource == [host |-> NoName, kind |-> NoName, plural |-> NoName, patterns |-> <<>>]
NoEnum == 0
NoField == 0

Id == <<"id">>
CreateTime == <<"create", "_", "time">>
UpdateTime == <<"update", "_", "time">>
DeleteTime == <<"delete", "_", "time">>

SimpleName(path) == Last(path)
Scoped(path) == JoinAll(path)
PackageOf(w, file) == w.files[CHOOSE i \in DOMAIN w.files : w.files[i].name = file].pkg
PackageDomain(w, item) == PascalGo(SchemaDomain(PackageOf(w, item.file)))
IsResource(w, m) == w.msgs[m].resource # NoResource
TypeOf(w, m) == [host |-> w.msgs[m].resource.host, kind |-> w.msgs[m].resource.kind]

NewColumn(name, type) ==
    [name |-> name, type |-> type, pk |-> FALSE, notNull |-> FALSE, unique |-> FALSE,
     model |-> NoName, identifier |-> FALSE, enum |-> NoEnum]

\* A foreign key as the build first writes it: where it points is found later.
NewKey(column, model) ==
    [column |-> column, model |-> model, proto |-> 0, type |-> NoType, pattern |-> <<>>,
     onDelete |-> "", onUpdate |-> "", kind |-> "", db |-> NoName, schema |-> NoName,
     table |-> NoName, target |-> NoName, why |-> "", relation |-> NoName]

NewIndex(columns) == [name |-> NoName, columns |-> columns, unique |-> FALSE]

NewTable(db, schema, name, local, proto) ==
    [db |-> db, schema |-> schema, name |-> name, local |-> local, model |-> local,
     proto |-> proto, value |-> FALSE, pk |-> NoName, columns |-> <<>>, indexes |-> <<>>,
     keys |-> <<>>, external |-> <<>>, unresolved |-> <<>>, many |-> <<>>,
     parents |-> <<>>, field |-> NoField]

HasColumn(t, name) == \E i \in DOMAIN t.columns : t.columns[i].name = name

-----------------------------------------------------------------------------
\* populateColumns

Field(w, m, i) == w.msgs[m].fields[i]
Kept(w, m) == {i \in DOMAIN w.msgs[m].fields : ~ColumnOf(w.readers, <<m, i>>).skip}
IsDocument(w, m, i) == Field(w, m, i).kind = "message" /\ Field(w, m, i).msg \in w.layout.documents
IsEmbed(w, m, i) == Field(w, m, i).kind = "message" /\ ~IsDocument(w, m, i)
IsJoin(w, m, i) == Field(w, m, i).kind = "ref" /\ Field(w, m, i).list
IsReference(w, m, i) == Field(w, m, i).kind = "ref" /\ ~Field(w, m, i).list

ColumnName(w, m, i) ==
    LET cs == ColumnOf(w.readers, <<m, i>>)
    IN  IF cs.column # NoName THEN cs.column ELSE Field(w, m, i).name

\* buildColumn, and the association of a singular reference.
BuildColumn(w, m, i) ==
    LET f == Field(w, m, i)
    IN  [NewColumn(ColumnName(w, m, i), f.type) EXCEPT
            !.pk         = f.behavior = "IDENTIFIER",
            !.notNull    = f.behavior \in {"REQUIRED", "IDENTIFIER"},
            !.identifier = f.behavior = "IDENTIFIER",
            !.model      = IF IsReference(w, m, i) THEN f.refers.kind ELSE NoName,
            !.enum       = IF f.kind = "enum" /\ ~f.list THEN f.enum ELSE NoEnum]

ReferenceKey(w, m, i) ==
    LET f == Field(w, m, i)
        cs == ColumnOf(w.readers, <<m, i>>)
    IN  [NewKey(ColumnName(w, m, i), f.refers.kind) EXCEPT
            !.type = f.refers, !.onDelete = cs.onDelete, !.onUpdate = cs.onUpdate]

\* addOneofDiscriminators
CaseColumn(w, e) == [NewColumn(Join(w.enums[e].oneof, <<"case">>), "enum") EXCEPT !.enum = e]

Populate(w, t) ==
    LET m       == t.proto
        fields  == {i \in Kept(w, m) : ~IsEmbed(w, m, i) /\ ~IsJoin(w, m, i)}
        plain   == Ascending(fields)
        columns == [k \in DOMAIN plain |-> BuildColumn(w, m, plain[k])]
        refs    == Ascending({i \in fields : IsReference(w, m, i)})
        oneofs  == w.msgs[m].oneofs
        primary == SelectSeq(columns, LAMBDA c : c.pk)
    IN  [t EXCEPT
            !.columns = columns \o [k \in DOMAIN oneofs |-> CaseColumn(w, oneofs[k])],
            !.pk      = IF primary = <<>> THEN NoName ELSE Head(primary).name,
            !.keys    = [k \in DOMAIN refs |-> ReferenceKey(w, m, refs[k])]]

\* The requests the message leaves: its table at position `at`, and the field.
EmbedsOf(w, at, m) ==
    LET fields == Ascending({i \in Kept(w, m) : IsEmbed(w, m, i)})
    IN  [k \in DOMAIN fields |-> <<at, fields[k]>>]
JoinsOf(w, at, m) ==
    LET fields == Ascending({i \in Kept(w, m) : IsJoin(w, m, i)})
    IN  [k \in DOMAIN fields |-> <<at, fields[k]>>]

-----------------------------------------------------------------------------
\* keys.go and parent.go

SystemColumn(c) ==
    CASE c.name = CreateTime \/ c.name = UpdateTime ->
            [c EXCEPT !.type = "timestamp", !.enum = NoEnum, !.notNull = TRUE]
      [] c.name = DeleteTime ->
            [c EXCEPT !.type = "timestamp", !.enum = NoEnum, !.notNull = FALSE]
      [] c.name = <<"uid">> -> [c EXCEPT !.unique = TRUE]
      [] OTHER -> c

ApplyAIPSystemFields(t) ==
    LET timed == Picked(t.columns, {i \in DOMAIN t.columns :
                                       t.columns[i].name \in {UpdateTime, DeleteTime}})
    IN  [t EXCEPT !.columns = [i \in DOMAIN @ |-> SystemColumn(@[i])],
                  !.indexes = @ \o [i \in DOMAIN timed |-> NewIndex(<<timed[i].name>>)]]

\* One column and foreign key for each collection and variable of the first
\* pattern but the last; a column that is there already is left alone. A
\* prefix of the pattern that ends in the parent's variable stands for it.
AddParent(t, pattern) ==
    LET parent == Last(pattern)
        model  == PascalGo(parent)
        column == IdColumn(parent)
        owned  == [t EXCEPT !.parents = Append(@, parent)]
    IN  IF HasColumn(t, column) THEN owned
        ELSE [owned EXCEPT
                !.columns = Append(@, [NewColumn(column, "ulid") EXCEPT
                                          !.notNull = TRUE, !.model = model]),
                !.keys = Append(@, [NewKey(column, model) EXCEPT
                                       !.pattern = pattern, !.onDelete = "CASCADE"])]

MaterializeParents(t, patterns) ==
    LET parents == (Len(patterns[1]) \div 2) - 1
        owned[n \in 0 .. parents] ==
            IF n = 0 THEN t ELSE AddParent(owned[n - 1], SubSeq(patterns[1], 1, 2 * n))
    IN  IF patterns = <<>> \/ parents < 1 THEN t ELSE owned[parents]

IdStrategyOf(id, provider) ==
    IF id # "" \/ provider = "evm" THEN id ELSE "ulid"

\* An id column of the message becomes the key, or one is put first; any other
\* primary key turns unique.
ApplyIDStrategy(t, strategy) ==
    LET Demoted(c) == IF c.pk /\ c.name # Id
                      THEN [c EXCEPT !.pk = FALSE, !.unique = TRUE] ELSE c
        Promoted(c) == IF c.name = Id THEN [c EXCEPT !.pk = TRUE, !.notNull = TRUE] ELSE c
        rest == [i \in DOMAIN t.columns |-> Promoted(Demoted(t.columns[i]))]
        own  == [NewColumn(Id, strategy) EXCEPT !.pk = TRUE, !.notNull = TRUE]
    IN  IF strategy = "" THEN t
        ELSE [t EXCEPT !.pk = Id,
                       !.columns = IF HasColumn(t, Id) THEN rest ELSE <<own>> \o rest]

ApplyTimestamps(t, on) ==
    LET Stamp(name) == [NewColumn(name, "timestamp") EXCEPT !.notNull = TRUE]
    IN  IF ~on THEN t
        ELSE [t EXCEPT !.columns = @ \o <<Stamp(<<"created", "_", "at">>),
                                          Stamp(<<"updated", "_", "at">>)>>]

EnsurePK(t) == IF t.pk # NoName THEN t ELSE ApplyIDStrategy(t, "ulid")

\* The table of a resource message, and of an embedded one.
BuildTable(w, db, schema, m, name) ==
    LET ts  == TableOf(w.readers, m)
        t   == NewTable(db.name, schema, name, SimpleName(w.msgs[m].path), m)
        own == MaterializeParents(ApplyAIPSystemFields(Populate(w, t)), w.msgs[m].resource.patterns)
        key == ApplyIDStrategy(own, IdStrategyOf(ts.id, db.provider))
    IN  [ApplyTimestamps(key, ts.timestamps) EXCEPT !.indexes = @ \o ts.indexes]

\* The schema of the message's own file when the build gives it one.
ValueObjectSchema(w, fallback, m) ==
    LET ds == DatasourceOf(w.readers, w.layout, w.msgs[m].file)
    IN  CASE ds.schema = NoName -> fallback
          [] ds.schema # NoName /\ ds.strip -> StripPackageVersion(ds.schema)
          [] OTHER -> ds.schema

ValueTable(w, db, fallback, m) ==
    LET ts   == TableOf(w.readers, m)
        own  == SimpleName(w.msgs[m].path)
        name == IF ts.table # NoName THEN ts.table ELSE SnakePlural(own)
        t    == [NewTable(db, ValueObjectSchema(w, fallback, m), name, own, m)
                    EXCEPT !.value = TRUE]
        key  == ApplyIDStrategy(ApplyAIPSystemFields(Populate(w, t)), ts.id)
    IN  EnsurePK([ApplyTimestamps(key, ts.timestamps) EXCEPT !.indexes = @ \o ts.indexes])

-----------------------------------------------------------------------------
\* embed_fk.go and m2m.go

EmbedAction(explicit, required) ==
    CASE explicit # "" -> explicit
      [] explicit = "" /\ required -> "CASCADE"
      [] OTHER -> "SET NULL"

\* A column that is there already gets no second foreign key.
AddFKColumn(t, column, ref, notNull, onDelete, onUpdate) ==
    IF HasColumn(t, column) THEN t
    ELSE [t EXCEPT
            !.columns = Append(@, [NewColumn(column, "ulid") EXCEPT
                                      !.notNull = notNull, !.model = ref.model]),
            !.keys = Append(@, [NewKey(column, ref.model) EXCEPT
                                   !.proto = ref.proto, !.onDelete = onDelete,
                                   !.onUpdate = onUpdate])]

\* A join table: a column and a key to each side, the full name of a nested
\* target, and the pair unique.
JoinTable(w, parent, i, child) ==
    LET cs     == ColumnOf(w.readers, <<parent.proto, i>>)
        name   == Join(SnakeCase(parent.model), Field(w, parent.proto, i).name)
        mine   == IdColumn(SnakeCase(parent.model))
        theirs == IdColumn(SnakeCase(child.model))
        t0 == [NewTable(parent.db, parent.schema, name, PascalGo(name), 0) EXCEPT !.field = i]
        t1 == AddFKColumn(t0, mine, parent, TRUE, EmbedAction(cs.onDelete, TRUE), cs.onUpdate)
        t2 == AddFKColumn(t1, theirs, child, TRUE, cs.onDelete, cs.onUpdate)
        full == [NewColumn(Join(SnakeCase(child.model), <<"name">>), "text") EXCEPT !.notNull = TRUE]
        t3 == IF child.parents = <<>> THEN t2 ELSE [t2 EXCEPT !.columns = Append(@, full)]
    IN  EnsurePK([t3 EXCEPT !.indexes = Append(@, [NewIndex(<<mine, theirs>>) EXCEPT
                                                      !.unique = TRUE])])
=============================================================================
