----------------------------- MODULE NamePasses -----------------------------
(***************************************************************************)
(* The passes that give the tables, models and enums of a build names that *)
(* are apart: in their schema, where targets render local names bare, and  *)
(* in their database, where Prisma keeps one namespace of models and enums *)
(* whatever the schema.                                                    *)
(*                                                                         *)
(* tables and enums are the sequences of what all databases hold, in the   *)
(* order it was built; a schema comes into being with its first table. A   *)
(* pass treats each database by itself, so it is applied to all at once.   *)
(***************************************************************************)
EXTENDS Tables

InSchema(items, i) == {j \in DOMAIN items : items[j].db = items[i].db
                                            /\ items[j].schema = items[i].schema}
InDatabase(items, i) == {j \in DOMAIN items : items[j].db = items[i].db}

\* A group of messages or enums, each named with the messages around it, and
\* with the domain of its package when that is not enough.
ScopedApart(w, S, items) ==
    LET scoped == [i \in S |-> Scoped(items[i].path)]
    IN  [i \in S |-> IF i \in Colliding(S, scoped)
                     THEN Join(PackageDomain(w, items[i]), scoped[i]) ELSE scoped[i]]

-----------------------------------------------------------------------------
\* Enums as the columns are built.

IsCase(w, k) == w.enums[k].msg # 0
CaseName(model, oneof) == Join(model, Join(PascalGo(oneof), <<"case">>))
Spelled(e, q) == [e EXCEPT !.name = q, !.local = q,
                           !.sql = SnakeCase(q), !.localSql = SnakeCase(q)]

NewEnum(w, db, schema, k) ==
    LET own == SimpleName(w.enums[k].path)
        q   == IF IsCase(w, k) THEN CaseName(own, w.enums[k].oneof) ELSE own
    IN  [db |-> db, schema |-> schema, proto |-> k,
         name |-> q, local |-> q, sql |-> SnakeCase(q), localSql |-> SnakeCase(q)]

QualifyLocalEnums(w, enums, at) ==
    LET simple(i) == SimpleName(w.enums[enums[i].proto].path)
        group == {i \in InSchema(enums, at) :
                     ~IsCase(w, enums[i].proto) /\ simple(i) = simple(at)}
        base  == ScopedApart(w, group, [i \in group |-> w.enums[enums[i].proto]])
        named == Assign(Ascending(group), base, {}, Pascal)
    IN  IF Cardinality(group) < 2 THEN enums
        ELSE [i \in DOMAIN enums |->
                IF i \in group THEN Spelled(enums[i], named[i]) ELSE enums[i]]

\* enumOf and oneofEnum: built on first use in the schema.
AddEnum(w, db, schema, enums, k) ==
    LET grown == Append(enums, NewEnum(w, db, schema, k))
    IN  CASE \E i \in DOMAIN enums : /\ enums[i].proto = k
                                     /\ enums[i].db = db /\ enums[i].schema = schema -> enums
          [] IsCase(w, k) -> grown
          [] OTHER -> QualifyLocalEnums(w, grown, Len(grown))

\* The enums a message's columns use, in the order the build meets them.
EnumsOf(w, m) ==
    LET fields == Ascending({i \in Kept(w, m) : /\ Field(w, m, i).kind = "enum"
                                                /\ ~Field(w, m, i).list})
    IN  [k \in DOMAIN fields |-> Field(w, m, fields[k]).enum] \o w.msgs[m].oneofs

-----------------------------------------------------------------------------
\* qualifyLocalModels: the messages of one schema that share a simple name.

LocalName(w, tables, schema, at) ==
    LET local    == [i \in schema |-> tables[i].local]
        messages == {i \in schema : tables[i].proto # 0}
        shared   == Colliding(messages, local)
        Group(i) == {j \in shared : local[j] = local[i]}
        Base(i)  == ScopedApart(w, Group(i), [j \in Group(i) |-> w.msgs[tables[j].proto]])[i]
        used     == {local[i] : i \in {j \in schema : Group(j) = {}}}
        order    == InOrder(shared, [i \in shared |->
                                <<FirstOf(messages, local, i), tables[i].proto>>])
    IN  IF at \in shared
        THEN Assign(order, [i \in shared |-> Base(i)], used, Pascal)[at]
        ELSE local[at]

\* A table named after its message is renamed with it, a declared name stays.
Renamed(t, q) ==
    IF q = t.local THEN t
    ELSE [t EXCEPT !.name  = IF @ = SnakePlural(t.local) THEN SnakePlural(q) ELSE @,
                   !.local = q, !.model = q]

QualifyLocalModels(w, tables) ==
    [i \in DOMAIN tables |-> Renamed(tables[i], LocalName(w, tables, InSchema(tables, i), i))]

\* renameOneofCases, for the tables a pass renamed.
RenameOneofCases(w, before, after, enums) ==
    LET Owner(e) == {i \in DOMAIN before :
                        /\ before[i].db = e.db /\ before[i].schema = e.schema
                        /\ IsCase(w, e.proto) /\ before[i].proto = w.enums[e.proto].msg
                        /\ before[i].local # after[i].local}
        Recased(e) ==
            IF Owner(e) = {} THEN e
            ELSE Spelled(e, CaseName(after[Min(Owner(e))].local, w.enums[e.proto].oneof))
    IN  [k \in DOMAIN enums |-> Recased(enums[k])]

\* qualifyEnumsAgainstModels: an enum named like a model of its schema yields.
EnumLocalNames(w, tables, enums, at) ==
    LET schema == InSchema(enums, at)
        models == {tables[i].local : i \in {j \in DOMAIN tables :
                      tables[j].db = enums[at].db /\ tables[j].schema = enums[at].schema}}
        Yield(acc, i) ==
            LET item   == w.enums[enums[i].proto]
                scoped == Scoped(item.path)
                base   == IF scoped = enums[i].local \/ scoped \in acc.taken
                          THEN Join(PackageDomain(w, item), scoped) ELSE scoped
                q      == Fresh(base, acc.taken, Pascal)
            IN  IF IsCase(w, enums[i].proto) \/ enums[i].local \notin models THEN acc
                ELSE [taken |-> acc.taken \cup {q}, name |-> [acc.name EXCEPT ![i] = q]]
        own   == [i \in schema |-> enums[i].local]
        order == Ascending(schema)
        yielded[n \in 0 .. Len(order)] ==
            IF n = 0 THEN [taken |-> models \cup {own[i] : i \in schema}, name |-> own]
            ELSE Yield(yielded[n - 1], order[n])
    IN  yielded[Len(order)].name

QualifyEnumsAgainstModels(w, tables, enums) ==
    LET Yielded(i) == LET q == EnumLocalNames(w, tables, enums, i)[i]
                      IN  IF q = enums[i].local THEN enums[i] ELSE Spelled(enums[i], q)
    IN  [i \in DOMAIN enums |-> Yielded(i)]

-----------------------------------------------------------------------------
\* deStutterTables

GenericTableWords == << <<"resource">>, <<"entity">>, <<"record">>, <<"item">> >>

DeStutteredName(name, schema, taken) ==
    LET root == Squash(schema)
        Stutters(id) == IsPrefix(root, Squash(id))
        words   == Words(name)
        spelled == {k \in 1 .. Len(words) - 1 : FlattenSeq(SubSeq(words, 1, k)) = root}
        rest    == JoinAll(SubSeq(words, Min(spelled) + 1, Len(words)))
        link    == Join(rest, <<"link">>)
        free    == SelectSeq(GenericTableWords, LAMBDA g : ~Stutters(g) /\ g \notin taken)
        generic == IF free = <<>> THEN name ELSE Head(free)
    IN  IF root = NoName \/ ~Stutters(name) THEN name
        ELSE IF spelled = {} THEN generic
        ELSE IF ~Stutters(rest) /\ rest \notin taken THEN rest
        ELSE IF link \notin taken THEN link
        ELSE generic

Eponymous(name, schema) ==
    LET root == Squash(schema)
        own  == Squash(name)
    IN  /\ root # NoName /\ IsPrefix(root, own)
        /\ SubSeq(own, Len(root) + 1, Len(own)) \in {NoName, <<"s">>, <<"es">>}

DeStutteredNames(layout, tables, at) ==
    LET schema == InSchema(tables, at)
        Rename(acc, i) ==
            LET name == acc.name[i]
                own  == tables[i].schema
                q    == IF layout.keep /\ Eponymous(name, own) THEN name
                        ELSE DeStutteredName(name, own, acc.taken)
            IN  IF q = name THEN acc
                ELSE [taken |-> (acc.taken \ {name}) \cup {q}, name |-> [acc.name EXCEPT ![i] = q]]
        own == [i \in schema |-> tables[i].name]
    IN  FoldLeft(Rename, [taken |-> {own[i] : i \in schema}, name |-> own],
                 Ascending(schema)).name

DeStutterTables(layout, tables) ==
    IF ~layout.dedupe THEN tables
    ELSE [i \in DOMAIN tables |->
            IF tables[i].schema = <<"public">> THEN tables[i]
            ELSE [tables[i] EXCEPT !.name = DeStutteredNames(layout, tables, i)[i]]]

-----------------------------------------------------------------------------
\* dedupeTableNames: the tables of a schema, join tables among them.

DedupedName(tables, schema, at) ==
    LET name   == [i \in schema |-> tables[i].name]
        shared == Colliding(schema, name)
        order  == InOrder(shared, [i \in shared |->
                                <<FirstOf(schema, name, i), tables[i].proto>>])
        single == [i \in shared |-> SnakeCase(tables[i].local)]
    IN  IF at \in shared THEN Assign(order, single, Alone(schema, name), Snake)[at]
        ELSE name[at]

DedupeTableNames(tables) ==
    [i \in DOMAIN tables |->
        [tables[i] EXCEPT !.name = DedupedName(tables, InSchema(tables, i), i)]]

\* qualifyModels: the models of a database; every one of a name is renamed.
QualifiedModel(tables, db, at) ==
    LET model   == [i \in db |-> tables[i].model]
        shared  == Colliding(db, model)
        models  == {model[i] : i \in shared}
        schemas == {tables[i].schema : i \in shared}
        order   == InOrder(shared, [i \in shared |->
                      <<Rank(model[i], models), Rank(tables[i].schema, schemas), tables[i].proto>>])
        base    == [i \in shared |-> Join(PascalGo(SchemaDomain(tables[i].schema)), model[i])]
    IN  IF at \in shared THEN Assign(order, base, Alone(db, model), Pascal)[at]
        ELSE model[at]

QualifyModels(tables) ==
    [i \in DOMAIN tables |->
        [tables[i] EXCEPT !.model = QualifiedModel(tables, InDatabase(tables, i), i)]]

\* fitTableNames: an index follows its columns; a foreign key and the name of
\* the primary key do not.
FitTable(t) ==
    LET Fitted(name) == IF HasColumn(t, name) THEN FitIdentifier(name) ELSE name
        Column(c) == [c EXCEPT !.name = FitIdentifier(@)]
        Index(x)  == [x EXCEPT !.columns = [c \in DOMAIN @ |-> Fitted(@[c])]]
    IN  [t EXCEPT !.name    = FitIdentifier(@),
                  !.columns = [i \in DOMAIN @ |-> Column(@[i])],
                  !.indexes = [k \in DOMAIN @ |-> Index(@[k])]]

FitTableNames(tables) == [i \in DOMAIN tables |-> FitTable(tables[i])]

-----------------------------------------------------------------------------
\* dedupeEnums: one enum of a proto enum in a database, then names apart from
\* the models' and each other's. A column names its enum by the proto enum.

SchemaFounded(tables, e) ==
    Min({i \in DOMAIN tables : tables[i].db = e.db /\ tables[i].schema = e.schema})

CanonicalEnums(tables, enums) ==
    LET Precedes(i, j) ==
            LET a == SchemaFounded(tables, enums[i])
                b == SchemaFounded(tables, enums[j])
            IN  a < b \/ (a = b /\ i < j)
        canonical == {i \in DOMAIN enums :
                         \A j \in InDatabase(enums, i) \ {i} :
                            enums[j].proto = enums[i].proto => Precedes(i, j)}
    IN  Picked(enums, canonical)

ModelsOf(tables, db) == {tables[i].model : i \in {j \in DOMAIN tables : tables[j].db = db}}

QualifiedEnum(tables, enums, db, at) ==
    LET name    == [i \in db |-> enums[i].name]
        models  == ModelsOf(tables, enums[at].db)
        shared  == Colliding(db, name) \cup {i \in db : name[i] \in models}
        names   == {name[i] : i \in shared}
        schemas == {enums[i].schema : i \in shared}
        order   == InOrder(shared, [i \in shared |->
                      <<Rank(name[i], names), Rank(enums[i].schema, schemas), enums[i].proto>>])
        base    == [i \in shared |-> Join(PascalGo(SchemaDomain(enums[i].schema)), name[i])]
        used    == models \cup {name[i] : i \in db \ shared}
    IN  IF at \in shared THEN Assign(order, base, used, Pascal)[at] ELSE name[at]

QualifyEnum(tables, enums, i) ==
    LET q == QualifiedEnum(tables, enums, InDatabase(enums, i), i)
    IN  IF q = enums[i].name THEN enums[i] ELSE [enums[i] EXCEPT !.name = q, !.sql = SnakeCase(q)]

DedupeEnums(tables, enums) ==
    LET kept == CanonicalEnums(tables, enums)
    IN  [i \in DOMAIN kept |-> QualifyEnum(tables, kept, i)]

FitEnumNames(enums) ==
    [i \in DOMAIN enums |-> [enums[i] EXCEPT !.sql      = FitIdentifier(@),
                                             !.localSql = FitIdentifier(@)]]
=============================================================================
