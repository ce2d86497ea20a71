----------------------------- MODULE SchemaBuild -----------------------------
(***************************************************************************)
(* One build of the schema IR, from the files of the request to the        *)
(* verdict: files are merged into databases, embedded messages and join    *)
(* tables follow, the naming passes run, every foreign key is resolved,    *)
(* and the indexes and diagnostics close the build.                        *)
(*                                                                         *)
(* The build is sequential. What varies is its input: the files, what the  *)
(* readers and the layout say of them, and the strict option.              *)
(***************************************************************************)
EXTENDS Relations

CONSTANT Worlds     \* the inputs; readers in the order they were registered

\* Files list messages, and a message is in one file; messages list fields; a
\* reader has a key and answers with lists of indexes. What is declared has a
\* path of names in a file of the request, and schemas have names.
IsIndex(x) == DOMAIN x = DOMAIN NewIndex(<<>>) /\ IsList(x.columns)
IsPath(p) == p \in Seq(Names) /\ p # <<>>
SaysSchemas(datasource) == \A file \in DOMAIN datasource : datasource[file].schema \in Names
IsReader(r) ==
    /\ r.key \in Nat /\ SaysSchemas(r.datasource)
    /\ \A m \in DOMAIN r.table : IsList(r.table[m].indexes)
                                 /\ \A x \in ToSet(r.table[m].indexes) : IsIndex(x)
InFiles(w, item) == IsPath(item.path) /\ \E f \in ToSet(w.files) : f.name = item.file
IsEnumOf(w, e) == InFiles(w, e) /\ e.oneof \in Names
IsMessageOf(w, m) ==
    /\ IsList(m.fields) /\ IsList(m.oneofs) /\ IsList(m.resource.patterns)
    /\ InFiles(w, m) /\ m.resource.host \in Names /\ ToSet(m.oneofs) \subseteq DOMAIN w.enums
    /\ \A p \in ToSet(m.resource.patterns) : IsList(p)
    /\ \A f \in ToSet(m.fields) : /\ f.name \in Names
                                  /\ f.kind = "message" => f.msg \in DOMAIN w.msgs
                                  /\ f.kind = "enum" => f.enum \in DOMAIN w.enums

ASSUME WorldsAssumption ==
    \A w \in Worlds :
        /\ DOMAIN w = {"files", "msgs", "enums", "readers", "layout", "strict"}
        /\ IsList(w.files) /\ IsList(w.readers) /\ \A r \in ToSet(w.readers) : IsReader(r)
        /\ IsList(w.msgs) /\ \A m \in ToSet(w.msgs) : IsMessageOf(w, m)
        /\ IsList(w.enums) /\ \A e \in ToSet(w.enums) : IsEnumOf(w, e)
        /\ SaysSchemas(w.layout.datasource)
        /\ \A f \in ToSet(w.files) : /\ f.pkg \in Names
                                     /\ IsList(f.msgs) /\ ToSet(f.msgs) \subseteq DOMAIN w.msgs
        /\ \A f, g \in DOMAIN w.files :
              \A i \in DOMAIN w.files[f].msgs, j \in DOMAIN w.files[g].msgs :
                 w.files[f].msgs[i] = w.files[g].msgs[j] => f = g /\ i = j

VARIABLES world,    \* the input; from Begin on its readers are sorted
          pc,       \* the next part of the build
          todo,     \* the files still to merge
          dbs, tables, enums,
          embeds,   \* message fields to materialize: <<table, field>>
          joins,    \* repeated references to build join tables for
          pending,  \* foreign keys to resolve: <<table, key>>
          found,    \* what discovery has built, once keys are resolved
          diags,    \* the problems reported: a tuple that begins with the rule
          outcome   \* "", "accepted", "rejected" or what failed

vars == <<world, pc, todo, dbs, tables, enums, embeds, joins, pending, found, diags, outcome>>

Run == [dbs |-> dbs, tables |-> tables]
NoBuild == [dbs |-> <<>>, tables |-> <<>>, enums |-> <<>>, embeds |-> <<>>,
            joins |-> <<>>, diags |-> {}, error |-> ""]
NothingFound == [dbs |-> <<>>, tables |-> <<>>]

-----------------------------------------------------------------------------
\* mergeFile and addFileTables, on a build b.

ParseProvider(p) ==
    CASE p \in {"", "postgres", "postgresql"} -> "postgres"
      [] p \in {"mongodb", "mongo"}           -> "mongodb"
      [] p \in {"evm", "ethereum"}            -> "evm"
      [] OTHER                                -> "unknown"

SchemaOf(ds, res) ==
    LET derived == IF res.host # NoName THEN res.host ELSE <<"public">>
        chosen  == IF ds.schema # NoName THEN ds.schema ELSE derived
    IN  IF ds.strip THEN StripPackageVersion(chosen) ELSE chosen

\* A name is declared, or the resource's plural, or derived; a type without
\* a host keeps the derived one.
TableName(ts, res) ==
    CASE ts.table = NoName /\ res.plural # NoName -> SnakeCase(res.plural)
      [] ts.table # NoName /\ res.host # NoName   -> ts.table
      [] OTHER                                    -> SnakePlural(res.kind)

Lints(saw) == {<<"lint", what>> : what \in saw}
SawFields(w, m) == UNION {SawColumn(w.readers, <<m, i>>) : i \in DOMAIN w.msgs[m].fields}

\* What a message's columns leave behind: its enums, embeds and joins.
Populated(w, b, t) ==
    LET at == Len(b.tables) + 1
        used == EnumsOf(w, t.proto)
        known[n \in 0 .. Len(used)] ==
            IF n = 0 THEN b.enums ELSE AddEnum(w, t.db, t.schema, known[n - 1], used[n])
    IN  [b EXCEPT !.tables = Append(@, t),
                  !.enums  = known[Len(used)],
                  !.embeds = @ \o EmbedsOf(w, at, t.proto),
                  !.joins  = @ \o JoinsOf(w, at, t.proto),
                  !.diags  = @ \cup Lints(SawFields(w, t.proto))]

AddMessage(w, db, ds, b, m) ==
    LET ts   == TableOf(w.readers, m)
        res  == w.msgs[m].resource
        seen == [b EXCEPT !.diags = @ \cup Lints(SawTable(w.readers, m))]
    IN  IF ts.skip \/ ~IsResource(w, m) THEN seen
        ELSE Populated(w, seen, BuildTable(w, db, SchemaOf(ds, res), m, TableName(ts, res)))

\* The build with the file's database in it; a new one that has no table
\* is none.
Place(b, at, db) == IF at = {} THEN Append(b.dbs, db) ELSE [b.dbs EXCEPT ![Min(at)] = db]
Settled(before, b, at, db) ==
    IF at = {} /\ Len(b.tables) = Len(before.tables) THEN b
    ELSE [b EXCEPT !.dbs = Place(b, at, db)]

Merged(w, b, f) ==
    LET ds       == DatasourceOf(w.readers, w.layout, f.name)
        name     == IF ds.db # NoName THEN ds.db ELSE Last(Words(f.pkg))
        provider == ParseProvider(ds.provider)
        at       == {d \in DOMAIN b.dbs : b.dbs[d].name = name}
        fresh    == [name |-> name, url |-> ds.url, provider |-> provider]
        old      == b.dbs[Min(at)]
        db       == IF at = {} THEN fresh
                    ELSE [old EXCEPT !.url = IF @ = "" THEN ds.url ELSE @]
        seen     == [b EXCEPT !.diags = @ \cup Lints(SawDatasource(w.readers, f.name))]
        filled[n \in 0 .. Len(f.msgs)] ==
            IF n = 0 THEN seen ELSE AddMessage(w, db, ds, filled[n - 1], f.msgs[n])
    IN  IF provider = "unknown" THEN [seen EXCEPT !.error = "provider"]
        ELSE IF at # {} /\ db.provider # provider /\ ds.provider # ""
        THEN [seen EXCEPT !.dbs = Place(b, at, db), !.error = "provider conflict"]
        ELSE Settled(b, filled[Len(f.msgs)], at, db)

\* newDiscovery: the files the run does not generate, the request's and then
\* the reference images'; a file that fails to merge is no target.
LookupOnly(w, b) ==
    [dbs |-> b.dbs, tables |-> QualifyModels(DeStutterTables(w.layout, b.tables))]
Discovered(w) ==
    LET others == Picked(w.files, {i \in DOMAIN w.files : ~w.files[i].generate})
        merged[n \in 0 .. Len(others)] ==
            IF n = 0 THEN NoBuild
            ELSE [Merged(w, merged[n - 1], others[n]) EXCEPT !.error = ""]
    IN  LookupOnly(w, merged[Len(others)])

-----------------------------------------------------------------------------
\* normalizeEmbeds and normalizeM2M

\* mutant: a message gets a table for every field that embeds it
MaterializedAgain(w, b, t, m) ==
    [build |-> Populated(w, b, ValueTable(w, t.db, t.schema, m)), at |-> Len(b.tables) + 1]

\* The table of an embedded message, built when the database has none.
Materialized(w, b, t, m) ==
    LET here == {i \in DOMAIN b.tables : b.tables[i].db = t.db /\ b.tables[i].proto = m}
        saw  == SawTable(w.readers, m) \cup SawDatasource(w.readers, w.msgs[m].file)
        seen == [b EXCEPT !.diags = @ \cup Lints(saw)]
    IN  IF here # {} THEN [build |-> b, at |-> Min(here)]
        ELSE [build |-> Populated(w, seen, ValueTable(w, t.db, t.schema, m)),
              at    |-> Len(b.tables) + 1]

\* Many children point at the parent; the parent points at a single one.
Embedded(w, b, request) ==
    LET t   == b.tables[request[1]]
        f   == Field(w, t.proto, request[2])
        cs  == ColumnOf(w.readers, <<t.proto, request[2]>>)
        got == Materialized(w, b, t, f.msg)
        required == f.behavior # ""
        ToParent(c) == AddFKColumn(c, IdColumn(SnakeCase(t.model)), t, TRUE,
                                   EmbedAction(cs.onDelete, TRUE), cs.onUpdate)
        ToChild(p, c) == AddFKColumn(p, IdColumn(f.name), c, required,
                                     EmbedAction(cs.onDelete, required), cs.onUpdate)
    IN  IF f.list THEN [got.build EXCEPT !.tables[got.at] = ToParent(@)]
        ELSE [got.build EXCEPT !.tables[request[1]] = ToChild(@, got.build.tables[got.at])]

\* mutant: the array is nobody's business
JoinedQuietly(w, b, request) ==
    LET t      == b.tables[request[1]]
        target == JoinTarget(w, b, t.db, Field(w, t.proto, request[2]).refers)
    IN  IF target # 0
        THEN [b EXCEPT !.tables = Append(@, JoinTable(w, t, request[2], b.tables[target]))]
        ELSE [b EXCEPT !.tables[request[1]].columns =
                           Append(@, BuildColumn(w, t.proto, request[2]))]

\* A join table, or a column with the list when there is no table to join.
Joined(w, b, request) ==
    LET t      == b.tables[request[1]]
        f      == Field(w, t.proto, request[2])
        target == JoinTarget(w, b, t.db, f.refers)
        column == BuildColumn(w, t.proto, request[2])
    IN  IF target # 0
        THEN [b EXCEPT !.tables = Append(@, JoinTable(w, t, request[2], b.tables[target]))]
        ELSE [b EXCEPT !.tables[request[1]].columns = Append(@, column),
                       !.diags = @ \cup {<<"ref", "array column", t.proto, column.name>>}]

-----------------------------------------------------------------------------
\* diagnostics and lint

\* The last entry for the rule decides, else the last for every rule.
IsError(strict, rule) ==
    LET Entries(key) == {i \in DOMAIN strict : strict[i].key = key}
    IN  IF Entries(rule) # {} THEN strict[Max(Entries(rule))].error
        ELSE Entries("*") # {} /\ strict[Max(Entries("*"))].error

LintOf(w) ==
    LET listed == UNION {{<<f, m>> : m \in ToSet(w.files[f].msgs)} :
                            f \in {g \in DOMAIN w.files : w.files[g].generate}}
        resources == {fm \in listed : IsResource(w, fm[2])}
        Host(fm) == w.msgs[fm[2]].resource.host
        marked == {fm \in resources : \E i \in DOMAIN w.msgs[fm[2]].fields :
                                          Field(w, fm[2], i).behavior = "IDENTIFIER"}
    IN  {<<"lint", "host", fm[2]>> : fm \in {x \in resources :
                                       Host(x) \notin {NoName, w.files[x[1]].pkg}}}
        \cup {<<"lint", "no identifier", fm[2]>> : fm \in resources \ marked}

-----------------------------------------------------------------------------
Init ==
    /\ world \in Worlds
    /\ pc = "start" /\ outcome = "" /\ diags = {} /\ todo = <<>> /\ pending = <<>>
    /\ found = NothingFound /\ dbs = <<>> /\ tables = <<>> /\ enums = <<>> /\ embeds = <<>> /\ joins = <<>>

Fail(why) ==
    /\ pc' = "done" /\ outcome' = why

\* Build: the readers sorted, two of one key refused.
Begin ==
    /\ pc = "start"
    /\ world' = [world EXCEPT !.readers = SortReaders(@)]
    /\ IF DuplicateKeys(SortReaders(world.readers))
       THEN Fail("duplicate keys") /\ UNCHANGED todo
       ELSE /\ pc' = "merge" /\ UNCHANGED outcome
            /\ todo' = Picked(world.files, {i \in DOMAIN world.files : world.files[i].generate})
    /\ UNCHANGED <<dbs, tables, enums, embeds, joins, pending, found, diags>>

\* One step on the build as a whole: files, embeds and joins in turn.
Take(b) ==
    /\ dbs' = b.dbs /\ tables' = b.tables /\ enums' = b.enums
    /\ embeds' = b.embeds /\ joins' = b.joins /\ diags' = b.diags
    /\ IF b.error = "" THEN UNCHANGED <<pc, outcome>> ELSE Fail(b.error)
Held == [dbs |-> dbs, tables |-> tables, enums |-> enums, embeds |-> embeds,
         joins |-> joins, diags |-> diags, error |-> ""]

MergeFile ==
    /\ pc = "merge" /\ todo # <<>>
    /\ Take(Merged(world, Held, Head(todo)))
    /\ todo' = Tail(todo)
    /\ UNCHANGED <<world, pending, found>>

MaterializeEmbed ==
    /\ pc = "merge" /\ todo = <<>> /\ embeds # <<>>
    /\ Take(Embedded(world, [Held EXCEPT !.embeds = Tail(@)], Head(embeds)))
    /\ UNCHANGED <<world, todo, pending, found>>

\* mutant: a reference without a target is tried again
BuildJoinRetry ==
    /\ pc = "merge" /\ todo = <<>> /\ embeds = <<>> /\ joins # <<>>
    /\ LET b == Joined(world, Held, Head(joins))
       IN  Take(IF Len(b.tables) = Len(tables) THEN [Held EXCEPT !.diags = b.diags]
                ELSE [b EXCEPT !.joins = Tail(joins)])
    /\ UNCHANGED <<world, todo, pending, found>>

BuildJoin ==
    /\ pc = "merge" /\ todo = <<>> /\ embeds = <<>> /\ joins # <<>>
    /\ Take(Joined(world, [Held EXCEPT !.joins = Tail(@)], Head(joins)))
    /\ UNCHANGED <<world, todo, pending, found>>

-----------------------------------------------------------------------------
\* The naming passes; a name that had to change is a collision reported.

Collisions(what, changed) == IF changed THEN {<<"collision", what>>} ELSE {}

Renames(here, next, newTables, newEnums, reports) ==
    /\ pc = here /\ pc' = next
    /\ tables' = newTables /\ enums' = newEnums
    /\ diags' = diags \cup reports
    /\ UNCHANGED <<world, todo, dbs, embeds, joins, pending, found, outcome>>

AllBuilt == pc = "merge" /\ todo = <<>> /\ embeds = <<>> /\ joins = <<>>

NameLocalModels ==
    LET named == QualifyLocalModels(world, tables)
    IN  /\ AllBuilt
        /\ Renames("merge", "enums", named, RenameOneofCases(world, tables, named, enums),
                   Collisions("local model", named # tables))

NameLocalEnums ==
    LET named == QualifyEnumsAgainstModels(world, tables, enums)
    IN  Renames("enums", "stutter", tables, named, Collisions("local enum", named # enums))

DeStutter == Renames("stutter", "tables", DeStutterTables(world.layout, tables), enums, {})

NameTables ==
    LET named == DedupeTableNames(tables)
    IN  Renames("tables", "models", named, enums, Collisions("table", named # tables))

NameModels ==
    LET named == QualifyModels(tables)
    IN  Renames("models", "fit", named, enums, Collisions("model", named # tables))

\* The last pass on tables; relations resolve on the names it leaves.
FitNames ==
    LET fitted == FitTableNames(tables)
        order  == BuildOrder([dbs |-> dbs, tables |-> fitted])
        Keys(i) == [k \in DOMAIN fitted[i].keys |-> <<i, fitted[i].keys[k]>>]
    IN  /\ pc = "fit" /\ pc' = "resolve"
        /\ tables' = [i \in DOMAIN fitted |-> [fitted[i] EXCEPT !.keys = <<>>]]
        /\ pending' = FlattenSeq([n \in DOMAIN order |-> Keys(order[n])])
        /\ found' = Discovered(world)
        /\ UNCHANGED <<world, todo, dbs, enums, embeds, joins, diags, outcome>>

-----------------------------------------------------------------------------
\* resolveDatabase, one foreign key at a time.

At == pending[1][1]
Key == pending[1][2]
Decided == Verdict(world, Run, found, At, Key)
Target == IF Decided.kind = "discovered" THEN found.tables[Decided.ref]
          ELSE tables[Decided.ref]
Reported == diags' = diags \cup {<<"ref", Decided.why, tables[At].proto, Key.column>>}

Resolves(fate) ==
    /\ pc = "resolve" /\ pending # <<>> /\ Decided.fate = fate
    /\ pending' = Tail(pending)
    /\ UNCHANGED <<world, pc, todo, dbs, enums, embeds, joins, found, outcome>>

DropKey == Resolves("dropped") /\ Reported /\ UNCHANGED tables

RelateKey ==
    /\ Resolves("relation")
    /\ LET child  == Relate(tables[At], Key, Decided, Target)
           linked == [tables EXCEPT ![At] = child]
       IN  tables' = [linked EXCEPT ![Decided.ref] = HasMany(@, tables[At], Key)]
    /\ UNCHANGED diags

ConstrainKey ==
    /\ Resolves("constraint")
    /\ tables' = [tables EXCEPT ![At] = Constrain(@, Key, Decided, Target)]
    /\ UNCHANGED diags

SoftenKey ==
    /\ Resolves("soft") /\ Reported
    /\ tables' = [tables EXCEPT ![At] = SoftFK(@, Key, Decided)]

NameAllRelations ==
    /\ pending = <<>>
    /\ Renames("resolve", "final enums", NameRelations(tables), enums, {})

NameEnums ==
    LET named == DedupeEnums(tables, enums)
    IN  Renames("final enums", "facets", tables, FitEnumNames(named),
                Collisions("enum", named # CanonicalEnums(tables, enums)))

-----------------------------------------------------------------------------
\* collectFacets and enrichment: the readers' own code, which may fail. What a
\* reader attaches to a node is for the targets, and is left out.

Failing(step) == \E r \in DOMAIN world.readers : world.readers[r].fails = step

Enriched(t, readers) ==
    LET unique == UNION {readers[r].unique : r \in DOMAIN readers}
    IN  [t EXCEPT !.columns = [i \in DOMAIN @ |->
            IF <<t.proto, @[i].name>> \in unique THEN [@[i] EXCEPT !.unique = TRUE] ELSE @[i]]]

CollectFacets ==
    /\ pc = "facets"
    /\ IF Failing("read") THEN Fail("facet") ELSE pc' = "enrich" /\ UNCHANGED outcome
    /\ UNCHANGED <<world, todo, dbs, tables, enums, embeds, joins, pending, found, diags>>

Enrich ==
    /\ pc = "enrich"
    /\ IF Failing("enrich") THEN Fail("enrichment") /\ UNCHANGED tables
       ELSE /\ pc' = "finalize" /\ UNCHANGED outcome
            /\ tables' = [i \in DOMAIN tables |-> Enriched(tables[i], world.readers)]
    /\ UNCHANGED <<world, todo, dbs, enums, embeds, joins, pending, found, diags>>

Finish ==
    /\ pc = "finalize" /\ pc' = "done"
    /\ tables' = [i \in DOMAIN tables |-> FinalizeTable(tables[i])]
    /\ diags' = diags \cup LintOf(world)
                \cup UNION {{<<"index", i, c>> : c \in UnknownColumns(tables'[i])} : i \in DOMAIN tables}
    /\ outcome' = IF \E d \in diags' : IsError(world.strict, d[1]) THEN "rejected" ELSE "accepted"
    /\ UNCHANGED <<world, todo, dbs, enums, embeds, joins, pending, found>>

Done == pc = "done" /\ UNCHANGED vars

Next ==
    \/ Begin \/ MergeFile \/ MaterializeEmbed \/ BuildJoin
    \/ NameLocalModels \/ NameLocalEnums \/ DeStutter \/ NameTables \/ NameModels \/ FitNames
    \/ DropKey \/ RelateKey \/ ConstrainKey \/ SoftenKey
    \/ NameAllRelations \/ NameEnums \/ CollectFacets \/ Enrich \/ Finish
    \/ Done

Spec == Init /\ [][Next]_vars
=============================================================================
