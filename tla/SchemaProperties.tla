-------------------------- MODULE SchemaProperties --------------------------
(***************************************************************************)
(* What a build of the schema IR promises.                                 *)
(***************************************************************************)
EXTENDS SchemaBuild

Finished == outcome \in {"accepted", "rejected"}
Resolved == pc \in {"final enums", "facets", "enrich", "finalize"} \/ Finished
Named == pc = "resolve" \/ Resolved
TypesNamed == pc \in {"facets", "enrich", "finalize"} \/ Finished

Apart(items, Same(_, _)) ==
    \A i, j \in DOMAIN items : Same(items[i], items[j]) => i = j

IsMessage(t) == t.proto # 0
SameSchema(a, b) == a.db = b.db /\ a.schema = b.schema

\* Names are apart where they meet: tables and messages in a schema, with the
\* enums of the protos; models and enums, which Prisma keeps in one namespace,
\* in a database. No pass undoes what an earlier one has settled. The SQL names
\* of enums are apart unless the names are spelled alike (HTTPState, HttpState):
\* dedupeEnums looks at the names alone, but cutting them to fit merges no two.
NamesApart ==
    /\ Named =>
          /\ Apart(tables, LAMBDA a, b : a.db = b.db /\ a.model = b.model)
          /\ Apart(tables, LAMBDA a, b : SameSchema(a, b) /\ a.name = b.name)
          /\ Apart(tables, LAMBDA a, b : /\ SameSchema(a, b) /\ a.local = b.local
                                         /\ IsMessage(a) /\ IsMessage(b))
          /\ \A e \in DOMAIN enums, i \in DOMAIN tables :
                (SameSchema(enums[e], tables[i]) /\ ~IsCase(world, enums[e].proto))
                => enums[e].local # tables[i].local
    /\ TypesNamed =>
          /\ Apart(enums, LAMBDA a, b : a.db = b.db /\ a.name = b.name)
          /\ \A e, f \in ToSet(enums) :
                (e.db = f.db /\ e.sql = f.sql) => SnakeCase(e.name) = SnakeCase(f.name)
          /\ \A e \in DOMAIN enums, i \in DOMAIN tables :
                enums[e].db = tables[i].db => enums[e].name # tables[i].model

\* A message has one table in a database, however many fields embed it and
\* whether it is a resource of the run or not.
OnceEach ==
    Apart(tables, LAMBDA a, b : a.db = b.db /\ a.proto = b.proto /\ IsMessage(a))

-----------------------------------------------------------------------------
\* Keys and what they point at.

AllKeys(t) == ToSet(t.keys) \cup ToSet(t.external) \cup ToSet(t.unresolved)
ColumnsNamed(t, name) == {c \in ToSet(t.columns) : c.name = name}

\* The tables a key can mean: of its database, of the others, or discovered.
Scope(t, key) ==
    CASE key.kind = "local"          -> {u \in ToSet(tables) : u.db = t.db}
      [] key.kind = "cross database" -> {u \in ToSet(tables) : u.db # t.db}
      [] key.kind = "discovered"     -> ToSet(found.tables)

\* A table that has a primary key, of a name that fits: fitTableNames renames
\* the column of one that does not and leaves the table's record of it.
PkSettled(u) == u.pk # NoName /\ FitIdentifier(u.pk) = u.pk

PointsAt(t, key, u) ==
    /\ <<key.db, key.schema, key.table, key.model>> = <<u.db, u.schema, u.name, u.model>>
    /\ ~OtherType(world, u, key.type)
    /\ \E c \in ColumnsNamed(t, key.column) :
          \/ key.target = PkColumn(u) /\ ~PkSettled(u)
          \/ \E d \in ColumnsNamed(u, key.target) : /\ d.pk \/ d.unique
                                                    /\ c.enum = NoEnum => c.type = d.type

\* No dangling foreign key: whichever way a key was resolved, its column exists
\* and so does the table it names, under the names the passes have left them,
\* and the table is not that of another resource of the name. The referenced
\* column is there, unique and of the same type, whenever the key goes by the
\* resource name or the table's primary key is settled. (Where it is not, a
\* key may dangle: an EVM resource without an IDENTIFIER has no primary key,
\* and one that had to be fitted is looked for under its old name.)
NoDangling ==
    Resolved => \A i \in DOMAIN tables :
        \A key \in ToSet(tables[i].keys) \cup ToSet(tables[i].external) :
            \E u \in Scope(tables[i], key) : PointsAt(tables[i], key, u)

\* A constraint across databases is emitted only when it can hold: one table
\* of the type or pattern, on the same server; and deleting a parent never
\* cascades out of its database.
ExternalIsCertain ==
    Resolved => \A i \in DOMAIN tables : \A key \in ToSet(tables[i].external) :
        key.kind # "local" =>
            LET scope   == Scope(tables[i], key)
                answers == {u \in scope : IF key.type # NoType THEN ResourceType(world, u) = key.type
                                          ELSE key.pattern \in ToSet(ResourceOf(world, u).patterns)}
                build   == IF key.kind = "discovered" THEN found ELSE Run
                home    == DatabaseOf(Run, tables[i].db)
                away    == DatabaseOf(build, key.db)
            IN  /\ Cardinality(answers) = 1
                /\ home.provider = away.provider /\ home.provider = "postgres"
                /\ home.url = away.url
                /\ key.pattern # <<>> => key.onDelete # "CASCADE"

\* A table of a message, a field of it, and what becomes of the reference.
HeldAs(i, f) ==
    LET column == ColumnName(world, tables[i].proto, f)
        In(list) == {k \in DOMAIN tables[i][list] : tables[i][list][k].column = column}
    IN  UNION {{list} \X In(list) : list \in {"keys", "external", "unresolved"}}
JoinedBy(i, f) ==
    {j \in DOMAIN tables : /\ tables[j].proto = 0 /\ tables[j].field = f
                           /\ tables[j].db = tables[i].db
                           /\ \E key \in AllKeys(tables[j]) : key.proto = tables[i].proto}
ReportedOf(i, f, why) ==
    <<"ref", why, tables[i].proto, ColumnName(world, tables[i].proto, f)>> \in diags

\* Every reference of a proto is accounted for once: a key of its own, a plain
\* column with the reason recorded and reported, or reported as dropped; a
\* repeated one is a join table or reported as an array. None is lost between
\* the queues of the build.
ReferencesAccounted ==
    Resolved => \A i \in {t \in DOMAIN tables : IsMessage(tables[t])} :
        LET m == tables[i].proto
        IN  \A f \in Kept(world, m) :
              /\ IsReference(world, m, f) =>
                    \/ /\ Cardinality(HeldAs(i, f)) = 1
                       /\ \A h \in HeldAs(i, f) : h[1] = "unresolved" =>
                             ReportedOf(i, f, tables[i].unresolved[h[2]].why)
                    \/ HeldAs(i, f) = {} /\ ReportedOf(i, f, "missing column")
              /\ IsJoin(world, m, f) =>
                    IF JoinedBy(i, f) = {} THEN ReportedOf(i, f, "array column")
                    ELSE /\ Cardinality(JoinedBy(i, f)) = 1
                         /\ ~HasColumn(tables[i], ColumnName(world, m, f))

\* With references strict, an accepted build has resolved them all: no table
\* holds a plain column or an array in the place of a key.
StrictMeansResolved ==
    (outcome = "accepted" /\ IsError(world.strict, "ref")) =>
        \A i \in DOMAIN tables :
            /\ tables[i].unresolved = <<>>
            /\ IsMessage(tables[i]) =>
                  \A f \in Kept(world, tables[i].proto) :
                      /\ IsReference(world, tables[i].proto, f) => HeldAs(i, f) # {}
                      /\ IsJoin(world, tables[i].proto, f) => JoinedBy(i, f) # {}

\* The two sides of a relation are written on two tables and named in a later
\* pass: they come in pairs, under one name. Two models with several relations
\* have a name for each, and it tells two of them apart unless they are of one
\* table, on a column and its twin with _id, or the name of one child begins
\* with that of the other.
RelationsMirrored ==
    Resolved =>
        LET sides == UNION {{i} \X DOMAIN tables[i].keys : i \in DOMAIN tables}
            Side(x) == tables[x[1]].keys[x[2]]
            Entry(o) == tables[o[1]].many[o[2]]
            Many(x) == {o \in UNION {{j} \X DOMAIN tables[j].many : j \in InDatabase(tables, x[1])} :
                          /\ tables[o[1]].model = Side(x).model
                          /\ Entry(o).model = tables[x[1]].model
                          /\ Entry(o).via = Side(x).column}
            SamePair(x, y) == /\ tables[x[1]].db = tables[y[1]].db
                              /\ Pair(tables[x[1]], x[2]) = Pair(tables[y[1]], y[2])
            Twins(x, y) == /\ x[1] = y[1]
                           /\ StripIDSuffix(Side(x).column) = StripIDSuffix(Side(y).column)
            BeginsWith(x, y) == IsStrictPrefix(tables[y[1]].model, tables[x[1]].model)
        IN  /\ \A x \in sides : /\ Cardinality(Many(x)) = 1
                                 /\ \A o \in Many(x) : Entry(o).relation = Side(x).relation
            /\ \A x, y \in sides : (x # y /\ SamePair(x, y)) =>
                  /\ Side(x).relation # NoName
                  /\ Side(x).relation = Side(y).relation =>
                        Twins(x, y) \/ BeginsWith(x, y) \/ BeginsWith(y, x)

\* Every foreign key of a finished build is led by an index or by a unique
\* column, after the index of a parent gave way to the paging index, and no
\* index is there twice.
KeysIndexed ==
    Finished => \A i \in DOMAIN tables :
        /\ \A key \in AllKeys(tables[i]) :
              \/ \E c \in ColumnsNamed(tables[i], key.column) : c.pk \/ c.unique
              \/ \E x \in ToSet(tables[i].indexes) : IsPrefix(<<key.column>>, x.columns)
        /\ Apart(tables[i].indexes, SameIndex)

\* A build ends, whatever embeds what: every step is later in the order of the
\* passes or leaves less to do - files, then messages of a database without a
\* table, then requests in the queues. Materializing a message may add requests
\* to all of them. No step is missing before the end, or there is a deadlock.
Passes == <<"start", "merge", "enums", "stutter", "tables", "models", "fit", "resolve",
            "final enums", "facets", "enrich", "finalize", "done">>
Left ==
    LET built == {<<tables[i].db, tables[i].proto>> : i \in DOMAIN tables}
        bare  == {dm \in (DOMAIN dbs) \X (DOMAIN world.msgs) : <<dbs[dm[1]].name, dm[2]>> \notin built}
        ahead == {p \in DOMAIN Passes : \E q \in 1 .. p - 1 : Passes[q] = pc}
    IN  <<Cardinality(ahead), Len(todo), Cardinality(bare), Len(embeds), Len(joins), Len(pending)>>
Below(a, b) == \E k \in DOMAIN a : a[k] < b[k] /\ \A l \in 1 .. k - 1 : a[l] = b[l]
Advances == [][Below(Left', Left)]_vars

-----------------------------------------------------------------------------
\* What the comments of the code say and the build does not do.

\* m2m.go: "for each repeated reference whose target is in the generate set it
\* synthesizes a join table; otherwise it falls back to a plain array column".
JoinsWhatItBuilds ==
    Resolved => \A i \in {t \in DOMAIN tables : IsMessage(tables[t])} :
        \A f \in Kept(world, tables[i].proto) :
            (/\ IsJoin(world, tables[i].proto, f)
             /\ \E j \in InDatabase(tables, i) :
                   ResourceType(world, tables[j]) = Field(world, tables[i].proto, f).refers)
            => JoinedBy(i, f) # {}

\* qualify.go, fitTableNames: "Runs on the final names, before relations
\* resolve, so every foreign key and index names the fitted ones".
KeysNameFitted ==
    pc = "resolve" => \A n \in DOMAIN pending :
        HasColumn(tables[pending[n][1]], pending[n][2].column)
=============================================================================
