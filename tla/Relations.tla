------------------------------ MODULE Relations ------------------------------
(***************************************************************************)
(* How a foreign key finds its table - in its own database, in another one *)
(* of the build, or among the files the run does not generate - and what   *)
(* becomes of it: a relation, a constraint without a relation, or a plain  *)
(* indexed column with the reason recorded. Then the join tables and the   *)
(* indexes.                                                                *)
(*                                                                         *)
(* b and found are builds: [dbs, tables] of the run, and of discovery.     *)
(***************************************************************************)
EXTENDS NamePasses

DatabaseOf(b, name) == b.dbs[CHOOSE d \in DOMAIN b.dbs : b.dbs[d].name = name]

\* Schemas in the order of their first table, tables as they were built.
BuildOrder(b) ==
    LET Place(i) == CHOOSE d \in DOMAIN b.dbs : b.dbs[d].name = b.tables[i].db
    IN  InOrder(DOMAIN b.tables, [i \in DOMAIN b.tables |->
                    <<Place(i), SchemaFounded(b.tables, b.tables[i])>>])

\* tableResource: only the table of a resource answers to a type or a pattern.
ResourceOf(w, t) ==
    IF t.proto = 0 \/ t.value THEN NoResource ELSE w.msgs[t.proto].resource
ResourceType(w, t) == [host |-> ResourceOf(w, t).host, kind |-> ResourceOf(w, t).kind]

OtherType(w, t, type) ==
    type # NoType /\ ResourceOf(w, t) # NoResource /\ ResourceType(w, t) # type

ByProto(tables, S, key) == {i \in S : key.proto # 0 /\ tables[i].proto = key.proto}
ByType(w, tables, S, key) ==
    {i \in S : key.type # NoType /\ ResourceOf(w, tables[i]) # NoResource
                                 /\ ResourceType(w, tables[i]) = key.type}
\* mutant: a model of the name will do, whatever its resource type
ByModelAnyType(w, tables, S, key) == {i \in S : tables[i].model = key.model}
ByModel(w, tables, S, key) ==
    {i \in S : tables[i].model = key.model /\ ~OtherType(w, tables[i], key.type)}
ByPattern(w, tables, S, key) ==
    {i \in S : key.pattern # <<>>
               /\ key.pattern \in ToSet(ResourceOf(w, tables[i]).patterns)}

ByNameRule(w, tables, S, key) == ByProto(tables, S, key) # {} \/ ByModel(w, tables, S, key) # {}

\* The target in one database: at most one, as model names and messages are
\* apart there and a type or pattern two tables have finds neither.
Lookup(w, tables, S, key) ==
    LET proto   == ByProto(tables, S, key)
        type    == ByType(w, tables, S, key)
        model   == ByModel(w, tables, S, key)
        pattern == ByPattern(w, tables, S, key)
    IN  CASE proto # {} -> proto
          [] proto = {} /\ Cardinality(type) = 1 -> type
          [] proto = {} /\ Cardinality(type) # 1 /\ model # {} -> model
          [] proto = {} /\ Cardinality(type) # 1 /\ model = {} /\ Cardinality(pattern) = 1 -> pattern
          [] OTHER -> {}

External(w, tables, S, key) ==
    IF key.type # NoType THEN ByType(w, tables, S, key) ELSE ByPattern(w, tables, S, key)

\* mutant: one database is as good as another
ColocatedAnywhere(a, b) == a.provider = "postgres" /\ b.provider = "postgres"

Colocated(a, b) ==
    a.provider = b.provider /\ a.url = b.url /\ a.provider \notin {"mongodb", "evm"}

PkColumn(t) == IF t.pk # NoName THEN t.pk ELSE Id

\* The column that holds the resource name, if it can be referenced.
NameColumn(t) ==
    LET keyed == SelectSeq(t.columns, LAMBDA c : c.unique \/ c.pk)
        marked == SelectSeq(keyed, LAMBDA c : c.identifier)
        named  == SelectSeq(keyed, LAMBDA c : c.name = <<"name">>)
    IN  CASE marked # <<>> -> Head(marked).name
          [] marked = <<>> /\ named # <<>> -> Head(named).name
          [] OTHER -> NoName

ReferencedColumn(key, target, constraintOnly) ==
    IF key.type # NoType /\ (constraintOnly \/ target.parents # <<>>)
    THEN NameColumn(target) ELSE PkColumn(target)

ExternalOnDelete(key) ==
    IF key.pattern = <<>> /\ key.onDelete # "" THEN key.onDelete ELSE "NO ACTION"

-----------------------------------------------------------------------------
\* What becomes of the key of table `at`. ref is the target's position in the
\* build it is found in, 0 when there is none.

Soft(why) == [fate |-> "soft", why |-> why, kind |-> "unresolved", ref |-> 0, target |-> NoName]

Constrained(tables, key, ref, kind) ==
    LET column == ReferencedColumn(key, tables[ref], TRUE)
    IN  IF column = NoName THEN Soft("no name column")
        ELSE [fate |-> "constraint", why |-> "", kind |-> kind, ref |-> ref, target |-> column]

Related(tables, key, ref) ==
    LET column == ReferencedColumn(key, tables[ref], FALSE)
    IN  IF column = NoName THEN Soft("no name column")
        ELSE [fate |-> "relation", why |-> "", kind |-> "local", ref |-> ref, target |-> column]

\* resolveExternal: other databases of the build first, then what is discovered.
Abroad(w, b, found, at, key) ==
    LET home   == DatabaseOf(b, b.tables[at].db)
        others == External(w, b.tables, DOMAIN b.tables \ InDatabase(b.tables, at), key)
        beyond == External(w, found.tables, DOMAIN found.tables, key)
        Judge(build, hits, kind) ==
            LET ref == CHOOSE i \in hits : TRUE
            IN  IF Cardinality(hits) > 1 THEN Soft("ambiguous")
                ELSE IF ~Colocated(home, DatabaseOf(build, build.tables[ref].db))
                THEN Soft("other database")
                ELSE Constrained(build.tables, key, ref, kind)
    IN  CASE others # {} -> Judge(b, others, "cross database")
          [] others = {} /\ beyond # {} -> Judge(found, beyond, "discovered")
          [] OTHER -> Soft("not found")

Verdict(w, b, found, at, key) ==
    LET here == InDatabase(b.tables, at)
        hits == Lookup(w, b.tables, here, key)
        ref  == CHOOSE i \in hits : TRUE
    IN  IF ~HasColumn(b.tables[at], key.column)
        THEN [Soft("missing column") EXCEPT !.fate = "dropped"]
        ELSE IF hits = {} THEN Abroad(w, b, found, at, key)
        ELSE IF ByNameRule(w, b.tables, here, key) THEN Related(b.tables, key, ref)
        ELSE Constrained(b.tables, key, ref, "local")

-----------------------------------------------------------------------------
\* The key and its column once the verdict is known.

Pointed(key, verdict, target) ==
    [key EXCEPT !.kind = verdict.kind, !.db = target.db, !.schema = target.schema,
                !.table = target.name, !.model = target.model, !.target = verdict.target]

AlignFKType(c, target, column) ==
    LET keys == SelectSeq(target.columns, LAMBDA k : k.name = column)
    IN  IF c.enum # NoEnum \/ keys = <<>> THEN c ELSE [c EXCEPT !.type = Last(keys).type]

OnColumn(t, name, Op(_)) ==
    [t EXCEPT !.columns = [i \in DOMAIN @ |-> IF @[i].name = name THEN Op(@[i]) ELSE @[i]]]

WithIndex(t, column) ==
    IF \E i \in DOMAIN t.indexes : t.indexes[i].columns = <<column>> THEN t
    ELSE [t EXCEPT !.indexes = Append(@, NewIndex(<<column>>))]

Relate(t, key, verdict, target) ==
    LET Held(c) == AlignFKType([c EXCEPT !.model = target.model], target, verdict.target)
    IN  [OnColumn(t, key.column, Held) EXCEPT
            !.keys = Append(@, Pointed(key, verdict, target))]

Constrain(t, key, verdict, target) ==
    LET Held(c) == AlignFKType([c EXCEPT !.model = NoName], target, verdict.target)
        pointed == [Pointed(key, verdict, target) EXCEPT !.onDelete = ExternalOnDelete(key)]
    IN  WithIndex([OnColumn(t, key.column, Held) EXCEPT !.external = Append(@, pointed)],
                  key.column)

\* mutant: the column is kept, the reason is not
SoftFKUnrecorded(t, key, verdict) ==
    WithIndex(OnColumn(t, key.column, LAMBDA c : [c EXCEPT !.model = NoName]), key.column)

SoftFK(t, key, verdict) ==
    LET Held(c) == [c EXCEPT !.model = NoName]
    IN  WithIndex([OnColumn(t, key.column, Held) EXCEPT
                      !.unresolved = Append(@, [key EXCEPT !.kind = verdict.kind,
                                                           !.why  = verdict.why])],
                  key.column)

HasMany(t, child, key) ==
    [t EXCEPT !.many = Append(@, [model |-> child.model, field |-> child.name,
                                  via |-> key.column, relation |-> NoName])]

-----------------------------------------------------------------------------
\* Relations between two models get names when there is more than one.

Pair(t, k) == {t.model, t.keys[k].model}
PairCount(tables, i, k) ==
    Cardinality({jl \in UNION {{j} \X DOMAIN tables[j].keys : j \in InDatabase(tables, i)} :
                    Pair(tables[jl[1]], jl[2]) = Pair(tables[i], k)})

RelationName(tables, i, k) ==
    IF PairCount(tables, i, k) < 2 THEN NoName
    ELSE Join(tables[i].model, PascalGo(StripIDSuffix(tables[i].keys[k].column)))

\* mutant: the has-many side is forgotten
NameManyNot(tables, i, e) == NoName

\* The name of the relation a has-many entry is the other side of.
NameMany(tables, i, e) ==
    LET entry == tables[i].many[e]
        j == CHOOSE j \in InDatabase(tables, i) : tables[j].model = entry.model
        k == CHOOSE k \in DOMAIN tables[j].keys : tables[j].keys[k].column = entry.via
                                                  /\ tables[j].keys[k].model = tables[i].model
    IN  RelationName(tables, j, k)

NameRelations(tables) ==
    [i \in DOMAIN tables |->
        [tables[i] EXCEPT
            !.keys = [k \in DOMAIN @ |-> [@[k] EXCEPT !.relation = RelationName(tables, i, k)]],
            !.many = [e \in DOMAIN @ |-> [@[e] EXCEPT !.relation = NameMany(tables, i, e)]]]]

-----------------------------------------------------------------------------
\* The target of a join: the first model of the name, if it is of the type.

FindTableByModel(b, db, model) ==
    SelectSeq(BuildOrder(b), LAMBDA i : b.tables[i].db = db /\ b.tables[i].model = model)

JoinTarget(w, b, db, refers) ==
    LET found == FindTableByModel(b, db, refers.kind)
    IN  IF found = <<>> \/ OtherType(w, b.tables[Head(found)], refers) THEN 0 ELSE Head(found)

-----------------------------------------------------------------------------
\* finalizeIndexes

IndexParentPaging(t) ==
    LET parent == IdColumn(Last(t.parents))
        paging == <<parent, t.pk>>
        others == {i \in DOMAIN t.indexes : LET x == t.indexes[i] IN
                      x.name # NoName \/ x.unique \/ x.columns # <<parent>>}
    IN  IF \/ t.parents = <<>> \/ t.pk = NoName
           \/ ~HasColumn(t, parent) \/ parent = t.pk
           \/ \E i \in DOMAIN t.indexes : IsPrefix(paging, t.indexes[i].columns)
        THEN t
        ELSE [t EXCEPT !.indexes = Append(Picked(@, others), NewIndex(paging))]

\* mutant: any index that has the column covers it
LeadsAnywhere(t, column) ==
    \/ \E i \in DOMAIN t.columns : t.columns[i].name = column /\ (t.columns[i].pk \/ t.columns[i].unique)
    \/ \E i \in DOMAIN t.indexes : column \in ToSet(t.indexes[i].columns)

Leads(t, column) ==
    \/ \E i \in DOMAIN t.columns : t.columns[i].name = column /\ (t.columns[i].pk \/ t.columns[i].unique)
    \/ \E i \in DOMAIN t.indexes : t.indexes[i].columns # <<>> /\ Head(t.indexes[i].columns) = column

IndexForeignKeys(t) ==
    LET Covered(s, column) ==
            IF Leads(s, column) THEN s
            ELSE [s EXCEPT !.indexes = Append(@, NewIndex(<<column>>))]
        indexed[n \in 0 .. Len(t.keys)] ==
            IF n = 0 THEN t ELSE Covered(indexed[n - 1], t.keys[n].column)
    IN  indexed[Len(t.keys)]

SameIndex(x, y) == x.unique = y.unique /\ x.columns = y.columns

\* The first of an index stays, in the name of the first that has one.
DedupeIndexes(t) ==
    LET Copies(i) == {j \in DOMAIN t.indexes : SameIndex(t.indexes[i], t.indexes[j])}
        Best(i)   == LET named == {j \in Copies(i) : t.indexes[j].name # NoName}
                     IN  IF named = {} THEN i ELSE Min(named)
        firsts    == Ascending({i \in DOMAIN t.indexes : i = Min(Copies(i))})
    IN  [t EXCEPT !.indexes = [k \in DOMAIN firsts |-> t.indexes[Best(firsts[k])]]]

NameIndexes(t) ==
    LET Spell(x) == IF x.name # NoName THEN x
                    ELSE [x EXCEPT !.name = JoinAll(<< <<"idx">>, t.name>> \o x.columns)]
    IN  [t EXCEPT !.indexes = [i \in DOMAIN @ |-> Spell(@[i])]]

FinalizeTable(t) == NameIndexes(DedupeIndexes(IndexForeignKeys(IndexParentPaging(t))))

\* validateIndexes
UnknownColumns(t) ==
    UNION {{c \in ToSet(t.indexes[i].columns) : ~HasColumn(t, c)} : i \in DOMAIN t.indexes}
=============================================================================
