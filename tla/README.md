# A verification project for protokit

protokit is a toolkit for protoc plugins: it turns descriptors into three
intermediate representations (a storage schema, a table of HTTP routes, a graph
of wire messages), and generators render them. The modules of this directory
model the parts of it whose correctness is a property of many steps, or of many
inputs together, rather than of one call: the **slot ledger** of package
`buffers`, which has to keep a wire format stable over years of edits; the
**layout search** over a message graph that may be recursive; the **bindings** of
`service`, which share out the fields of a request among path, body and query;
the **templates and routes** of `service/httprule`, from the text of a template
to the route that serves a request; and the **schema frontend**, a list of
whole-schema passes that build tables, rename them six times over and resolve
the references between them.

## 1. Inventory

| Part | State it keeps | Operations | What makes it correct |
|---|---|---|---|
| `buffers` ordinals (`ordinal*.go`, `slots.go`) | the derived ordinals of one message; the fields' settled ordinals; the placeholders | derive from numbers and reserved ranges; reconcile with ledger and pins; report | no field moves and no slot is reused unless a report says so; slots are 0..N-1; placeholders collide with nothing |
| `buffers` ledger (`lock.go`, `lock_record.go`) | `buffers.lock`: node → number → ordinal, on disk, committed with the protos | load, index, record, marshal, compare | what one build records binds the next one |
| `buffers` layout (`layout.go`) | a memo of verdicts, the set of messages being visited, `msg.Layout` | depth-first search over the message graph | ends on recursive graphs; verdicts do not depend on the traversal; an imported message is judged as its own module judges it |
| `buffers` build (`build.go`, `diag*.go`, `schema.go`) | the graph, the pending diagnostics, the severity policy | four passes over all files, then partition the reports into errors and warnings | a failed build publishes nothing; reports are in a stable order |
| `buffers` walk (`build_*.go`, `kind*.go`, ...) | — | descriptors to records | a copy, attribute by attribute |
| `service/httprule` templates (`parse.go`, `parser.go`, `validate.go`, `template.go`) | parser position | recursive descent, three structural rules, `String` | accepts exactly the grammar; `**` is last, variables do not nest, no field is captured twice; text and template round trip |
| `service/httprule` routes (`route.go`, `overlap.go`, `conflict.go`, `decode.go`) | a flattened route | match, overlap, compare, example, sort, decode captures | a capture is the part of the path its variable matched, decoded without gaining a segment; overlap is exactly "some request matches both"; precedence picks one winner; the scan order serves it |
| `service` (`build.go`, `binding*.go`, `body.go`, `resource*.go`, ...) | bindings per method, resources, diagnostics | bind path, body and query; classify AIP methods; register resources; check route conflicts | every request field is bound once; an ambiguous table never builds; the matchers of paths and of names agree |
| schema frontend (`generator.go`, `build.go`, `diag.go`, `lint.go`) | databases, schemas, tables, diagnostics | an ordered list of whole-schema passes, then the severities | names are final before relations resolve; a strict build is accepted only when nothing was given up |
| naming passes (`qualify.go`, `destutter.go`, `naming/fit.go`) | names in a scope | qualify, de-stutter, deduplicate, fit | names are unique in their scope and the same for every generator |
| relations (`discover.go`, `resolve.go`, `fk.go`, `external_fk.go`, `embed_fk.go`, `m2m.go`, `keys.go`, `parent.go`) | queues of embeds, joins and references; keys of three kinds | discover resources, resolve references, name relations | no dangling key; no reference is lost between the queues; both sides of a relation agree |
| tables, embeds, indexes (`table.go`, `column.go`, `embed.go`, `paging.go`, ...) | columns and indexes | build tables for resources and embedded messages, add and name indexes | one table per message; every foreign key is led by an index; cyclic embeds end |
| `schema`, `types`, `naming`, `factory` | data types and lookups | — | — |
| `graphql` | an introspection result | fetch once, translate | — |
| `golden`, `header`, `manifest`, `docs`, `templates` | — | compare files, render text | — |

How they interact: the three frontends share nothing but the descriptors and a
few naming helpers. Inside `buffers`, `Build` calls the walk, `assignSlots`,
`resolveLayouts` and the service walk in that order on one in-memory graph, and
each later pass reads what the earlier ones left there; the ledger is read once
before the passes and written, by the plugin, after them. Inside `service`,
`checkRouteConflicts` sees the bindings of all services at once. Everything is
sequential: there are no threads, no retries and no timeouts. What makes the
system hard is *history* (the ledger of one build is the input of the next, with
an author's edits in between), *order* (traversal orders, registration order,
the order of passes) and *global* properties of tables no single call sees.

## 2. Modules

| Module | Models | State | Actions |
|---|---|---|---|
| `SlotRegistry` | what a ledger promises, abstractly | the last publication, everything its lineage published | `Publish`, `StartOver` |
| `Slots` | `deriveOrdinals`, `assignFieldOrdinals`, `reportUnreservedGaps` as operators | — | — |
| `FieldLedger` | one message through edits and builds | `live`, `reserved`, `pins` (the .proto), `lock` (the ledger), `slots` (placeholders of the published schema) | an author's `AddField`, `DeleteField`, `Reserve`, `Unreserve`, `Pin`; `BuildAccepted`, `BuildRejected` |
| `FieldLineage` | the same with the history of a lineage | + `lineage` | the same, `Publish` for an accepted build |
| `PositionLedger` | `assignEnumOrdinals`, `assignMethodSlots`: one enum with aliases, or one service | `kind`, `declared` (declaration order), `pins`, `lock` | an author's `Declare` anywhere, `Delete`, `RenameMethod`, `Pin`; `BuildAccepted`, `BuildRejected` |
| `Layout` | `resolveLayouts`, `packable`, `packableFields` | the memo, the call stack, the returned verdict, `layout`, `reported` | one per call, return and loop iteration |
| `Templates` | `Parse` and its productions, `validate`, `String`, `Compile` as operators | — | — |
| `Patterns` | `ParsePattern`, `Pattern.Match` and `Pattern.String` of resource names as operators | — | — |
| `Routes` | matching, captures and their decoding, overlap, precedence, examples as operators | — | — |
| `RouteTable` | the templates and resources of an API, `checkRouteConflicts`, then `SortBySpecificity`, then a runtime's scan | `rules`, `resources`, `dropped`, `table`, `conflict`, `shadowed`, the sort's position | `AddRoute`, `Malformed`, `Refuse`, `Accept`, `Swap`, `Placed`, `Emit` |
| `Bindings` | materialization, `buildBinding` and what it calls, `classifyMethod`, `mutating` | the table of `messages`, the calls of `b.message` in progress, the bindings and methods so far | `Input`, `Output`, `WalkField`, `Return`; `Bind`, `Refuse`, `Finish` |
| `Identifiers` | names: joining, plurals, version suffixes, the numbering of clashes, cutting to the limit | — | — |
| `Structure` | the readers and the layout: who decides each option, which deprecated ones were seen | — | — |
| `Tables` | tables, columns, system columns, value tables, join tables | — | — |
| `NamePasses` | the passes that rename models, tables, columns and enums | — | — |
| `Relations` | keys and their resolution, constraints, soft keys, relation names, indexes | — | — |
| `SchemaBuild` | `Build` of package protokit | the IR (`dbs`, `tables`, `enums`), the queues (`embeds`, `joins`, `pending`), `diags`, the `found` databases, the pass `pc` | one per file, embed, join and reference; one per pass; `Begin`, `CollectFacets`, `Enrich`, `Finish` |
| `SchemaProperties` | what a build promises | | |
| `FieldLedgerProofs`, `PositionLedgerProofs`, `LayoutProofs`, `BindingsProofs`, `RoutesProofs`, `RouteTableProofs`, `SchemaProofs` | theorems about the module each is named after; the first also about `FieldLineage`, the last about `SchemaProperties` | | |
| `Recursion` | lemmas that a recursive function has the value its definition says, and that a finite ordered set has a listing | | |
| `MC*` | constant values for model checking | | |

`FieldLineage` extends `FieldLedger`, which extends `Slots`; it implements
`SlotRegistry` by `INSTANCE ... WITH`. `RouteTable` extends `Routes` and `Patterns`, which
extend `Templates`. The schema modules extend each other in the order of the table:
`Identifiers`, `Structure`, `Tables`, `NamePasses`, `Relations`, `SchemaBuild`,
`SchemaProperties`.

### Correspondence with the code

*A message* is three values: the set of its field numbers, the set of numbers its
reserved ranges name (ranges are flattened; protoc keeps them disjoint from the
live numbers), and a pin per field, where 0 means "none" exactly as
`HasPin: f.Ordinal != 0` reads it. *The ledger's entry* is a function from
numbers to ordinals, which is what `indexMessages` makes of the file. A build is
one action: between loading the ledger and returning, nothing else reads or
writes either. `BuildAccepted` is a build whose reports are all warnings or
absent; `BuildRejected` is one that `Partition` fails. Edits are the environment:
they are what an author can do to a .proto and are external in the map.

*Reports* are kept as `[kind, node]` records: properties are about whether a move
was reported on the right field, never about the text. The pass breaks off the
list of gap numbers after 16, which changes only the text.

*An enum value* is an identity with a number, `NumberOf`, so that aliases are
distinct; *a method* is its name, and a rename is an action of its own because the
ledger keys methods by name. The two share a module because neither has reserved
ranges and both let a pin through unreported; `kind` says which pass runs. `sort.Slice` in `Recorder.Enum` is an insertion sort up to
12 entries, hence stable: the alias written last is the one `indexEnums` keeps.
Larger enums may keep another alias.

*A message in `Layout`* is the list of its fields reduced to what `packableFields`
tells apart: variable size, or the message it holds. Fields it passes over
(scalars, enums, skipped ones) are left out. A recursion of the code is a stack
of `[msg, field]` frames, `ret` its return value, so cut cycles and memoized
verdicts happen in the order the code makes them happen.

*A template* is parsed from its text, a sequence of characters in which a word
stands for a run of letters and an escape is one character. A production of the
parser is an operator from a position to what it read and where it stopped; the
cursor needs no state because the parser never goes back. A segment is its own
text, `*`, `**` or a literal, so a literal can be neither. `Decodes` says what an
escape stands for, or that it is malformed (truncated, not hexadecimal, or not
UTF-8 once decoded). The positions named by error messages are left out.

*A resource* is registered with the message that declares it, before the rule of a
method that takes the message is read; the first of a type is kept. A rule of
`RouteTable` carries at most one.

*A route* is its HTTP method, verb, source, flattened segments and captures, whose
positions count from 1. The empty component, which only a doubled or trailing
slash produces, is in the paths because `*` refuses it and `**` does not.
`sort.SliceStable` is modelled as the insertion sort it is up to 20 elements.

*A field path in `Bindings`* is the sequence of the fields' positions; the proto
and protojson spellings are in one-to-one correspondence with it. A rule is its
HTTP method, its captures (distinct, as `validate` has made sure), its two body
options and whether it carries a verb; `malformed` stands for the errors of
`flattenRule` and of the template parser. Materialization takes one step per
call, field and return because its memo is what ends the recursion;
one rule is bound in one step, because nothing else happens in between. The query
walk is a function from depths to the calls made there. The properties never
read the table of messages: they say over the descriptors what the code finds in
the table.

*An identifier of the schema* is the sequence of its pieces, with a mark where a word
begins. A word in lower letters or capitalized is one piece in both spellings; a word
all in capitals is a piece of its own, so that `HTTPState` and `HttpState` are two
names which `SnakeCase` makes one, and `PascalGo` makes `APIKey` of `api_key`, which is
not what the message `ApiKey` is called. `Acronyms` says how `PascalGo` writes the words of
its table. Words of one letter, and capitals that `PascalGo` does not write (`RPCState`),
are left out. What else depends on
letters is a constant: the alphabet's order, the pieces that end in s or in a
sibilant, those that are versions. `MaxIdentifier` counts pieces, and a name that is cut
keeps its own digest: SHA-1 is taken to be injective. Messages and
enums are numbered in the order of their full names. A resource pattern is the
sequence of its segments. Left out: comments, source paths, enum values, the
spelling of rendered types, the contents of facets (a reader
answers or fails), and caches that hold what a second call would compute. The
fallback of an embed whose message is missing cannot be reached: protogen
resolves every message first.

*A pass of the schema build* is an action when it does its work at once, and one
action per file, embed, join or reference when it drains a queue, because these
append to the queues of one another. Discovery is a build of its own over
the files that are not generated; it depends on nothing the run changes, so it
is kept in `found` when names are settled, before the first reference can ask
for it.

## 3. Runs

Passing runs: what they show and the bounds.

| Run | Shows | Bounds and why they are enough |
|---|---|---|
| `FieldStrict` | with `strict=ordinal:error` and no pins: refinement of `SlotRegistry` (`KeepsLineage`), one offset per lineage, slots 0..N-1, and a build that lost the ledger file derives what the file held | five numbers, so that two fields can be deleted around a survivor, and `MaxOrdinalSpace` 4, so that an expansion is truncated |
| `FieldPins` | with pins, the severity free to change between builds: every move and clash is reported, the ledger wins, placeholders stay apart, a rebuild moves nothing | four numbers with a hole, `MaxOrdinalSpace` 3; a negative pin and one that derivation also hands out |
| `Positions` | the same questions for enum values and methods; aliases share a slot and leave no hole | four values (an alias, a negative number) or three methods, one pin |
| `Layouts` | the search ends, the memo is right; what is packed and reported | every graph of three messages with up to two fields each, the smallest with a cycle reached from outside it and a memo entry made under the cut; two messages with every requested layout, closed kind, held slot and ownership |
| `Routes` | templates: the parser accepts the grammar (stated over cuts of the text, not by descent), `String` round trips, captures are what their variables match and keep their shape when decoded; the same of resource patterns, and a name captured through the shape of a pattern is one the pattern matches. Tables: refusal is exactly ambiguity; examples match; one winner, reported; without `**` the scan serves it | every text of up to three characters, sentences of one and two segments and every text one character away from one, sentences of three segments; resource patterns likewise, captured through six templates; every three routes of up to two segments over two literals, with `**` or, over one of them, with a custom verb; three is what a violation of transitivity takes; paths of up to three components, with an escaped slash, an escaped letter and a malformed escape |
| `Bindings` | every field a caller may set is bound by path, body or query, none twice; what the service sets is never asked for; a refusal has a cause in the rule; materialization is complete and opens nothing twice; a method that counts as a read has GET and HEAD only | every request of one or two fields of ten kinds with an inner message that may refer back, hence every cycle through one or two messages; paths and bodies at the first and second field, after methods that return an `HttpBody` or a `Timestamp` and so put these in the table; `MaxQueryDepth` 2 where the code has 5, which is enough for a walk through a cycle to be cut |
| `Schema` | names end apart in every namespace, SQL names of enums but for those that `SnakeCase` merges; a message has one table; no key dangles unless the primary key it goes by was renamed or never given (`PkSettled`), and one into another database is certain; every reference is a key, a recorded soft key or a report, and under `strict` a key; the two sides of a relation agree, and relations of two models are told apart but for a column and its `_id` twin, or children one of whose names begins with the other's; foreign keys are indexed, indexes unique; every build ends | four families of inputs. *References*: a book and an author, singular, repeated, by parent pattern or by a field and the pattern (the twin), the author in the same file, another database, another server, outside the run, or ambiguous; a parent whose noun is an acronym. *Embeds*: two messages that embed each other, shared by two parents, across files and schemas, with names over the limit, that of an identifier among them. *Names*: two packages of one database whose models, tables, nested messages and enums meet, in every de-stutter mode, some spelled in capitals; two models that refer to each other, one name the beginning of the other. *Readers*: two that quarrel, fail, share a key or are unregistered; an author without an IDENTIFIER, on EVM among others. `MaxIdentifier` 8 pieces, so that some names are cut and most are not |

Runs that end in a counterexample, each of one sentence of the repository:

| Run | The code does | The repository says |
|---|---|---|
| `EnumReuse` | forgets a removed value and gives its slot away, unreported | "a removed enumerant is rarer, and the ledger covers it" (`ordinal_enum.go:20-21`) |
| `LayoutImported` | packs an imported message its own module makes a table | an importer "has to know whether an imported message is a packed record" (`layout.go:24-26`) |
| `RoutesScan` | with `**`, sorts by an order that is not transitive and scans a less specific route first | "most specific first, which is the order a runtime scans it in" (`conflict.go:84-85`) |
| `JoinShadowed` | gives up on a join table when an earlier table has the target's model name and another type | "for each repeated reference whose target is in the generate set it synthesizes a join table" (`m2m.go:34-36`) |
| `FitDropsKeys` | fits a column's name but not the key on it, then drops the relation | "so every foreign key and index names the fitted ones" (`qualify.go:194-196`) |

Other places where the code departs from its comments or may surprise, met while
modelling and kept in the models as the code has them:

- `ordinal_enum.go:59`: a pin on an enum value overrides the ledger without a
  report, and an alias pinned alone may move on a rebuild.
- `materialize.go:85`: a well-known type is "a leaf", but the query walk enters one
  that some method takes or returns by itself. So does `resolveFieldPath`: once a
  method returns a `Timestamp`, a later template may capture `{ts.seconds}`, which
  is refused otherwise, and the query still offers `ts` as a leaf. "Two sources for
  one field means one of them silently loses" (`body.go:129-130`); `ClaimedOnce` names
  the condition, `LeavesAreClosed`, under which no field has two.
- `decode.go`: `%2F` and `%252F` both decode to the text `%2F`.
- `discover.go`: discovery runs `deStutterTables` and `qualifyModels` only, so a name
  that another pass would change is looked up unchanged.
- `resource.go`: `Depth` counts the variables of a pattern, so a singleton such as
  `shelves/{shelf}/settings` is as deep as its parent, and `ResourceTypes`, "ordered
  parent-first", may list it first. A pattern may name two variables alike, of which
  `Match` binds the last, and a `*` in a pattern is a collection id.
- `qualify.go:306`: "the first keeps the bare name, the rest gain a unique prefix", but
  every enum of a group that shares a name is renamed.
- `column.go`: `qualifyLocalEnums` keeps the names of one group apart; nothing keeps the
  scoped name it makes apart from another group's until `dedupeEnums`, which
  renames in the database's namespace only.
- `embed_fk.go`: two fields that embed one message with singular keys may share one
  key column.
- `resolve.go:111`: a relation is named after a model and a column less its suffix, "so
  it is stable and unique" (`resolve.go:101-102`). The columns `author`, of a field, and `author_id`,
  of the parent pattern `authors/{author}/books/{book}`, both give `BookAuthor`; and
  a reference `item_order` of `Shop` to `ShopItem` and a reference `order` of `ShopItem` to
  `Shop` both give `ShopItemOrder`.
  `RelationsMirrored` excepts the two cases (`Twins`, `BeginsWith`).
- `qualify.go:202-206`: `fitTableNames` renames the column of a primary key and leaves
  `t.PKColumn`, by which `pkColumn` (`external_fk.go:321-327`) points keys at it; and a resource
  whose provider makes no identifier has no primary key, so that keys name a column `id`
  that is not there. Both against "no dangling FK is ever emitted" (`resolve.go:41-42`);
  `NoDangling` excepts them (`PkSettled`), and the worlds have both.
- `qualify.go:320-322`, `358-359`: `dedupeEnums` keeps the names of a database's enums apart
  and spells the SQL name after the name; `HTTPState` and `HttpState` share `http_state`.
- `parent.go:44`: the model of a parent `{api_key}` is spelled `APIKey`; a message `ApiKey` is not
  found by that name, and the key falls to the pattern or becomes a soft one.
- a generate-flagged subset of the files makes the recorder write only
  their nodes: the ledger forgets the others.

`CHECK_DEADLOCK` is on everywhere; `Done` in `Layout`, `Bindings`, `RouteTable` and `SchemaBuild` is the
stutter of a finished computation. Every property of a passing run is broken by
at least one mutant of the modelled code; the mutants are definitions marked
`\* mutant:` beside the ones they replace.

**Fairness.** Only `Layout` has any: weak fairness of its next-state relation. The
pass is a sequential function with no blocking call, so a step that is enabled is
taken. The ledger and route models state safety only: nobody is obliged to build.
That a schema build ends is shown without fairness: `Advances` gives every step a
variant that decreases in a well-founded order (proved in section 4), and the absence
of deadlock says that a step is there until the end.

## 4. Proofs

Each theorem of this section is proved for every value of the constants that the
named assumptions allow: any number of fields, messages, methods, segments and
rules. TLC checks the same properties on the bounds above.

**`FieldLedgerProofs`**, for either severity and any pins: the type invariant
(slots are never negative, the clamp is what keeps a negative pin out),
placeholders apart from live slots, the ledger's precedence, that every move and
every clash is reported, and that a rebuild moves nothing. The argument is
inductive on the type invariant; what carries it are three lemmas about `Slots`:
ranks are naturals, derived ordinals cover the live numbers, and a lock changes
only in an accepted build.

The second half of the module proves that under `strict=ordinal:error` and without pins the
ledger implements `SlotRegistry`. "No slot is reused within a lineage" is not
inductive: the ledger holds only the last build's fields, and nothing in it
speaks of deleted ones. The strengthening `OneOffset` is: an accepted build has
no unreserved gap, so a field's position is its number less a constant
(`DerivedOffset`, from `RankGrows` by cardinalities of intervals), and a field
that survived from the last build pins that constant to the old one, because a
recorded slot that differs from derivation is a report. All published pairs of a
lineage lie on one line of slope one, hence are one-to-one. `LossIsHarmless` follows
from the same lemma: without gaps, a derivation from nothing has the
offset of the ledger it would replace. `SlotsAreDense` is its other consequence:
derived slots and placeholders together are one interval from 0
(`DerivedIsDense`), and an accepted build ships derived slots.

**`PositionLedgerProofs`**: aliases share a slot and leave no hole, a recorded member without a pin never
moves, a rebuild moves nothing, a clash is reported. The invariant `Declarations`
says only that what is declared is a list of members; the content is in the
lemmas that members of one key have one rank (`PositionOfKey`), those of different
keys different ranks (`PositionsApart`), that the ranks fill an interval from 0
(`RanksAreContiguous`), and that the recorder writes under a key
the slot of a member that has it (`RecordedSlot`), although the last alias wins.

**`LayoutProofs`**: every memoized verdict is right and so is every layout decided. That
the memo is right is not inductive: an answer given under a cut cycle is right
only because of where the search stands. `Searching` ties the stack to the graph:
each call has found its message's earlier fields of fixed size and waits for the
message the next call is about, so the visiting messages lie on one path (`OnPath`). A
call cut because its message is on that path closes a cycle, and a message on a
cycle, or one that reaches it, has no fixed size (`FixedSizeBelow`, `FixedSizeAbove`
relate a message to what it holds).

**`RoutesProofs`**, about the operators of `Routes`, for templates of every length: what
`Parse` accepts compiles to a route without empty segments whose `**` is last
(`CompiledIsWellFormed`, by induction over the positions of the text);
`Overlaps` is exact, neither missing a shared request nor inventing one
(`OverlapIsSharedRequest`, with the example as the witness); and comparison is transitive
where it is (`RequestOrder`, `PlainOrder`). `Compare` is not transitive in general, as
`RoutesScan` shows. The proof reads a route as a row of kinds, one per segment, with
an end mark, and finds two families in which `Compare` is the lexicographic order
of these rows: the routes that match one request, where the end comes before
`**`, and the routes without `**`, where it comes last and a verb decides.

**`RouteTableProofs`** lifts this to tables: a table is refused exactly when a request has
two best matches; an accepted one has one winner for each request, under which
every other match is reported; without `**` the scan of the sorted table serves
that winner. The invariant `TableInv` says that the routes are those of the rules read so far, that
the check has seen exactly the pairs passed, and that the sort has its prefix in
order but for the route being placed (`Placing`), from which the sorted table
follows because the order is transitive and total among plain routes.
`CapturesStayInShape` is about what the served route captures. A capture is a pair of
offsets computed once from the template; the theorem says of paths of any length that they cut
out what the variable's own sub-template matches, what comes before and behind being
matched by the rest of the template. It rests on where the parts of a flattened
template lie (`FlatSplits`), on "**" being the last segment of all, so that a variable that has
it has nothing behind it (`SpanFits`), and on decoding, joining and splitting
being in step at every slash (`DecodeAlike`, `JoinedAlike`, `SplitAlike`).
`CapturedNamesAgree` relates the two matchers of package `service`: what a route
captured through the shape of a resource pattern, and decoded, is a name the pattern
matches, unless it is nothing or has an empty component, and the variables the pattern
binds make that name again. It has a second invariant, `Registered`: what the build has
kept of a resource are patterns of the shape `ParsePattern` gives. The route
matches the components as sent and the pattern a text that was joined and split
again; they agree because splitting undoes joining where no part has a slash
(`SplitJoined`, with the slashes listed by `IncreasingListed`), and because a list whose
end is joined before the rest joins to the same (`JoinedTwice`). Its literals have no
escape that decodes, as the property says: a route compares them as sent.

**`BindingsProofs`**: all seven invariants of the run, at every depth. `Walking` proves
materialization: a field whose message is missing still lies ahead of some call in
progress, and there are never more calls than registered messages. `Building` adds
that the table is closed when a rule is read, so that walking it gives what the
descriptors say (`ResolvesIsWalk`), and that each binding made shares out its request
(`SharesOut`): every query parameter is an unclaimed leaf (`QueriesAreUnclaimed`, by
induction over the depth of the walk), and every leaf a caller may set and nothing binds is
among them (`WalkIsComplete`, by induction along its path). `NoFieldIsClaimedTwice` has the condition
`LeavesAreClosed`, for the reason given in section 3.

**`SchemaProofs`** follows a reference through the passes, for files, messages and
readers of any number. The invariant `IndInv` has five parts.
`TablesInv`: a message has one table in a database, and databases, files and pending
references name tables that exist. `BuildInv`, until references resolve: a repeated
reference of a table has a request in the queue of joins, a join table, or a report, so
that nothing is missing when the queues are empty. `KeysInv`, from then on: unless a
report says otherwise, every reference is a key of its table or waits; soft keys are
recorded and indexed; a constraint abroad has one answer, on the same server.
`OutcomeInv`: an accepted build holds no report that counts as an error.
`IndexesInv`, at the end: keys are led and indexes apart. None of the properties is
inductive alone. `StrictMeansResolved` speaks of finished builds, while a reference
passes from a field through the queues of embeds and joins, a foreign
key, a constraint or a soft key, and may be given up at each; what
carries it is `Accounted`, which the passes keep one after the other (`BeginStep`,
`MergeStep`, `EmbedStep`, `JoinStep`, `NameStep`, `FitStep`, `ResolvingKeeps`,
`ClosingKeeps`). The renaming passes keep it because a rename is read off each
pass as "the same table but for names". `KeysAreIndexed` needs that removing
repeated indexes leaves one with the same leading columns (`DedupedIndexes`).
`BuildAdvances` reads the variant of `Advances` as a lexicographic order over the pass, the
tables not yet built and the lengths of the queues; building an embedded message may
lengthen its queue but takes one message from a finite set.

`NamesStayApart` is about the other thread of a build, its names. A pass settles one
kind of clash in one scope and knows nothing of the scopes of the passes after it,
each of which hands out names of its own; that names are apart at the end is not
inductive, because before its pass a clash is legal. `NamesInv` says how far the names
have got at each pass: the messages of a schema apart (`LocalsPass`), its enums
apart from them (`YieldedEnums`), tables (`TableNamesPass`), models (`ModelsPass`), and
at last the enums of a database, from each other and from its models (`EnumsPass`). The
SQL names of enums are apart where `SnakeCase` tells the names apart; the code asks no more.
Three arguments carry it. `Assign` numbers a name until nothing has it:
each member of a group gets what no earlier one got and nothing outside it has
(`FreshIsNew`: only finitely many are taken, and numbers are spelled apart;
`RenamedApart`). The passes compute a name for each
item of its own, from what the whole scope is called, so that two items of a
scope must be shown to read the same assignment (`DedupedApart`, `QualifiedApart`, `LocalsGiven`,
`EnumsNamedApart`). And every later step keeps what is settled: the passes by changing other
fields (`KeptApart`), the resolution of references and the last steps because they carry
names on (`SameNames`, part of `Settles` and `Carries`). Cutting to the limit keeps names
apart only if their hashes differ. The theorem says so: it has the hypothesis
`[]HashesApart`, that no two table names of a build, nor two enum names, are fitted
to the same, which no property of a 32-bit hash can replace. TLC finds it true of the worlds of the
run `Schema`, where the hash is taken to be injective.

**`Recursion`** holds what these need of recursive functions. The library's
theorems about them take the body as an operator, which the provers cannot
instantiate; here the body is a function, and a measure into the naturals
makes the recursion defined and inductions over it possible. It also shows that the
ranks of a finite ordered set list its members, for the lists that are written so.

*Assumed*: the named assumptions on constants. `Numbers` is a finite set of positive
integers, `Pins` are integers other than 0, `Severities` among "warn" and "error",
`Messages` finite; the descriptors are well-typed (`ProtosAssumption`); the files of a
schema list messages, none of them twice, fields and oneofs refer to messages and enums
that exist, what is declared has a path of names in a file of the request, and readers
answer with lists of indexes (`WorldsAssumption`); names are lists of pieces, among them the
digits and the boundary, and an identifier may be longer than the shortest cut
(`IdentifiersAssumption`); a table has
1 to 20 rules of different sources, beyond which the library sorts by merging
and whose resource patterns are texts (`TablesAssumption`); a path is a sequence of
components, and a component one of characters without a slash (`PathsAssumption`), as
`MatchPath` is given the raw segments of one, "split on "/"" (`httprule/route.go:116`).
Where a theorem states it, `Severities = {"error"}` and `Pins = {}`.

*Model-checked only*: `ParsesExactly` of the templates, which
says that a recursive descent finds every derivation, an induction over the grammar.
Of the schema build, `NoDangling`, `ReferencesAccounted` and `RelationsMirrored`: each holds of the
run's worlds and not of every world the assumptions admit, because a reader may
give two columns of a table one name, a message no identifier under a provider that
makes none, or a field a name that ends in its twin's `_id`; as theorems they would
need hypotheses about the input that the code never checks. That the layout search
terminates is liveness and out of the provers' reach. The five findings are
counterexamples, with nothing to prove of them.

## 5. Plan

1. (done) Slots, the field ledger and its refinement; enums and methods; layout;
   bindings, with the proofs of materialization.
2. (done) `httprule` from the text of a template to the route served, captures and
   decoding included; resource name patterns.
3. (done) The schema frontend: tables, embeds, joins, naming passes, references,
   discovery, constraints, indexes, severities.
4. (done) Proofs of overlap, precedence and sorting, of what a route captures and a
   resource pattern makes of it, of the ledgers, of the layout verdicts, of all that a service binds; of the schema build,
   that a message has one table, that names end apart, that references resolve or are
   reported, that keys are indexed, and that it ends. Left:
   that the parser accepts the grammar; of the schema build, under conditions on the
   input that are still to be named, that a key points at what it names, that the sides
   of a relation mirror each other, and that a reference is accounted for in exactly
   one way.
5. `service`: the statuses of a binding, the order of resource types.
6. The ledger file when malformed or of another version, builds of a subset of the files.

## 6. Not modelled

Rendering of text (banners, docs, templates, diagnostics), the descriptor walk
(a copy), the spellings of names in targets (`Camel`, Prisma, packages of Go), the choice of targets and their facets, the
GraphQL frontend (one translation of one document), the golden harness (test
support). Two files merged in version control are outside the code; the ledger's
header asks a person to resolve them.
