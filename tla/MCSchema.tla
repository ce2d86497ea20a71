------------------------------ MODULE MCSchema ------------------------------
(***************************************************************************)
(* Small inputs of a build, in four families: a reference and where its    *)
(* target may be, embedded messages and join tables, names that meet, and  *)
(* readers that disagree or fail.                                          *)
(***************************************************************************)
EXTENDS SchemaProperties

N(piece) == <<piece>>
Plural(piece) == <<piece, "s">>
V1(piece) == <<piece, "_", "v1">>
Shop == V1("shop")
Lib == V1("lib")
Zoo == V1("zoo")

Plain == [name |-> N("title"), kind |-> "scalar", type |-> "text", list |-> FALSE,
          msg |-> 0, enum |-> 0, refers |-> NoType, behavior |-> ""]
Name == [Plain EXCEPT !.name = N("name"), !.behavior = "IDENTIFIER"]
Unmarked == [Plain EXCEPT !.name = N("name")]
Reference(field, host, kind, list) ==
    [Plain EXCEPT !.name = field, !.kind = "ref", !.list = list,
                  !.refers = [host |-> host, kind |-> kind]]
Embed(field, m, list, behavior) ==
    [Plain EXCEPT !.name = field, !.kind = "message", !.msg = m, !.list = list,
                  !.behavior = behavior]
EnumField(field, e) == [Plain EXCEPT !.name = field, !.kind = "enum", !.enum = e]

Message(path, file, fields) ==
    [path |-> path, file |-> file, resource |-> NoResource, fields |-> fields, oneofs |-> <<>>]
Resource(host, kind, patterns) ==
    [host |-> host, kind |-> kind, plural |-> NoName, patterns |-> patterns]
Top(piece) == <<Plural(piece), N(piece)>>
ResourceMessage(host, piece, file, fields) ==
    [Message(<<N(piece)>>, file, fields) EXCEPT !.resource = Resource(host, N(piece), <<Top(piece)>>)]

File(name, pkg, generate, msgs) ==
    [name |-> name, pkg |-> pkg, generate |-> generate, msgs |-> msgs]
PlainLayout == [datasource |-> <<>>, dedupe |-> FALSE, keep |-> FALSE, documents |-> {}]
Placed(db, schema, url, provider) ==
    [db |-> N(db), schema |-> schema, strip |-> FALSE, url |-> url, provider |-> provider]
Reader == [key |-> 1, deprecated |-> FALSE, datasource |-> <<>>, table |-> <<>>,
           column |-> <<>>, unique |-> {}, fails |-> ""]
Strict(rule) == <<[key |-> rule, error |-> TRUE]>>
Input(files, msgs, types, readers, layout, strict) ==
    [files |-> files, msgs |-> msgs, enums |-> types, readers |-> readers,
     layout |-> layout, strict |-> strict]

-----------------------------------------------------------------------------
\* A book refers to an author: by type, alone or many, by its pattern, or by
\* a field and its pattern; or to an Api, by a pattern that makes it an API.
\* The author of the shop may be missing; the library's may be in the same
\* database, in another one, on another server or outside the run, and a zoo
\* may have authors of that pattern in a third one.

AuthorShapes == {"plain", "nested", "nameless"}
Author(host, noun, file, shape) ==
    LET top == ResourceMessage(host, noun, file, <<Name>>)
    IN  CASE shape = "plain"    -> top
          [] shape = "nested"   -> [top EXCEPT !.resource.patterns =
                                        << <<Plural("guild"), N("guild")>> \o Top(noun)>>]
          [] shape = "nameless" -> [top EXCEPT !.fields = <<Unmarked>>]

Book(link, host) ==
    LET top == ResourceMessage(Shop, "book", "shop", <<Name>>)
    IN  CASE link = "one"    -> [top EXCEPT !.fields = <<Name, Reference(N("writer"), host, N("author"), FALSE)>>]
          [] link = "many"   -> [top EXCEPT !.fields = <<Name, Reference(Plural("writer"), host, N("author"), TRUE)>>]
          [] link = "parent" -> [top EXCEPT !.resource.patterns = <<Top("author") \o Top("book")>>]
          [] link = "acronym" -> [top EXCEPT !.resource.patterns = <<Top("api") \o Top("book")>>]
          [] link = "twin"   -> [top EXCEPT !.resource.patterns = <<Top("author") \o Top("book")>>,
                                   !.fields = <<Name, Reference(N("author"), host, N("author"), FALSE)>>]

ReferenceWorld(link, host, own, shape, place, generate, strict) ==
    LET shop == Placed("main", NoName, "", "")
        lib  == CASE place = "same"   -> Placed("main", NoName, "", "")
                  [] place \in {"apart", "twice"} -> Placed("other", NoName, "", "")
                  [] place = "server" -> Placed("other", NoName, "url", "")
        noun == IF link = "acronym" THEN "api" ELSE "author"
        msgs == <<Author(Lib, noun, "lib", shape), Author(Shop, noun, "shop", "plain"),
                  Book(link, host), Author(Zoo, noun, "zoo", "plain")>>
        reader == [Reader EXCEPT !.datasource = ("shop" :> shop @@ "lib" :> lib)]
    IN  Input(<<File("shop", Shop, TRUE, IF own THEN <<2, 3>> ELSE <<3>>),
                File("lib", Lib, generate, <<1>>),
                File("zoo", Zoo, place = "twice", IF place = "twice" THEN <<4>> ELSE <<>>)>>,
              msgs, <<>>, <<reader>>, PlainLayout, strict)

ReferenceWorlds ==
    {ReferenceWorld(link, host, own, shape, place, generate, strict) :
        link \in {"one", "many", "parent", "twin", "acronym"}, host \in {Shop, Lib}, own \in BOOLEAN,
        shape \in AuthorShapes, place \in {"same", "apart", "server", "twice"},
        generate \in BOOLEAN, strict \in {<<>>, Strict("ref")}}

-----------------------------------------------------------------------------
\* Orders embed lines and addresses, which embed each other. An order's column
\* and an address's key may be longer than fits.
Long(piece) == <<"basket", "_", "item", "_", "state", "_", "item", "_", piece>>

\* 1 common.Address, 2 shop.Invoice, 3 shop.Order, 4 shop.Order.Line
EmbedWorld(one, back, second, schema, document, long) ==
    LET lines   == Embed(Plural("line"), 4, TRUE, "")
        self    == Reference(Long("order"), Shop, N("order"), FALSE)
        own     == IF long THEN [Name EXCEPT !.name = Long("name")] ELSE Plain
        address == Message(<<N("address")>>, "common", <<own>> \o IF back THEN <<lines>> ELSE <<>>)
        invoice == ResourceMessage(Shop, "invoice", "shop",
                       <<Name, Embed(Plural("stop"), 1, TRUE, ""),
                         Reference(Plural("order"), Shop, N("order"), TRUE),
                         Reference(N("order"), Shop, N("order"), FALSE),
                         Reference(N("payer"), Shop, N("order"), FALSE)>>)
        order   == ResourceMessage(Shop, "order", "shop",
                       <<Name, lines, Embed(N("home"), 1, FALSE, one)>> \o IF long THEN <<self>> ELSE <<>>)
        line    == Message(<<N("order"), N("line")>>, "shop", <<Embed(N("home"), 1, FALSE, one)>>)
        layout  == [PlainLayout EXCEPT !.datasource = ("common" :> Placed("x", schema, "", "")),
                                       !.documents  = IF document THEN {1} ELSE {}]
    IN  Input(<<File("shop", Shop, TRUE, IF second THEN <<2, 3>> ELSE <<3>>),
                File("common", N("common"), FALSE, <<1>>)>>,
              <<address, invoice, order, line>>, <<>>, <<>>, layout, Strict("index"))

EmbedWorlds ==
    {EmbedWorld(one, back, second, schema, document, long) :
        one \in {"", "REQUIRED"}, back \in BOOLEAN, second \in BOOLEAN,
        schema \in {NoName, N("common")}, document \in BOOLEAN, long \in BOOLEAN}

-----------------------------------------------------------------------------
\* Two packages of one database, with messages, tables and enums of a name.

InCapitals == <<"HTTP", "_", "state">>
InLetters == <<"http", "_", "state">>

\* 1 <pkg>.Item, 2 shop.Basket, 3 shop.Basket.Item, 4 shop.<first>, 5 shop.<second>
NameWorld(pkg, first, second, merged, dedupe, keep, state, strict) ==
    LET place == Placed("main", IF merged THEN N("shop") ELSE NoName, "", "")
        item  == [ResourceMessage(pkg, "item", "cart", <<Name, EnumField(N("state"), 2)>>)
                    EXCEPT !.oneofs = <<1>>]
        basket == ResourceMessage(Shop, "basket", "shop",
                    <<Name, Embed(Plural("item"), 3, TRUE, ""), EnumField(N("state"), IF state THEN 6 ELSE 3),
                      Reference(Plural("item"), Shop, first, TRUE)>>)
        nested == [Message(<<N("basket"), N("item")>>, "shop", <<EnumField(N("state"), 4)>>)
                    EXCEPT !.oneofs = <<5>>]
        One(name, refers) ==
            [Message(<<name>>, "shop", <<Name, EnumField(N("state"), IF second = N("state") THEN 6 ELSE 7), refers>>)
                EXCEPT !.resource = Resource(Shop, name, << <<SnakePlural(name), SnakeCase(name)>> >>)]
        Enum(path, file, oneof, m) == [path |-> path, file |-> file, oneof |-> oneof, msg |-> m]
        Called(name) == IF first = InCapitals THEN name ELSE N("state")
        kinds == <<Enum(<<N("item")>>, "cart", N("body"), 1),
                   Enum(<<Called(InLetters)>>, "cart", NoName, 0),
                   Enum(<<N("basket"), N("basket")>>, "shop", NoName, 0),
                   Enum(<<N("basket"), N("item"), N("state")>>, "shop", NoName, 0),
                   Enum(<<N("basket"), N("item")>>, "shop", N("body"), 3),
                   Enum(<<N("basket"), N("state")>>, "shop", NoName, 0),
                   Enum(<<Called(InCapitals)>>, "shop", NoName, 0)>>
        reader == [Reader EXCEPT !.datasource = ("shop" :> place @@ "cart" :> place)]
    IN  Input(<<File("shop", Shop, TRUE, <<2, 4, 5>>), File("cart", pkg, TRUE, <<1>>)>>,
              <<item, basket, nested,
                One(first, Reference(<<"item", "_", "order">>, Shop, second, FALSE)),
                One(second, Reference(N("order"), Shop, first, FALSE))>>, kinds, <<reader>>,
              [PlainLayout EXCEPT !.dedupe = dedupe, !.keep = keep], strict)

NameWorlds ==
    {NameWorld(pkg, ns[1], ns[2], merged, layout # "off", layout = "keep", state, strict) :
        pkg \in {V1("cart"), N("shop")},    \* shop and shop.v1 have one domain
        ns \in {<<N("tax"), <<"tax", "es">>>>,              \* Tax and Taxes
                <<N("shop"), <<"shop", "_", "item">>>>,     \* tables that stutter
                <<<<"basket", "_", "item">>, <<"shop", "_", "item">>>>,
                <<Long("line"), Long("tax")>>,              \* alike as far as fits
                <<InCapitals, InLetters>>,                  \* alike in snake case
                <<N("item"), N("state")>>},                 \* a model named like an enum
        merged \in BOOLEAN, layout \in {"off", "rename", "keep"}, state \in BOOLEAN,
        strict \in {<<>>, Strict("collision")}}

-----------------------------------------------------------------------------
\* Readers in any order, two with one key, one that fails, one left out. The
\* author may be the only one, without a key when the database is EVM.

ReaderWorld(keys, schema, strip, layout, fails, skip, provider, strict) ==
    LET named    == Placed("main", schema, "", "")
        other    == Placed("main", NoName, "", IF provider = "conflict" THEN "mongodb" ELSE "")
        stripped == [NoDatasource EXCEPT !.strip = strip, !.provider =
                        IF provider = "conflict" THEN "" ELSE provider]
        titled   == [NoTable EXCEPT !.skip = skip, !.timestamps = TRUE, !.table = N("tome"),
                                    !.indexes = <<NewIndex(<<N("writer"), N("title")>>)>>]
        first  == [Reader EXCEPT !.key = keys[1], !.unique = {<<2, N("writer")>>},
                                 !.datasource = ("shop" :> named @@ "lib" :> other)]
        second == [Reader EXCEPT !.key = keys[2], !.datasource = ("shop" :> stripped),
                                 !.deprecated = TRUE, !.fails = fails, !.table = (2 :> titled),
                                 !.column = (<<2, 3>> :> [NoColumn EXCEPT !.skip = schema = Lib])]
        config == [PlainLayout EXCEPT !.datasource = ("shop" :> layout)]
        alone  == layout # NoDatasource
        book   == [Book("one", Shop) EXCEPT !.fields = Append(@, Plain)]
    IN  Input(<<File("shop", Shop, TRUE, <<1, 2>>), File("lib", Lib, TRUE, <<3>>)>>,
              <<Author(Shop, "author", "shop", IF alone THEN "nameless" ELSE "plain"), book,
                Author(Lib, IF alone THEN "guild" ELSE "author", "lib", "plain")>>,
              <<>>, <<first, second>>, config, strict)

ReaderWorlds ==
    {ReaderWorld(keys, schema, strip, layout, fails, skip, provider, strict) :
        keys \in {<<1, 2>>, <<2, 1>>, <<1, 1>>, <<1, 0>>}, schema \in {NoName, Lib},
        strip \in BOOLEAN, layout \in {NoDatasource, [Placed("other", Shop, "", "") EXCEPT !.strip = TRUE]},
        fails \in {"", "read", "enrich"}, skip \in BOOLEAN, provider \in {"", "evm", "oracle", "conflict"},
        strict \in {<<>>, Strict("*") \o <<[key |-> "lint", error |-> FALSE]>>}}

-----------------------------------------------------------------------------
MCWorlds == ReferenceWorlds \cup EmbedWorlds \cup NameWorlds \cup ReaderWorlds
MCAlphabet == <<"0", "1", "2", "3", "4", "5", "6", "7", "8", "9", "_", "API", "address", "api", "author",
                "basket", "body", "book", "cart", "case", "common", "es", "guild", "HTTP", "home", "http",
                "ID", "id", "ies", "idx", "invoice", "item", "lib", "line", "link", "name", "order", "payer",
                "public", "s", "shop", "state", "stop", "tax", "title", "v1", "writer", "zoo">>
MCAcronyms == "api" :> "API" @@ "http" :> "HTTP" @@ "id" :> "ID"
MCEndsInS == {"s", "es", "ies", "address"}
MCEndsHushed == {"tax"}
MCVersions == {"v1"}
=============================================================================
