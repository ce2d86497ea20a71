----------------------------- MODULE Structure ------------------------------
(***************************************************************************)
(* The structure of a node - the datasource of a file, the table of a      *)
(* message, the column of a field - as the registered readers and the      *)
(* layout decide it: option by option, the first reader that answers wins, *)
(* and a later answer to an option that has an owner is reported.          *)
(*                                                                         *)
(* A reader gives answers to the nodes it annotates; its key is a number,  *)
(* in the order of the strings. A read has no effect, so the caches of the *)
(* build are left out.                                                     *)
(***************************************************************************)
EXTENDS Identifiers

NoDatasource == [db |-> NoName, schema |-> NoName, strip |-> FALSE,
                 url |-> "", provider |-> ""]
NoTable == [table |-> NoName, skip |-> FALSE, id |-> "", timestamps |-> FALSE,
            indexes |-> <<>>]
NoColumn == [column |-> NoName, skip |-> FALSE, onDelete |-> "", onUpdate |-> ""]

\* A reader left out on purpose is nil: key 0.
Registered(readers) == {i \in DOMAIN readers : readers[i].key # 0}

SortReaders(readers) ==
    LET order == InOrder(Registered(readers),
                         [i \in Registered(readers) |-> <<readers[i].key>>])
    IN  [n \in DOMAIN order |-> readers[order[n]]]

DuplicateKeys(readers) == \E i \in 2 .. Len(readers) : readers[i].key = readers[i - 1].key

AnswerOf(answers, node, none) == IF node \in DOMAIN answers THEN answers[node] ELSE none

DatasourceAnswers(readers, file) ==
    [i \in DOMAIN readers |-> AnswerOf(readers[i].datasource, file, NoDatasource)]
TableAnswers(readers, m) == [i \in DOMAIN readers |-> AnswerOf(readers[i].table, m, NoTable)]
ColumnAnswers(readers, f) == [i \in DOMAIN readers |-> AnswerOf(readers[i].column, f, NoColumn)]

\* The answers that speak to an option, and the first of them or the fallback.
\* none is the answer that speaks to nothing.
Speakers(answers, option, none) ==
    {i \in DOMAIN answers : answers[i][option] # none[option]}

FirstAnswer(answers, option, none, fallback) ==
    LET speakers == Speakers(answers, option, none)
    IN  IF speakers = {} THEN fallback[option] ELSE answers[Min(speakers)][option]

\* The schema and whether it is stripped of its version have one source.
Deciders(answers) ==
    Speakers(answers, "schema", NoDatasource) \cup Speakers(answers, "strip", NoDatasource)

DatasourceOf(readers, layout, file) ==
    LET answers == DatasourceAnswers(readers, file)
        config  == AnswerOf(layout.datasource, file, NoDatasource)
        First(option, fallback) == FirstAnswer(answers, option, NoDatasource, fallback)
        decider == IF Deciders(answers) = {} THEN config ELSE answers[Min(Deciders(answers))]
    IN  [db       |-> First("db", config),
         schema   |-> decider.schema,
         strip    |-> decider.strip,
         url      |-> First("url", NoDatasource),
         provider |-> First("provider", NoDatasource)]

\* Skipping and timestamps are turned on by any reader and off by none.
TableOf(readers, m) ==
    LET answers == TableAnswers(readers, m)
        First(option) == FirstAnswer(answers, option, NoTable, NoTable)
    IN  [table |-> First("table"), skip |-> First("skip"),
         timestamps |-> First("timestamps"), id |-> First("id"), indexes |-> First("indexes")]

ColumnOf(readers, f) ==
    LET answers == ColumnAnswers(readers, f)
        First(option) == FirstAnswer(answers, option, NoColumn, NoColumn)
    IN  [column |-> First("column"), skip |-> First("skip"),
         onDelete |-> First("onDelete"), onUpdate |-> First("onUpdate")]

-----------------------------------------------------------------------------
\* saw: what reading one option reports, given who owns it and who sets it.

SawOption(readers, owners, setters) ==
    LET Owned(j) == \E i \in owners : i < j
    IN  {"collision" : j \in {k \in setters : Owned(k)}}
        \cup {"deprecated" : j \in {k \in setters : ~Owned(k) /\ readers[k].deprecated}}

Saw(readers, answers, option, none) ==
    LET speakers == Speakers(answers, option, none)
    IN  SawOption(readers, speakers, speakers)

SawDatasource(readers, file) ==
    LET answers == DatasourceAnswers(readers, file)
    IN  SawOption(readers, Deciders(answers), Speakers(answers, "schema", NoDatasource))
        \cup UNION {Saw(readers, answers, option, NoDatasource) : option \in {"db", "url", "provider"}}

SawTable(readers, m) ==
    UNION {Saw(readers, TableAnswers(readers, m), option, NoTable) : option \in DOMAIN NoTable}

SawColumn(readers, f) ==
    UNION {Saw(readers, ColumnAnswers(readers, f), option, NoColumn) : option \in {"column", "skip"}}
=============================================================================
