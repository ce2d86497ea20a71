-------------------------- MODULE RouteTableProofs ---------------------------
(***************************************************************************)
(* Theorems about RouteTable, for every set of tables and of paths.        *)
(***************************************************************************)
EXTENDS RouteTable, RoutesProofs

-----------------------------------------------------------------------------
\* The routes of a table

RoutesOf(t) == {RouteOf(t[i]) : i \in {k \in DOMAIN t : Parse(t[k].text) # NoTemplate}}

\* A table is a list of rules of different sources.
LEMMA TableOfRules ==
    ASSUME NEW t \in Tables
    PROVE  /\ t \in Seq(ToSet(t)) /\ Len(t) \in Nat /\ Len(t) >= 1
           /\ DOMAIN t = 1..Len(t)
           /\ \A i, j \in DOMAIN t : t[i].source = t[j].source => i = j
           /\ \A i \in DOMAIN t : /\ t[i].method \in HTTPMethods /\ t[i].source \in Nat
                                  /\ t[i].text \in Texts
<1>1. /\ t \in Seq(ToSet(t)) /\ Len(t) \in 1..20
      /\ \A i, j \in DOMAIN t : t[i].source = t[j].source => i = j
      /\ \A rule \in ToSet(t) : /\ rule.method \in HTTPMethods /\ rule.source \in Nat
                                /\ rule.text \in Seq(Content \cup Reserved)
    BY TablesAssumption
<1>2. \A i \in DOMAIN t : t[i] \in ToSet(t)
    BY DEF ToSet
<1>3. Len(t) \in Nat /\ Len(t) >= 1
    <2>1. PICK n \in 1..20 : n = Len(t)
        BY <1>1
    <2>2. n \in Nat /\ n >= 1
        OBVIOUS
    <2>3. QED
        BY <2>1, <2>2, Zenon
<1>4. DOMAIN t = 1..Len(t)
    BY <1>1
<1>5. QED
    BY <1>1, <1>2, <1>3, <1>4 DEF Texts, Characters

\* Compiling a rule keeps its source and its method.
LEMMA RouteFields ==
    ASSUME NEW rule
    PROVE  RouteOf(rule).source = rule.source /\ RouteOf(rule).method = rule.method
BY DEF RouteOf, Compile

\* The routes of a table are well-formed, and its source tells one from another.
LEMMA RoutesOfTable ==
    ASSUME NEW t \in Tables
    PROVE  /\ \A r \in RoutesOf(t) :
                WellFormed(r) /\ r.source \in Int /\ r.method \in HTTPMethods
           /\ \A a, b \in RoutesOf(t) : a.source = b.source => a = b
<1>1. ASSUME NEW r \in RoutesOf(t)
      PROVE  \E i \in DOMAIN t : /\ r = RouteOf(t[i]) /\ WellFormed(r)
                                 /\ r.source = t[i].source /\ r.method = t[i].method
    <2>1. PICK i \in DOMAIN t : r = RouteOf(t[i]) /\ Parse(t[i].text) # NoTemplate
        BY DEF RoutesOf
    <2>2. t[i].text \in Texts
        BY TableOfRules
    <2>3. WellFormed(r)
        BY <2>1, <2>2, CompiledIsWellFormed DEF RouteOf
    <2>4. QED
        BY <2>1, <2>3, RouteFields
<1>2. \A i \in DOMAIN t : t[i].method \in HTTPMethods /\ t[i].source \in Int
    BY TableOfRules
<1>3. \A i, j \in DOMAIN t : t[i].source = t[j].source => i = j
    BY TableOfRules
<1>4. QED
    BY <1>1, <1>2, <1>3

\* An exchange of neighbours leaves the elements what they are, each once.
Swapped(t, i) == [t EXCEPT ![i] = t[i - 1], ![i - 1] = t[i]]
EachOnce(t) == \A i, j \in DOMAIN t : t[i] = t[j] => i = j

\* What Swap does to the table, place by place.
LEMMA SwapIsPermutation ==
    ASSUME NEW S, NEW t \in Seq(S), NEW n \in Nat, n = Len(t), NEW i \in 2..n
    PROVE  /\ Swapped(t, i) \in Seq(S) /\ Len(Swapped(t, i)) = n
           /\ DOMAIN t = 1..n /\ DOMAIN Swapped(t, i) = 1..n
           /\ i - 1 \in 1..n /\ i \in 1..n
           /\ Swapped(t, i)[i] = t[i - 1] /\ Swapped(t, i)[i - 1] = t[i]
           /\ \A j \in 1..n : j # i /\ j # i - 1 => Swapped(t, i)[j] = t[j]
           /\ ToSet(Swapped(t, i)) = ToSet(t)
           /\ EachOnce(t) => EachOnce(Swapped(t, i))
<1> DEFINE u == Swapped(t, i)
<1>1. DOMAIN t = 1..n /\ \A j \in 1..n : t[j] \in S
    OBVIOUS
<1>2. i - 1 \in 1..n /\ i \in 1..n /\ i # i - 1
    OBVIOUS
<1>3. /\ DOMAIN u = 1..n /\ u[i] = t[i - 1] /\ u[i - 1] = t[i]
      /\ \A j \in 1..n : j # i /\ j # i - 1 => u[j] = t[j]
      /\ u = [j \in 1..n |-> u[j]]
    BY <1>1, <1>2 DEF Swapped
<1> HIDE DEF u
<1>4. \A j \in 1..n : u[j] \in S
    BY <1>1, <1>2, <1>3
<1>5. u \in Seq(S) /\ Len(u) = n
    <2>1. u \in [1..n -> S]
        BY <1>3, <1>4
    <2>2. QED
        BY <1>3, <2>1
<1>6. ToSet(u) = ToSet(t)
    BY <1>1, <1>2, <1>3 DEF ToSet
<1>7. EachOnce(t) => EachOnce(u)
    BY <1>1, <1>2, <1>3 DEF EachOnce
<1>8. QED
    BY <1>1, <1>2, <1>3, <1>5, <1>6, <1>7 DEF u

-----------------------------------------------------------------------------
\* The invariant.  The table holds routes of the rules, each once, and until it is
\* sorted at the place of its rule.

Compiled ==
    /\ rules \in Tables
    /\ table \in Seq(RoutesOf(rules)) /\ EachOnce(table)
    /\ outer \in Nat /\ inner \in Nat /\ 1 <= inner /\ inner <= outer

Declared ==
    phase \notin {"sort", "serve"} =>
        /\ Len(table) <= Len(rules)
        /\ \A i \in DOMAIN table : /\ table[i] = RouteOf(rules[i])
                                   /\ Parse(rules[i].text) # NoTemplate
Growing == phase = "parse" => Len(table) < Len(rules)

\* What checkRouteConflicts lets pass has no two routes that overlap and are as
\* specific as each other, and is reported in full.
Apart(t) == \A a, b \in ToSet(t) : a # b /\ Overlaps(a, b) => Compare(a, b) # 0
Checked ==
    IF phase \in {"sort", "serve"} THEN Apart(table) /\ shadowed = Shadowings(table)
    ELSE shadowed = {}

\* What it does not is shown by a pair of the table.
Shown ==
    /\ conflict # <<>> => phase = "refused"
    /\ phase = "refused" =>
          \E p \in Ambiguous(table) :
             conflict = <<table[p[1]], table[p[2]], Example(table[p[1]], table[p[2]])>>

RouteInv == Compiled /\ Declared /\ Growing /\ Checked /\ Shown

\* Before the first rule there are no routes.
LEMMA RouteInit == Init => RouteInv
<1> SUFFICES ASSUME Init PROVE RouteInv
    OBVIOUS
<1> USE DEF Init
<1>1. Compiled
    BY DEF Compiled, EachOnce
<1>2. Len(rules) \in Nat /\ Len(rules) >= 1
    BY TableOfRules
<1>3. Declared /\ Growing
    BY <1>2 DEF Declared, Growing
<1>4. Checked /\ Shown
    BY DEF Checked, Shown
<1>5. QED
    BY <1>1, <1>3, <1>4 DEF RouteInv

\* One more compiled rule keeps the routes in step with the table.
LEMMA AddRouteKeeps ==
    ASSUME RouteInv, AddRoute
    PROVE  RouteInv'
<1>1. PICK n \in Nat : n = Len(table) /\ DOMAIN table = 1..n /\ table \in Seq(RoutesOf(rules))
    BY DEF RouteInv, Compiled
<1>2. PICK m \in Nat : m = Len(rules) /\ DOMAIN rules = 1..m /\ n < m
    BY <1>1, TableOfRules DEF RouteInv, Compiled, Growing, AddRoute
<1>3. /\ Rule = rules[n + 1] /\ table' = Append(table, RouteOf(rules[n + 1]))
      /\ Parse(rules[n + 1].text) # NoTemplate
      /\ phase = "parse" /\ phase' = IF n + 1 = m THEN "check" ELSE "parse"
      /\ rules' = rules /\ conflict' = conflict /\ shadowed' = shadowed
      /\ outer' = outer /\ inner' = inner
    BY <1>1, <1>2 DEF AddRoute, Rule, Parsed
<1>4. n + 1 \in 1..m
    BY <1>2
<1>5. PICK r \in RoutesOf(rules) : r = RouteOf(rules[n + 1]) /\ r.source = rules[n + 1].source
    BY <1>2, <1>3, <1>4, RouteFields DEF RoutesOf
<1>6. /\ table' \in Seq(RoutesOf(rules)) /\ Len(table') = n + 1 /\ DOMAIN table' = 1..(n + 1)
      /\ table'[n + 1] = r /\ \A i \in 1..n : table'[i] = table[i]
    BY <1>1, <1>3, <1>5
<1>7. \A i \in 1..n : i \in 1..m /\ i # n + 1 /\ table[i] = RouteOf(rules[i])
                     /\ Parse(rules[i].text) # NoTemplate
    BY <1>1, <1>2, <1>3 DEF RouteInv, Declared
<1>8. \A i \in 1..n : table[i] # r
    <2> SUFFICES ASSUME NEW i \in 1..n PROVE table[i] # r
        OBVIOUS
    <2>1. table[i].source = rules[i].source
        BY <1>7, RouteFields
    <2>2. rules[i].source # rules[n + 1].source
        BY <1>2, <1>4, <1>7, TableOfRules DEF RouteInv, Compiled
    <2>3. QED
        BY <1>5, <2>1, <2>2
<1>9. Compiled'
    <2>1. EachOnce(table)
        BY DEF RouteInv, Compiled
    <2>2. EachOnce(table')
        <3> SUFFICES ASSUME NEW i \in 1..(n + 1), NEW j \in 1..(n + 1), table'[i] = table'[j]
                     PROVE  i = j
            BY <1>6 DEF EachOnce
        <3>1. (i \in 1..n \/ i = n + 1) /\ (j \in 1..n \/ j = n + 1)
            OBVIOUS
        <3>2. QED
            BY <1>1, <1>6, <1>8, <2>1, <3>1 DEF EachOnce
    <2>3. QED
        BY <1>3, <1>6, <2>2 DEF RouteInv, Compiled
<1>10. Declared' /\ Growing'
    <2>1. \A i \in 1..(n + 1) : table'[i] = RouteOf(rules[i]) /\ Parse(rules[i].text) # NoTemplate
        <3> SUFFICES ASSUME NEW i \in 1..(n + 1)
                     PROVE  table'[i] = RouteOf(rules[i]) /\ Parse(rules[i].text) # NoTemplate
            OBVIOUS
        <3>1. i \in 1..n \/ i = n + 1
            OBVIOUS
        <3>2. QED
            BY <1>3, <1>5, <1>6, <1>7, <3>1
    <2>2. n + 1 <= m /\ (phase' = "parse" => n + 1 < m)
        BY <1>2, <1>3
    <2>3. QED
        BY <1>2, <1>3, <1>6, <2>1, <2>2 DEF Declared, Growing
<1>11. Checked' /\ Shown'
    BY <1>3 DEF RouteInv, Checked, Shown
<1>12. QED
    BY <1>9, <1>10, <1>11 DEF RouteInv

\* The check sees every pair: an unordered one in the order of its places.
LEMMA PassedIsApart ==
    ASSUME RouteInv, Ambiguous(table) = {}
    PROVE  Apart(table)
<1> SUFFICES ASSUME NEW a \in ToSet(table), NEW b \in ToSet(table), a # b, Overlaps(a, b),
                    Compare(a, b) = 0
             PROVE  FALSE
    BY DEF Apart
<1>1. PICK n \in Nat : n = Len(table) /\ DOMAIN table = 1..n
    BY DEF RouteInv, Compiled
<1>2. PICK i \in 1..n, j \in 1..n : a = table[i] /\ b = table[j] /\ i # j
    BY <1>1 DEF ToSet
<1>3. WellFormed(a) /\ WellFormed(b)
    <2>1. a \in RoutesOf(rules) /\ b \in RoutesOf(rules) /\ rules \in Tables
        BY <1>1, <1>2 DEF RouteInv, Compiled
    <2>2. QED
        BY <2>1, RoutesOfTable
<1>4. Compare(b, a) = 0 /\ Overlaps(b, a)
    BY <1>3, CompareIsAntisymmetric, OverlapsBothWays
<1>5. CASE i < j
    <2>1. <<i, j>> \in Ambiguous(table)
        BY <1>1, <1>2, <1>5 DEF Ambiguous, PairsOf
    <2>2. QED
        BY <2>1
<1>6. CASE j < i
    <2>1. <<j, i>> \in Ambiguous(table)
        BY <1>1, <1>2, <1>4, <1>6 DEF Ambiguous, PairsOf
    <2>2. QED
        BY <2>1
<1>7. QED
    BY <1>2, <1>5, <1>6

\* Every step keeps what is known of the routes.
LEMMA RouteNext == RouteInv /\ [Next]_vars => RouteInv'
<1> SUFFICES ASSUME RouteInv, [Next]_vars PROVE RouteInv'
    OBVIOUS
<1>1. CASE AddRoute
    BY <1>1, AddRouteKeeps
<1>2. CASE Malformed
    BY <1>2 DEF Malformed, RouteInv, Compiled, Declared, Growing, Checked, Shown
<1>3. CASE Refuse
    <2>1. /\ UNCHANGED <<rules, table, shadowed, outer, inner>>
          /\ phase = "check" /\ phase' = "refused"
          /\ \E p \in Ambiguous(table) :
               conflict' = <<table[p[1]], table[p[2]], Example(table[p[1]], table[p[2]])>>
        BY <1>3 DEF Refuse, naming
    <2>2. QED
        BY <2>1 DEF RouteInv, Compiled, Declared, Growing, Checked, Shown
<1>4. CASE Accept
    <2>1. /\ UNCHANGED <<rules, table, conflict, outer, inner>>
          /\ phase = "check" /\ phase' = "sort" /\ shadowed' = Shadowings(table)
          /\ Apart(table)
        BY <1>4, PassedIsApart DEF Accept, naming
    <2>2. QED
        BY <2>1 DEF RouteInv, Compiled, Declared, Growing, Checked, Shown
<1>5. CASE Swap
    <2>1. PICK n \in Nat : n = Len(table) /\ table \in Seq(RoutesOf(rules))
        BY DEF RouteInv, Compiled
    <2>2. /\ UNCHANGED <<rules, phase, conflict, shadowed, outer>> /\ phase = "sort"
          /\ table' = Swapped(table, inner) /\ inner' = inner - 1 /\ inner > 1
        BY <1>5 DEF Swap, naming, Swapped
    <2>3. inner \in 2..n
        <3>1. outer <= n /\ inner > 1
            BY <1>5, <2>1 DEF Swap
        <3>2. outer \in Nat /\ inner \in Nat /\ inner <= outer /\ n \in Nat
            BY <2>1 DEF RouteInv, Compiled
        <3>3. QED
            BY <3>1, <3>2
    <2>4. /\ table' \in Seq(RoutesOf(rules)) /\ ToSet(table') = ToSet(table)
          /\ EachOnce(table) => EachOnce(table')
        BY <2>1, <2>2, <2>3, SwapIsPermutation
    <2>5. inner' \in Nat /\ outer' \in Nat /\ 1 <= inner' /\ inner' <= outer'
        BY <2>2, <2>3 DEF RouteInv, Compiled
    <2>6. Compiled' /\ Declared' /\ Growing'
        BY <2>2, <2>4, <2>5 DEF RouteInv, Compiled, Declared, Growing
    <2>7. Apart(table') /\ Shadowings(table') = Shadowings(table)
        BY <2>2, <2>4 DEF RouteInv, Checked, Apart, Shadowings
    <2>8. Checked' /\ Shown'
        BY <2>2, <2>7 DEF RouteInv, Checked, Shown
    <2>9. QED
        BY <2>6, <2>8 DEF RouteInv
<1>6. CASE Placed
    BY <1>6 DEF Placed, naming, RouteInv, Compiled, Declared, Growing, Checked, Shown
<1>7. CASE Emit
    BY <1>7 DEF Emit, naming, RouteInv, Compiled, Declared, Growing, Checked, Shown
<1>8. CASE Done \/ UNCHANGED vars
    BY <1>8 DEF Done, vars, RouteInv, Compiled, Declared, Growing, Checked, Shown
<1>9. QED
    BY <1>1, <1>2, <1>3, <1>4, <1>5, <1>6, <1>7, <1>8 DEF Next

\* The insertion sort.  Up to outer, each two places are in order but for the element
\* that is being placed and those before it.

Placing ==
    WithoutMulti(table) =>
        \A i, j \in DOMAIN table :
            i < j /\ j <= outer /\ j # inner => Less(table[i], table[j])

Sorting ==
    /\ phase \notin {"sort", "serve"} => outer = 2 /\ inner = 2
    /\ outer > Len(table) => inner = outer
    /\ phase = "serve" => outer > Len(table)
    /\ phase \in {"sort", "serve"} => Placing

\* Whether a table has a "**" does not depend on its order.
LEMMA WithoutMultiIsOfSet ==
    ASSUME NEW t
    PROVE  WithoutMulti(t) <=> \A r \in ToSet(t) : ~HasMulti(r)
BY DEF WithoutMulti, ToSet

\* An exchange of neighbours keeps all routes before the one on its way in order.
LEMMA SwapSorts ==
    ASSUME RouteInv, Sorting, Swap
    PROVE  Sorting'
<1>1. PICK n \in Nat : n = Len(table) /\ table \in Seq(RoutesOf(rules))
    BY DEF RouteInv, Compiled
<1>2. /\ phase = "sort" /\ phase' = phase /\ outer' = outer /\ inner' = inner - 1
      /\ table' = Swapped(table, inner) /\ Less(table[inner], table[inner - 1])
    BY DEF Swap, Swapped
<1>3. outer <= n /\ inner > 1
    BY <1>1 DEF Swap
<1>4. outer \in Nat /\ inner \in 2..n
    <2>1. outer \in Nat /\ inner \in Nat /\ inner <= outer
        BY DEF RouteInv, Compiled
    <2>2. QED
        BY <1>1, <1>3, <2>1
<1>5. /\ Len(table') = n /\ DOMAIN table = 1..n /\ DOMAIN table' = 1..n
      /\ table'[inner] = table[inner - 1] /\ table'[inner - 1] = table[inner]
      /\ \A j \in 1..n : j # inner /\ j # inner - 1 => table'[j] = table[j]
      /\ ToSet(table') = ToSet(table)
    BY <1>1, <1>2, <1>4, SwapIsPermutation
<1>6. ASSUME WithoutMulti(table'), NEW i \in 1..n, NEW j \in 1..n,
             i < j, j <= outer, j # inner - 1
      PROVE  Less(table'[i], table'[j])
    <2>1. WithoutMulti(table)
        BY <1>5, <1>6, WithoutMultiIsOfSet
    <2>2. \A k, l \in 1..n : k < l /\ l <= outer /\ l # inner => Less(table[k], table[l])
        BY <1>2, <1>5, <2>1 DEF Sorting, Placing
    <2>3. inner - 1 \in 1..n /\ inner \in 1..n /\ inner - 1 < inner /\ inner - 1 # inner
        BY <1>4
    <2>4. CASE j = inner
        <3>1. CASE i = inner - 1
            BY <1>2, <1>5, <2>4, <3>1
        <3>2. CASE i # inner - 1
            <4>1. i < inner - 1 /\ i # inner /\ inner - 1 <= outer
                BY <1>4, <1>6, <2>4, <3>2
            <4>2. Less(table[i], table[inner - 1])
                BY <2>2, <2>3, <4>1
            <4>3. QED
                BY <1>5, <2>4, <3>2, <4>1, <4>2
        <3>3. QED
            BY <3>1, <3>2
    <2>5. CASE j # inner
        <3>1. table'[j] = table[j]
            BY <1>5, <1>6, <2>5
        <3>2. CASE i = inner - 1
            <4>1. inner < j
                BY <1>4, <1>6, <2>5, <3>2
            <4>2. QED
                BY <1>5, <1>6, <2>2, <2>3, <2>5, <3>1, <3>2, <4>1
        <3>3. CASE i = inner
            <4>1. inner - 1 < j
                BY <1>4, <1>6, <3>3
            <4>2. QED
                BY <1>5, <1>6, <2>2, <2>3, <2>5, <3>1, <3>3, <4>1
        <3>4. CASE i # inner - 1 /\ i # inner
            BY <1>5, <1>6, <2>2, <2>5, <3>1, <3>4
        <3>5. QED
            BY <3>2, <3>3, <3>4
    <2>6. QED
        BY <2>4, <2>5
<1>7. Placing'
    BY <1>2, <1>5, <1>6 DEF Placing
<1>8. ~(outer' > Len(table'))
    BY <1>2, <1>3, <1>4, <1>5
<1>9. QED
    BY <1>2, <1>7, <1>8 DEF Sorting

\* A route that is not less than the one before it has found its place.
LEMMA PlacedSorts ==
    ASSUME RouteInv, Sorting, Placed
    PROVE  Sorting'
<1>1. PICK n \in Nat : n = Len(table) /\ DOMAIN table = 1..n /\ table \in Seq(RoutesOf(rules))
    BY DEF RouteInv, Compiled
<1>2. /\ phase = "sort" /\ phase' = phase /\ table' = table
      /\ outer' = outer + 1 /\ inner' = outer + 1
      /\ inner > 1 => ~Less(table[inner], table[inner - 1])
    BY DEF Placed
<1>3. outer \in Nat /\ inner \in 1..n /\ outer <= n /\ inner <= outer
    <2>1. outer <= n
        BY <1>1 DEF Placed
    <2>2. outer \in Nat /\ inner \in Nat /\ 1 <= inner /\ inner <= outer
        BY DEF RouteInv, Compiled
    <2>3. QED
        BY <1>1, <2>1, <2>2
<1>4. ASSUME WithoutMulti(table), NEW i \in 1..n, NEW j \in 1..n, i < j, j <= outer
      PROVE  Less(table[i], table[j])
    <2>1. \A k, l \in 1..n : k < l /\ l <= outer /\ l # inner => Less(table[k], table[l])
        BY <1>1, <1>2, <1>4 DEF Sorting, Placing
    <2>2. \A k \in 1..n : WellFormed(table[k]) /\ ~HasMulti(table[k]) /\ table[k].source \in Int
        BY <1>1, <1>4, RoutesOfTable DEF RouteInv, Compiled, WithoutMulti
    <2>3. \A k, l \in 1..n : k # l => table[k].source # table[l].source
        BY <1>1, RoutesOfTable DEF RouteInv, Compiled, EachOnce
    <2>4. CASE j # inner
        BY <1>4, <2>1, <2>4
    <2>5. CASE j = inner
        <3>1. inner - 1 \in 1..n /\ inner > 1 /\ inner - 1 # inner /\ inner - 1 <= outer
            BY <1>3, <1>4, <2>5
        <3>2. Less(table[inner - 1], table[inner])
            BY <1>2, <1>3, <2>2, <2>3, <3>1, LessIsTotal
        <3>3. CASE i = inner - 1
            BY <2>5, <3>2, <3>3
        <3>4. CASE i # inner - 1
            <4>1. i < inner - 1
                BY <1>3, <1>4, <2>5, <3>4
            <4>2. Less(table[i], table[inner - 1])
                BY <2>1, <3>1, <4>1
            <4>3. QED
                BY <1>3, <2>2, <2>5, <3>1, <3>2, <4>2, PlainOrder
        <3>5. QED
            BY <3>3, <3>4
    <2>6. QED
        BY <2>4, <2>5
<1>5. Placing'
    <2> SUFFICES ASSUME WithoutMulti(table), NEW i \in 1..n, NEW j \in 1..n,
                        i < j, j <= outer + 1, j # outer + 1
                 PROVE  Less(table[i], table[j])
        BY <1>1, <1>2 DEF Placing
    <2>1. j <= outer
        BY <1>3
    <2>2. QED
        BY <1>4, <2>1
<1>6. QED
    BY <1>2, <1>5 DEF Sorting

\* Every step keeps what is sorted so far in order.
LEMMA SortingNext == RouteInv /\ Sorting /\ [Next]_vars => Sorting'
<1> SUFFICES ASSUME RouteInv, Sorting, [Next]_vars PROVE Sorting'
    OBVIOUS
<1>1. PICK n \in Nat : n = Len(table) /\ table \in Seq(RoutesOf(rules))
    BY DEF RouteInv, Compiled
<1>2. CASE AddRoute
    <2>1. outer' = 2 /\ inner' = 2 /\ phase' \in {"parse", "check"}
        BY <1>2 DEF AddRoute, Sorting
    <2>2. QED
        BY <2>1 DEF Sorting
<1>3. CASE Malformed
    BY <1>3 DEF Malformed, Sorting
<1>4. CASE Refuse
    BY <1>4 DEF Refuse, naming, Sorting
<1>5. CASE Accept
    <2>1. outer' = 2 /\ inner' = 2 /\ phase' = "sort" /\ table' = table
        BY <1>5 DEF Accept, naming, Sorting
    <2>2. DOMAIN table = 1..n
        BY <1>1
    <2>3. \A i, j \in 1..n : ~(i < j /\ j <= 2 /\ j # 2)
        OBVIOUS
    <2>4. Placing'
        BY <2>1, <2>2, <2>3 DEF Placing
    <2>5. QED
        BY <2>1, <2>4 DEF Sorting
<1>6. CASE Swap
    BY <1>6, SwapSorts
<1>7. CASE Placed
    BY <1>7, PlacedSorts
<1>8. CASE Emit
    BY <1>8 DEF Emit, naming, Sorting, Placing
<1>9. CASE Done \/ UNCHANGED vars
    BY <1>9 DEF Done, vars, Sorting, Placing
<1>10. QED
    BY <1>2, <1>3, <1>4, <1>5, <1>6, <1>7, <1>8, <1>9 DEF Next

TableInv == RouteInv /\ Sorting

\* The inductive invariant of the table.
LEMMA TableInvariant == Spec => []TableInv
<1>1. Init => TableInv
    <2>1. Init => Sorting
        BY DEF Init, Sorting
    <2>2. QED
        BY <2>1, RouteInit DEF TableInv
<1>2. TableInv /\ [Next]_vars => TableInv'
    BY RouteNext, SortingNext DEF TableInv
<1>3. QED
    BY <1>1, <1>2, PTL DEF Spec

-----------------------------------------------------------------------------
\* What the diagnostics show

\* ExamplesMatchBoth: the example of every diagnostic about two routes is a path that
\* both of them match, whatever the templates.
THEOREM ExamplesShowOverlaps == Spec => []ExamplesMatchBoth
<1>1. ASSUME RouteInv PROVE ExamplesMatchBoth
    <2>1. \A r \in ToSet(table) : WellFormed(r)
        BY <1>1, RoutesOfTable DEF RouteInv, Compiled, ToSet
    <2>2. ASSUME NEW s \in shadowed, NEW r \in {s.winner, s.loser}
          PROVE  Matches(r, r.method, s.example, r.verb)
        <3>1. s \in Shadowings(table)
            BY <1>1, <2>2 DEF RouteInv, Checked
        <3>2. PICK w \in ToSet(table), l \in ToSet(table) :
                    /\ Overlaps(w, l) /\ s.winner = w /\ s.loser = l
                    /\ s.example = Example(w, l)
            BY <3>1 DEF Shadowings
        <3>3. QED
            BY <2>1, <2>2, <3>2, ExampleIsMatched
    <2>3. ASSUME conflict # <<>>, NEW i \in {1, 2}
          PROVE  Matches(conflict[i], conflict[i].method, conflict[3], conflict[i].verb)
        <3>1. PICK p \in Ambiguous(table) :
                conflict = <<table[p[1]], table[p[2]], Example(table[p[1]], table[p[2]])>>
            BY <1>1, <2>3 DEF RouteInv, Shown
        <3>2. PICK a \in ToSet(table), b \in ToSet(table) :
                Overlaps(a, b) /\ conflict = <<a, b, Example(a, b)>>
            BY <3>1 DEF Ambiguous, PairsOf, ToSet
        <3>3. \A r \in {a, b} : Matches(r, r.method, Example(a, b), r.verb)
            BY <2>1, <3>2, ExampleIsMatched
        <3>4. conflict[1] = a /\ conflict[2] = b /\ conflict[3] = Example(a, b)
            BY <3>2
        <3>5. QED
            BY <2>3, <3>3, <3>4
    <2>4. QED
        BY <2>2, <2>3 DEF ExamplesMatchBoth
<1>2. TableInv => ExamplesMatchBoth
    BY <1>1 DEF TableInv
<1>3. QED
    BY <1>2, TableInvariant, PTL

\* Routes that one request matches are well-formed, and each two overlap.
LEMMA ReachedOverlap ==
    ASSUME RouteInv, NEW q \in Requests
    PROVE  /\ IsPath(q[2])
           /\ \A a \in Reach(table, q) : /\ a \in ToSet(table) /\ WellFormed(a)
                                         /\ Matches(a, q[1], q[2], q[3])
           /\ \A a, b \in Reach(table, q) : Overlaps(a, b)
<1>1. q[2] \in Paths
    BY DEF Requests
<1>2. IsPath(q[2])
    BY <1>1, PathsAssumption DEF IsPath
<1>3. \A r \in ToSet(table) : WellFormed(r)
    BY RoutesOfTable DEF RouteInv, Compiled, ToSet
<1>4. \A a \in Reach(table, q) : /\ a \in ToSet(table) /\ WellFormed(a)
                                 /\ Matches(a, q[1], q[2], q[3])
    BY <1>3 DEF Reach
<1>5. \A a, b \in Reach(table, q) : Overlaps(a, b)
    BY <1>2, <1>4, MatchedIsOverlap
<1>6. QED
    BY <1>2, <1>4, <1>5

\* RefusedIffAmbiguous: a table is refused exactly when some request matches two of
\* its routes neither of which is more specific.
THEOREM RefusedExactlyWhenAmbiguous == Spec => []RefusedIffAmbiguous
<1> DEFINE Clash(q) == \E a \in Reach(table, q), b \in Reach(table, q) :
                            a # b /\ Compare(a, b) = 0
<1>1. ASSUME RouteInv, phase = "refused" PROVE \E q \in Requests : Clash(q)
    <2>1. PICK i \in DOMAIN table, j \in DOMAIN table :
            i < j /\ Overlaps(table[i], table[j]) /\ Compare(table[i], table[j]) = 0
        BY <1>1 DEF RouteInv, Shown, Ambiguous, PairsOf
    <2>2. PICK n \in Nat, m \in Nat : /\ n = Len(table) /\ DOMAIN table = 1..n
                                      /\ m = Len(rules) /\ DOMAIN rules = 1..m /\ n <= m
        BY <1>1, TableOfRules DEF RouteInv, Compiled, Declared
    <2>3. i \in DOMAIN rules /\ j \in DOMAIN rules
        BY <2>2
    <2>4. /\ table[i] = RouteOf(rules[i]) /\ Parse(rules[i].text) # NoTemplate
          /\ table[j] = RouteOf(rules[j]) /\ Parse(rules[j].text) # NoTemplate
        BY <1>1 DEF RouteInv, Declared
    <2>5. PICK a, b : a = table[i] /\ b = table[j]
        OBVIOUS
    <2>6. Example(a, b) \in Paths /\ a.verb \in Verbs
        BY <1>1, <2>1, <2>3, <2>4, <2>5, PathsAssumption DEF RouteInv, Compiled
    <2>7. /\ a \in ToSet(table) /\ b \in ToSet(table) /\ a # b
          /\ WellFormed(a) /\ WellFormed(b) /\ a.method \in HTTPMethods
        <3>1. a # b
            BY <1>1, <2>1, <2>2, <2>5 DEF RouteInv, Compiled, EachOnce
        <3>2. QED
            BY <1>1, <2>2, <2>5, <3>1, RoutesOfTable DEF RouteInv, Compiled, ToSet
    <2>8. /\ Matches(a, a.method, Example(a, b), a.verb)
          /\ Matches(b, a.method, Example(a, b), a.verb)
        BY <2>1, <2>5, <2>7, ExampleIsMatched DEF Overlaps
    <2> DEFINE q == <<a.method, Example(a, b), a.verb>>
    <2>9. q \in Requests
        BY <2>6, <2>7 DEF Requests
    <2>10. a \in Reach(table, q) /\ b \in Reach(table, q)
        BY <2>7, <2>8 DEF Reach
    <2>11. Compare(a, b) = 0
        BY <2>1, <2>5
    <2> HIDE DEF q
    <2>12. QED
        BY <2>7, <2>9, <2>10, <2>11
<1>2. ASSUME RouteInv, phase = "serve", NEW q \in Requests, Clash(q) PROVE FALSE
    <2>1. PICK a \in Reach(table, q), b \in Reach(table, q) : a # b /\ Compare(a, b) = 0
        BY <1>2
    <2>2. a \in ToSet(table) /\ b \in ToSet(table) /\ Overlaps(a, b)
        BY <1>2, <2>1, ReachedOverlap
    <2>3. QED
        BY <1>2, <2>1, <2>2 DEF RouteInv, Checked, Apart
<1> HIDE DEF Clash
<1>3. ASSUME RouteInv PROVE RefusedIffAmbiguous
    <2>1. phase \in {"refused", "serve"} => (phase = "refused" <=> \E q \in Requests : Clash(q))
        BY <1>1, <1>2, <1>3
    <2>2. QED
        BY <2>1 DEF RefusedIffAmbiguous, Clash
<1>4. TableInv => RefusedIffAmbiguous
    BY <1>3 DEF TableInv
<1>5. QED
    BY <1>4, TableInvariant, PTL
-----------------------------------------------------------------------------
\* Who serves a request

\* OneWinner: in an accepted table each request that matches anything has a route
\* that all its other matches yield to, and that each of them is reported under.
THEOREM RequestsHaveOneWinner == Spec => []OneWinner
<1>1. ASSUME RouteInv, phase = "serve", NEW q \in Requests, Reach(table, q) # {}
      PROVE  \E w \in Winners(table, q) : \A r \in Reach(table, q) \ {w} :
                \E s \in shadowed : s.winner = w /\ s.loser = r
    <2> DEFINE T == Reach(table, q)
               I == {i \in DOMAIN table : table[i] \in T}
               R == {p \in I \X I : Compare(table[p[1]], table[p[2]]) = -1}
    <2>1. PICK n \in Nat : DOMAIN table = 1..n
        <3>1. Len(table) \in Nat /\ DOMAIN table = 1..Len(table)
            BY <1>1 DEF RouteInv, Compiled
        <3>2. QED
            BY <3>1
    <2>2. I \subseteq 1..n
        BY <2>1
    <2>3. I # {} /\ \A r \in T : \E i \in I : r = table[i]
        BY <1>1 DEF Reach, ToSet
    <2>4. \A i, j \in I : table[i] = table[j] => i = j
        BY <1>1 DEF RouteInv, Compiled, EachOnce
    <2>5. /\ IsPath(q[2])
          /\ \A a \in T : a \in ToSet(table) /\ WellFormed(a) /\ Matches(a, q[1], q[2], q[3])
          /\ \A a, b \in T : Overlaps(a, b)
        BY <1>1, ReachedOverlap
    <2>6. \A a, b \in T : a # b => Compare(a, b) = -1 \/ Compare(b, a) = -1
        <3> SUFFICES ASSUME NEW a \in T, NEW b \in T, a # b
                     PROVE  Compare(a, b) = -1 \/ Compare(b, a) = -1
            OBVIOUS
        <3>1. Compare(a, b) # 0
            BY <1>1, <2>5 DEF RouteInv, Checked, Apart
        <3>2. WellFormed(a) /\ WellFormed(b)
            BY <2>5
        <3>3. Compare(a, b) \in {-1, 0, 1} /\ (Compare(b, a) = -1 <=> Compare(a, b) = 1)
            BY <3>2, CompareIsAntisymmetric
        <3>4. QED
            BY <3>1, <3>3
    <2>7. \A a, b, c \in T : Compare(a, b) = -1 /\ Compare(b, c) = -1 => Compare(a, c) = -1
        BY <2>5, RequestOrder
    <2>8. \A i, j \in I : i # j => <<i, j>> \in R \/ <<j, i>> \in R
        BY <2>4, <2>6
    <2>9. \A i, j, k \in I : <<i, j>> \in R /\ <<j, k>> \in R => <<i, k>> \in R
        BY <2>7
    <2>10. PICK f \in I : \A j \in I \ {f} : <<f, j>> \in R
        <3>1. n \in Nat /\ I # {}
            BY <2>1, <2>3
        <3> HIDE DEF T, I, R
        <3>2. IsTotalOrder(R, I)
            BY <2>8, <2>9 DEF IsTotalOrder
        <3>3. QED
            BY <3>1, <3>2, <2>2, FirstInOrder, ZenonT(30)
    <2>11. PICK w \in T : w = table[f]
        BY <2>10
    <2>12. \A r \in T \ {w} : Compare(w, r) = -1
        <3> SUFFICES ASSUME NEW r \in T, r # w PROVE Compare(w, r) = -1
            OBVIOUS
        <3>1. PICK j \in I : r = table[j]
            BY <2>3
        <3>2. j # f
            BY <2>11, <3>1
        <3>3. <<f, j>> \in R
            BY <2>10, <3>2
        <3>4. Compare(table[f], table[j]) = -1
            BY <3>3
        <3>5. QED
            BY <2>11, <3>1, <3>4
    <2>13. w \in Winners(table, q)
        BY <2>12 DEF Winners
    <2>14. ASSUME NEW r \in T \ {w} PROVE \E s \in shadowed : s.winner = w /\ s.loser = r
        <3> DEFINE s == [winner |-> w, loser |-> r, example |-> Example(w, r)]
        <3>1. s \in Shadowings(table)
            <4>1. <<w, r>> \in {p \in ToSet(table) \X ToSet(table) :
                                    Overlaps(p[1], p[2]) /\ Compare(p[1], p[2]) = -1}
                BY <2>5, <2>12
            <4>2. <<w, r>>[1] = w /\ <<w, r>>[2] = r
                OBVIOUS
            <4>3. QED
                BY <4>1, <4>2 DEF Shadowings
        <3>2. s \in shadowed
            BY <1>1, <3>1 DEF RouteInv, Checked
        <3>3. s.winner = w /\ s.loser = r
            OBVIOUS
        <3>4. QED
            BY <3>2, <3>3
    <2>15. QED
        BY <2>13, <2>14
<1>2. RouteInv => OneWinner
    BY <1>1 DEF OneWinner
<1>3. TableInv => OneWinner
    BY <1>2 DEF TableInv
<1>4. QED
    BY <1>3, TableInvariant, PTL

\* PlainScanServesWinner: where no template has a "**", the first route that a
\* runtime meets in the sorted table is the one all others yield to.
THEOREM PlainScansServeTheWinner == Spec => []PlainScanServesWinner
<1>1. ASSUME TableInv, WithoutMulti(table), phase = "serve", NEW q \in Requests,
             NEW i \in DOMAIN table, table[i] \in Reach(table, q),
             \A j \in 1..(i - 1) : table[j] \notin Reach(table, q)
      PROVE  table[i] \in Winners(table, q)
    <2>1. PICK n \in Nat : n = Len(table) /\ DOMAIN table = 1..n
        BY <1>1 DEF TableInv, RouteInv, Compiled
    <2>2. \A j, k \in 1..n : j < k => Less(table[j], table[k])
        <3>1. outer > n /\ inner = outer /\ outer \in Nat /\ Placing
            BY <1>1, <2>1 DEF TableInv, RouteInv, Compiled, Sorting
        <3>2. \A k \in 1..n : k <= outer /\ k # inner
            BY <3>1
        <3>3. QED
            BY <1>1, <2>1, <3>1, <3>2 DEF Placing
    <2>3. ASSUME NEW r \in Reach(table, q), r # table[i] PROVE Compare(table[i], r) = -1
        <3>1. PICK k \in 1..n : r = table[k]
            BY <2>1, <2>3 DEF Reach, ToSet
        <3>2. i \in 1..n /\ k # i /\ ~(k \in 1..(i - 1))
            BY <1>1, <2>1, <2>3, <3>1
        <3>3. i < k
            BY <3>2
        <3>4. Less(table[i], r)
            BY <2>2, <3>1, <3>2, <3>3
        <3>5. /\ WellFormed(table[i]) /\ WellFormed(r) /\ Overlaps(table[i], r)
              /\ table[i] \in ToSet(table) /\ r \in ToSet(table)
            BY <1>1, <2>3, ReachedOverlap DEF TableInv
        <3>6. Compare(table[i], r) # 0
            BY <1>1, <2>3, <3>5 DEF TableInv, RouteInv, Checked, Apart
        <3>7. Compare(table[i], r) \in {-1, 0, 1}
            BY <3>5, CompareIsAntisymmetric
        <3>8. QED
            BY <3>4, <3>6, <3>7 DEF Less
    <2>4. QED
        BY <1>1, <2>3 DEF Winners
<1>2. TableInv => PlainScanServesWinner
    BY <1>1 DEF PlainScanServesWinner, ScanServesWinner
<1>3. QED
    BY <1>2, TableInvariant, PTL

-----------------------------------------------------------------------------
\* What the routes capture

\* The variable of a capture, and its span on a path.
IsSpan(r, segments, c, path, s, from, to) ==
    /\ s \in Variables(segments) /\ from \in 0..Len(path) /\ to \in 0..Len(path)
    /\ segments[s].field = c.field /\ from <= to
    /\ FallsApart(r, segments, s, path, from, to)
    /\ Span(c, path) = SubSeq(path, from + 1, to)

\* The span of a capture is what is left of the path when the segments before the
\* variable have matched what comes first, and those behind it the rest.
LEMMA CapturesFit ==
    ASSUME NEW text \in Texts, Parse(text) # NoTemplate, NEW method, NEW source,
           NEW r, r = Compile(method, source, Parse(text)),
           NEW segments, segments = Parse(text).segments,
           NEW S, NEW path \in Seq(S), Matches(r, r.method, path, r.verb),
           NEW k \in DOMAIN r.captures
    PROVE  \E s, from, to : IsSpan(r, segments, r.captures[k], path, s, from, to)
<1>1. segments \in Seq(Parts)
    BY ParsedTemplate
<1>2. /\ r.captures = Captures(segments) /\ r.segs = Flat(segments)
      /\ Replaces(r) /\ WellFormed(r)
    BY CompiledIsWellFormed DEF Compile, Replaces
<1>3. PICK s \in Variables(segments) : r.captures[k] = Capture(segments, s)
    BY <1>1, <1>2, CapturesOfVariables
<1>4. PICK n \in Nat : n = Len(segments) /\ s \in 1..n
    BY <1>1 DEF Variables
<1> DEFINE A == Flat(SubSeq(segments, 1, s - 1))
           B == segments[s].sub
           C == Flat(SubSeq(segments, s + 1, n))
           to == SpanEnd(A, B, path)
<1>5. /\ Flat(SubSeq(segments, s, s)) = B
      /\ A \in Seq(Words) /\ C \in Seq(Words) /\ B \in Seq(Words) \ {<<>>}
      /\ r.segs = (A \o B) \o C
    BY <1>1, <1>2, <1>4, FlatSplits, ZenonT(30)
<1>6. /\ r.captures[k].field = segments[s].field
      /\ Span(r.captures[k], path) = SubSeq(path, Len(A) + 1, to)
    <2>1. PICK c : c = r.captures[k]
        OBVIOUS
    <2>2. /\ c.field = segments[s].field /\ c.first = Len(A) + 1
          /\ c.last = IF Multi \in ToSet(B) THEN ToEnd ELSE Len(A) + Len(B)
        BY <1>3, <2>1 DEF Capture
    <2>3. Len(A) + Len(B) # ToEnd
        <3>1. Len(A) \in Nat /\ Len(B) \in Nat /\ Len(B) # 0
            BY <1>5, EmptySeq
        <3> HIDE DEF A, B
        <3>2. QED
            BY <3>1 DEF ToEnd
    <2> HIDE DEF A, B
    <2>4. (IF c.last = ToEnd THEN Len(path) ELSE c.last) = to
        BY <2>2, <2>3 DEF SpanEnd
    <2>5. QED
        BY <2>1, <2>2, <2>4 DEF Span
<1> HIDE DEF A, B, C, to
<1>7. /\ Len(A) \in 0..Len(path) /\ to \in 0..Len(path) /\ Len(A) <= to
      /\ Matches([r EXCEPT !.segs = A], r.method, SubSeq(path, 1, Len(A)), r.verb)
      /\ Matches([r EXCEPT !.segs = B], r.method, SubSeq(path, Len(A) + 1, to), r.verb)
      /\ Matches([r EXCEPT !.segs = C], r.method, SubSeq(path, to + 1, Len(path)), r.verb)
    <2>1. to = SpanEnd(A, B, path)
        BY DEF to
    <2>2. QED
        BY <1>2, <1>5, <2>1, SpanFits
<1>8. FallsApart(r, segments, s, path, Len(A), to)
    BY <1>4, <1>5, <1>7 DEF A, C, FallsApart
<1>9. IsSpan(r, segments, r.captures[k], path, s, Len(A), to)
    BY <1>3, <1>6, <1>7, <1>8 DEF IsSpan
<1>10. QED
    BY <1>9

\* The components of a span, each decoded.
DecodedParts(span) == [i \in DOMAIN span |-> Decode(span[i])]

\* The components of a span, as sent and decoded, are alike, whatever characters
\* they are made of, and have no slash.
AreParts(span, S, n) ==
    /\ "/" \in S /\ span \in Seq(Seq(S)) /\ Len(span) = n
    /\ DecodedParts(span) \in Seq(Seq(S)) /\ Len(DecodedParts(span)) = n
    /\ \A i \in 1..n : /\ DecodedParts(span)[i] = Decode(span[i])
                      /\ Alike(DecodedParts(span)[i], span[i])
                      /\ \A q \in 1..Len(DecodedParts(span)[i]) : DecodedParts(span)[i][q] # "/"

LEMMA PartsOfSpan ==
    ASSUME NEW path \in Paths, NEW l \in Nat, l = Len(path), NEW from \in 0..l, NEW to \in from..l,
           NEW span, span = SubSeq(path, from + 1, to)
    PROVE  \E S, n : n \in Nat /\ AreParts(span, S, n)
<1> DEFINE S == (UNION {ToSet(c) : c \in ToSet(path)})
                  \cup (UNION {ToSet(Decode(c)) : c \in ToSet(path)}) \cup {"/"}
           parts == DecodedParts(span)
<1>1. /\ path \in Seq(ToSet(path))
      /\ \A c \in ToSet(path) : c \in Seq(ToSet(c)) /\ "/" \notin ToSet(c)
    BY PathsAssumption
<1>2. PICK n \in Nat : n = to - from
    OBVIOUS
<1>3. span \in Seq(ToSet(path)) /\ Len(span) = n
    BY <1>1, <1>2, PartOfPath
<1>4. DOMAIN span = 1..n /\ \A i \in 1..n : span[i] \in ToSet(path)
    BY <1>3, ElementOfSeq
<1>5. ASSUME NEW c \in ToSet(path)
      PROVE  c \in Seq(S) /\ Decode(c) \in Seq(S) /\ Alike(c, Decode(c))
    <2>1. ToSet(c) \subseteq S /\ ToSet(Decode(c)) \subseteq S /\ c \in Seq(ToSet(c))
        BY <1>1, <1>5
    <2> HIDE DEF S
    <2>2. c \in Seq(S)
        BY <2>1, SeqMonotonic
    <2>3. DOMAIN Decode(c) = DOMAIN c /\ Alike(c, Decode(c))
        BY <2>2, DecodeAlike
    <2>4. Decode(c) \in Seq(S)
        <3>1. PICK d, m : d = Decode(c) /\ m = Len(c)
            OBVIOUS
        <3>2. DOMAIN d = 1..m /\ m \in Nat
            BY <2>2, <2>3, <3>1, LenProperties
        <3>3. d = [i \in 1..m |-> d[i]]
            BY <3>1, <3>2 DEF Decode
        <3>4. d \in Seq(S)
            <4>1. \A i \in 1..m : d[i] \in S
                BY <2>1, <3>1, <3>2 DEF ToSet
            <4>2. d \in [1..m -> S]
                BY <3>3, <4>1
            <4>3. QED
                BY <3>2, <4>2, FunctionIsSeq
        <3>5. QED
            BY <3>1, <3>4
    <2>5. QED
        BY <2>2, <2>3, <2>4
<1>6. "/" \in S
    OBVIOUS
<1> HIDE DEF S
<1>7. span \in Seq(Seq(S))
    <2>1. span \in [1..n -> Seq(S)]
        <3>1. span \in [1..n -> ToSet(path)]
            BY <1>3, LenProperties
        <3>2. QED
            BY <1>5, <3>1
    <2>2. QED
        BY <2>1, FunctionIsSeq
<1>8. /\ parts \in Seq(Seq(S)) /\ Len(parts) = n
      /\ \A i \in 1..n : Alike(parts[i], span[i])
    <2>1. \A i \in 1..n : parts[i] = Decode(span[i])
        BY <1>4 DEF DecodedParts
    <2>2. \A i \in 1..n : parts[i] \in Seq(S) /\ Alike(span[i], parts[i])
        BY <1>4, <1>5, <2>1
    <2>3. parts \in [1..n -> Seq(S)]
        <3>1. parts = [i \in 1..n |-> parts[i]]
            BY <1>4 DEF DecodedParts
        <3> HIDE DEF parts
        <3>2. QED
            BY <2>2, <3>1
    <2> HIDE DEF parts
    <2>4. \A x, y : x \in Seq(S) /\ y \in Seq(S) /\ Alike(x, y) => Alike(y, x)
        BY DEF Alike
    <2>5. \A i \in 1..n : span[i] \in Seq(S)
        BY <1>4, <1>5
    <2>6. \A i \in 1..n : Alike(parts[i], span[i])
        BY <2>2, <2>4, <2>5
    <2>7. QED
        BY <2>3, <2>6, FunctionIsSeq
<1>9. ASSUME NEW i \in 1..n, NEW q \in 1..Len(parts[i]) PROVE parts[i][q] # "/"
    <2>1. span[i] \in Seq(S) /\ "/" \notin ToSet(span[i])
        BY <1>1, <1>4, <1>5
    <2> HIDE DEF parts
    <2>2. Len(parts[i]) = Len(span[i]) /\ (parts[i][q] = "/" <=> span[i][q] = "/")
        BY <1>8, <1>9 DEF Alike
    <2>3. q \in DOMAIN span[i]
        <3>1. q \in 1..Len(span[i])
            BY <1>9, <2>2
        <3>2. DOMAIN span[i] = 1..Len(span[i])
            BY <2>1, LenProperties
        <3>3. QED
            BY <3>1, <3>2
    <2>4. span[i][q] # "/"
        BY <2>1, <2>3 DEF ToSet
    <2>5. QED
        BY <2>2, <2>4
<1>10. \A i \in 1..n : parts[i] = Decode(span[i])
    BY <1>4 DEF DecodedParts
<1> HIDE DEF parts
<1>11. AreParts(span, S, n)
    BY <1>3, <1>6, <1>7, <1>8, <1>9, <1>10 DEF AreParts, parts
<1>12. QED
    BY <1>11

\* So joined by slashes they have as many segments.
LEMMA SpanAlike ==
    ASSUME NEW span, NEW S, NEW n, AreParts(span, S, n)
    PROVE  Len(Split(Joined(DecodedParts(span), "/"), "/")) = Len(Split(Joined(span, "/"), "/"))
<1>1. PICK parts : parts = DecodedParts(span)
    OBVIOUS
<1>2. /\ "/" \in S /\ span \in Seq(Seq(S)) /\ parts \in Seq(Seq(S))
      /\ Len(parts) = n /\ Len(span) = n /\ \A i \in 1..n : Alike(parts[i], span[i])
    BY <1>1 DEF AreParts
<1>3. /\ Joined(parts, "/") \in Seq(S) /\ Joined(span, "/") \in Seq(S)
      /\ Alike(Joined(parts, "/"), Joined(span, "/"))
    BY <1>2, JoinedAlike
<1>4. QED
    BY <1>1, <1>3, SplitAlike

\* A request that matches is decoded in full if the name of no field is returned.
LEMMA DecodedValues ==
    ASSUME NEW r, DOMAIN r.captures \subseteq Nat,
           \A k \in DOMAIN r.captures : r.captures[k].field # <<>>,
           NEW path, Match(r, path).malformed = <<>>,
           NEW k \in DOMAIN r.captures, NEW span, span = Span(r.captures[k], path)
    PROVE  Match(r, path).values[k] = Joined(DecodedParts(span), "/")
<1> DEFINE Part(j) == Span(r.captures[j], path)
           bad == {j \in DOMAIN r.captures : \E i \in DOMAIN Part(j) : IsMalformed(Part(j)[i])}
           values == [j \in DOMAIN r.captures |->
                        Joined([i \in DOMAIN Part(j) |-> Decode(Part(j)[i])], "/")]
<1>1. Match(r, path) = IF bad # {}
                       THEN [malformed |-> r.captures[Min(bad)].field, values |-> <<>>]
                       ELSE [malformed |-> <<>>, values |-> values]
    BY DEF Match
<1>2. bad \subseteq Nat /\ bad \subseteq DOMAIN r.captures
    OBVIOUS
<1>3. values[k] = Joined(DecodedParts(span), "/")
    BY DEF DecodedParts
<1> HIDE DEF bad, values
<1>4. bad = {}
    <2> SUFFICES ASSUME bad # {} PROVE FALSE
        OBVIOUS
    <2>1. Match(r, path).malformed = r.captures[Min(bad)].field
        BY <1>1
    <2>2. Min(bad) \in DOMAIN r.captures
        BY <1>2, MinIsLeast
    <2>3. QED
        BY <2>1, <2>2
<1>5. Match(r, path).values = values
    BY <1>1, <1>4
<1>6. QED
    BY <1>3, <1>5

\* A route of the check is compiled from the text of its rule.
LEMMA RulesOfRoutes ==
    ASSUME RouteInv, phase = "check", NEW i \in DOMAIN table, NEW r, r = table[i]
    PROVE  /\ r = Compile(rules[i].method, rules[i].source, Parse(rules[i].text))
           /\ Parse(rules[i].text) # NoTemplate /\ rules[i].text \in Texts
<1>1. /\ r = Compile(rules[i].method, rules[i].source, Parse(rules[i].text))
      /\ Parse(rules[i].text) # NoTemplate
    BY DEF RouteInv, Declared, RouteOf
<1>2. i \in DOMAIN rules /\ rules \in Tables
    <2>1. /\ rules \in Tables /\ Len(table) <= Len(rules) /\ DOMAIN table = 1..Len(table)
          /\ Len(table) \in Nat
        BY DEF RouteInv, Compiled, Declared
    <2>2. DOMAIN rules = 1..Len(rules) /\ Len(rules) \in Nat
        BY <2>1, TableOfRules
    <2>3. QED
        BY <2>1, <2>2
<1>3. rules[i].text \in Texts
    BY <1>2, TableOfRules
<1>4. QED
    BY <1>1, <1>3

\* CapturesKeepShape: whatever the templates and the paths, a variable captures what
\* its own sub-template matches, the rest of the template matching the rest of the
\* path, and decoding changes the number of segments of no captured name.
THEOREM CapturesStayInShape == Spec => []CapturesKeepShape
<1>1. ASSUME RouteInv, phase = "check", NEW i \in DOMAIN table, NEW path \in Paths,
             NEW r, r = table[i], NEW segments, segments = Parse(rules[i].text).segments,
             Matches(r, r.method, path, r.verb), NEW k \in DOMAIN r.captures
      PROVE  /\ \E s \in Variables(segments), from, to \in 0 .. Len(path) :
                    /\ segments[s].field = r.captures[k].field /\ from <= to
                    /\ FallsApart(r, segments, s, path, from, to)
                    /\ MatchPath(r, path)[k] = Joined(SubSeq(path, from + 1, to), "/")
             /\ Match(r, path).malformed = <<>> =>
                    Len(Split(Match(r, path).values[k], "/")) = Len(Split(MatchPath(r, path)[k], "/"))
    <2>1. /\ r = Compile(rules[i].method, rules[i].source, Parse(rules[i].text))
          /\ Parse(rules[i].text) # NoTemplate /\ rules[i].text \in Texts
        BY <1>1, RulesOfRoutes
    <2>2. path \in Seq(ToSet(path))
        BY PathsAssumption
    <2>3. \A j \in DOMAIN r.captures :
             \E s, from, to : IsSpan(r, segments, r.captures[j], path, s, from, to)
        BY <1>1, <2>1, <2>2, CapturesFit
    <2>4. MatchPath(r, path)[k] = Joined(Span(r.captures[k], path), "/")
        BY <1>1 DEF MatchPath
    <2>5. DOMAIN r.captures \subseteq Nat
        <3>1. Parse(rules[i].text).segments \in Seq(Parts)
            BY <2>1, ParsedTemplate
        <3>2. r.captures = Captures(Parse(rules[i].text).segments)
            BY <2>1 DEF Compile
        <3>3. QED
            BY <3>1, <3>2, CapturesOfVariables
    <2>6. \A j \in DOMAIN r.captures : r.captures[j].field # <<>>
        BY <2>3 DEF IsSpan, Variables
    <2>7. PICK s, from, to : IsSpan(r, segments, r.captures[k], path, s, from, to)
        BY <1>1, <2>3
    <2>8. ASSUME Match(r, path).malformed = <<>>
           PROVE  Len(Split(Match(r, path).values[k], "/")) = Len(Split(MatchPath(r, path)[k], "/"))
        <3>1. PICK span : span = Span(r.captures[k], path)
            OBVIOUS
        <3>2. Match(r, path).values[k] = Joined(DecodedParts(span), "/")
            BY <1>1, <2>5, <2>6, <2>8, <3>1, DecodedValues
        <3>3. PICK l \in Nat : l = Len(path)
            BY <2>2, LenProperties
        <3>4. from \in 0..l /\ to \in from..l /\ span = SubSeq(path, from + 1, to)
            BY <2>7, <3>1, <3>3 DEF IsSpan
        <3>5. PICK S, n : AreParts(span, S, n)
            BY <1>1, <3>3, <3>4, PartsOfSpan
        <3>6. Len(Split(Joined(DecodedParts(span), "/"), "/")) = Len(Split(Joined(span, "/"), "/"))
            BY <3>5, SpanAlike
        <3>7. QED
            BY <2>4, <3>1, <3>2, <3>6
    <2>9. QED
        BY <2>4, <2>7, <2>8 DEF IsSpan
<1>2. RouteInv => CapturesKeepShape
    BY <1>1 DEF CapturesKeepShape
<1>3. TableInv => CapturesKeepShape
    BY <1>2 DEF TableInv
<1>4. QED
    BY <1>3, TableInvariant, PTL

-----------------------------------------------------------------------------
\* What the names of a pattern are

\* A pattern that was read is a list of literals and variables, the last of which
\* may be a "**".
HasShape(p, m) ==
    /\ m \in Nat /\ m # 0 /\ p = [i \in 1..m |-> p[i]]
    /\ \A i \in 1..m : p[i].multi => i = m /\ p[i].var # NoVar

\* ParsePattern makes no other.
LEMMA PatternHasShape ==
    ASSUME NEW S, NEW text \in Seq(S), ParsePattern(text) # NoPattern
    PROVE  \E m : HasShape(ParsePattern(text), m)
<1>1. PICK cuts : cuts = {i \in DOMAIN text : text[i] = "/"}
    OBVIOUS
<1>2. IsFiniteSet(cuts)
    <2>1. DOMAIN text = 1..Len(text) /\ Len(text) \in Nat
        OBVIOUS
    <2>2. IsFiniteSet(1..Len(text)) /\ cuts \subseteq 1..Len(text)
        BY <1>1, <2>1, FS_Interval
    <2>3. QED
        BY <2>2, FS_Subset
<1>3. PICK m \in Nat : m = Cardinality(cuts) + 1 /\ m # 0
    <2>1. Cardinality(cuts) \in Nat
        BY <1>2, FS_CardinalityType
    <2>2. QED
        BY <2>1
<1>4. PICK parts : parts = Split(text, "/")
    OBVIOUS
<1>5. DOMAIN parts = 1..m /\ Len(parts) = m
    <2>1. parts = Pieces(text, cuts)
        BY <1>1, <1>4 DEF Split
    <2>2. QED
        BY <1>3, <2>1 DEF Pieces
<1>6. PICK p : p = [i \in DOMAIN parts |-> PatternSegment(parts[i])]
    OBVIOUS
<1>7. /\ ParsePattern(text) = p
      /\ \A i \in 1..m : IsWellFormed(parts[i])
      /\ \A i \in 1..(m - 1) : ~p[i].multi
    BY <1>4, <1>5, <1>6 DEF ParsePattern
<1>8. ASSUME NEW i \in 1..m, p[i].multi PROVE i = m /\ p[i].var # NoVar
    <2>1. i \notin 1..(m - 1)
        BY <1>7, <1>8
    <2>2. i = m
        BY <2>1
    <2>3. p[i] = PatternSegment(parts[i])
        BY <1>5, <1>6
    <2>4. IsBraced(parts[i]) /\ p[i].var = Named(parts[i])[1]
        BY <1>8, <2>3 DEF PatternSegment, Literal, Var
    <2>5. p[i].var # NoVar
        BY <1>7, <2>4 DEF IsWellFormed, NoVar
    <2>6. QED
        BY <2>2, <2>5
<1>9. p = [i \in 1..m |-> p[i]]
    BY <1>5, <1>6
<1>10. HasShape(p, m)
    BY <1>3, <1>8, <1>9 DEF HasShape
<1>11. QED
    BY <1>7, <1>10

\* The patterns of the resources that were registered have a shape.
Registered ==
    \A type \in DOMAIN resources : \A p \in ToSet(resources[type]) : \E m : HasShape(p, m)

\* A resource adds the patterns of it that can be read.
LEMMA RegisterKeeps ==
    ASSUME Registered, NEW res, Register(res),
           res.patterns \in Seq(ToSet(res.patterns)),
           \A text \in ToSet(res.patterns) : text \in Seq(ToSet(text))
    PROVE  Registered'
<1>1. CASE UNCHANGED resources
    BY <1>1 DEF Registered
<1>2. CASE ~(UNCHANGED resources)
    <2> DEFINE parsed == [n \in DOMAIN res.patterns |-> ParsePattern(res.patterns[n])]
               kept   == {n \in DOMAIN parsed : parsed[n] # NoPattern}
               added  == [n \in 1 .. Cardinality(kept) |-> parsed[InOrder(kept)[n]]]
    <2>1. resources' = [type \in DOMAIN resources \cup {res.type} |->
                          IF type = res.type THEN added ELSE resources[type]]
        BY <1>2 DEF Register
    <2>2. DOMAIN res.patterns = 1..Len(res.patterns) /\ Len(res.patterns) \in Nat
        BY LenProperties
    <2>3. IsFiniteSet(kept) /\ kept \subseteq Int
        <3>1. kept \subseteq 1..Len(res.patterns)
            BY <2>2
        <3>2. IsFiniteSet(1..Len(res.patterns)) /\ 1..Len(res.patterns) \subseteq Int
            BY <2>2, FS_Interval
        <3> HIDE DEF kept
        <3>3. QED
            BY <3>1, <3>2, FS_Subset
    <2>4. \A n \in kept : \E m : HasShape(parsed[n], m)
        <3> SUFFICES ASSUME NEW n \in kept PROVE \E m : HasShape(parsed[n], m)
            OBVIOUS
        <3>1. parsed[n] = ParsePattern(res.patterns[n]) /\ parsed[n] # NoPattern
            OBVIOUS
        <3>2. res.patterns[n] \in ToSet(res.patterns)
            BY DEF ToSet
        <3>3. res.patterns[n] \in Seq(ToSet(res.patterns[n]))
            BY <3>2
        <3> HIDE DEF parsed, kept
        <3>4. QED
            BY <3>1, <3>3, PatternHasShape
    <2> HIDE DEF parsed, kept
    <2>5. IsListing(InOrder(kept), kept)
        BY <2>3, LessListed DEF InOrder
    <2>6. \A p \in ToSet(added) : \E m : HasShape(p, m)
        <3> SUFFICES ASSUME NEW p \in ToSet(added) PROVE \E m : HasShape(p, m)
            OBVIOUS
        <3>1. PICK n \in 1 .. Cardinality(kept) : p = parsed[InOrder(kept)[n]]
            BY DEF ToSet
        <3>2. InOrder(kept)[n] \in kept
            BY <2>5 DEF IsListing
        <3>3. QED
            BY <2>4, <3>1, <3>2
    <2> HIDE DEF added
    <2>7. ASSUME NEW type \in DOMAIN resources'
          PROVE  \/ type \in DOMAIN resources /\ resources'[type] = resources[type]
                 \/ resources'[type] = added
        BY <2>1, <2>7
    <2>8. QED
        BY <2>6, <2>7 DEF Registered
<1>3. QED
    BY <1>1, <1>2

\* And every step keeps them.
LEMMA RegisteredInvariant == Spec => []Registered
<1>1. Init => Registered
    BY DEF Init, Registered
<1>2. RouteInv /\ Registered /\ [Next]_vars => Registered'
    <2> SUFFICES ASSUME RouteInv, Registered, [Next]_vars PROVE Registered'
        OBVIOUS
    <2>1. CASE AddRoute \/ Malformed
        <3>1. Register(Rule.resource) /\ phase = "parse"
            BY <2>1 DEF AddRoute, Malformed
        <3>2. Rule \in ToSet(rules) /\ rules \in Tables
            <4>1. rules \in Tables /\ table \in Seq(RoutesOf(rules)) /\ Len(table) < Len(rules)
                BY <3>1 DEF RouteInv, Compiled, Growing
            <4>2. PICK n \in Nat, k \in Nat : n = Len(table) /\ k = Len(rules) /\ DOMAIN rules = 1..k
                BY <4>1, TableOfRules
            <4>3. n + 1 \in 1..k
                BY <4>1, <4>2
            <4>4. QED
                BY <4>1, <4>2, <4>3 DEF Rule, ToSet
        <3>3. /\ Rule.resource.patterns \in Seq(ToSet(Rule.resource.patterns))
              /\ \A text \in ToSet(Rule.resource.patterns) : text \in Seq(ToSet(text))
            BY <3>2, TablesAssumption
        <3>4. QED
            BY <3>1, <3>3, RegisterKeeps
    <2>2. CASE Refuse \/ Accept \/ Swap \/ Placed \/ Emit
        BY <2>2 DEF Refuse, Accept, Swap, Placed, Emit, naming, Registered
    <2>3. CASE Done \/ UNCHANGED vars
        BY <2>3 DEF Done, vars, Registered
    <2>4. QED
        BY <2>1, <2>2, <2>3 DEF Next
<1>3. TableInv => RouteInv
    BY DEF TableInv
<1>4. QED
    BY <1>1, <1>2, <1>3, TableInvariant, PTL DEF Spec

\* What the literals of a pattern are where the two matchers agree.
PlainLiterals(p) ==
    \A n \in DOMAIN p : p[n].var = NoVar =>
        IsContent(p[n].literal) /\ Decode(p[n].literal) = p[n].literal

\* A span with the parts of a pattern.
FitsPattern(p, m, span, n) ==
    /\ IF p[m].multi THEN n >= m - 1 ELSE n = m
    /\ \A i \in 1..m : ~p[i].multi =>
          IF p[i].var = NoVar THEN span[i] = p[i].literal ELSE span[i] # <<>>

\* What a shape says of the parts of a pattern.
LEMMA PlacesOfShape ==
    ASSUME NEW p, NEW m, HasShape(p, m)
    PROVE  /\ DOMAIN p = 1..m /\ Len(p) = m /\ m \in 1..m
           /\ FixedPart(p) = (IF p[m].multi THEN m - 1 ELSE m)
           /\ \A i : i \in 1..FixedPart(p) <=> i \in 1..m /\ ~p[i].multi
<1>1. /\ m \in Nat /\ m # 0 /\ p = [i \in 1..m |-> p[i]]
      /\ \A i \in 1..m : p[i].multi => i = m /\ p[i].var # NoVar
    BY DEF HasShape
<1>2. DOMAIN p = 1..m /\ Len(p) = m /\ m \in 1..m
    BY <1>1
<1>3. FixedPart(p) = (IF p[m].multi THEN m - 1 ELSE m)
    BY <1>2 DEF FixedPart
<1>4. ASSUME NEW i PROVE i \in 1..FixedPart(p) <=> i \in 1..m /\ ~p[i].multi
    <2>1. CASE p[m].multi
        <3>1. FixedPart(p) = m - 1
            BY <1>3, <2>1
        <3>2. i \in 1..(m - 1) <=> i \in 1..m /\ i # m
            BY <1>1
        <3>3. QED
            BY <1>1, <2>1, <3>1, <3>2
    <2>2. CASE ~p[m].multi
        <3>1. FixedPart(p) = m
            BY <1>3, <2>2
        <3>2. QED
            BY <1>1, <2>2, <3>1
    <2>3. QED
        BY <2>1, <2>2
<1>5. QED
    BY <1>2, <1>3, <1>4

\* Content is no wildcard.
LEMMA ContentIsLiteral ==
    ASSUME NEW text, IsContent(text) PROVE text \notin {Single, Multi}
<1>1. "*" \notin Content
    BY CharactersAssumption DEF Content, Reserved
<1>2. "*" \in ToSet(Single) /\ "*" \in ToSet(Multi)
    BY DEF Single, Multi, ToSet
<1>3. QED
    BY <1>1, <1>2 DEF IsContent

\* A span that the sub-template of a pattern matches has the parts of the pattern.
LEMMA SubFitsPattern ==
    ASSUME NEW p, NEW m, HasShape(p, m), PlainLiterals(p),
           NEW q, q.segs = SubOf(p), NEW method, NEW verb, NEW span, NEW n, n = Len(span),
           Matches(q, method, span, verb)
    PROVE  FitsPattern(p, m, span, n)
<1>1. /\ DOMAIN p = 1..m /\ m \in 1..m /\ m \in Nat /\ m # 0
      /\ \A i \in 1..m : p[i].multi => i = m /\ p[i].var # NoVar
    BY PlacesOfShape DEF HasShape
<1>2. PICK sub : sub = SubOf(p)
    OBVIOUS
<1>3. Len(sub) = m
    BY <1>1, <1>2 DEF SubOf
<1>4. ASSUME NEW i \in 1..m
      PROVE  /\ p[i].multi => sub[i] = Multi
             /\ ~p[i].multi /\ p[i].var = NoVar => sub[i] = p[i].literal /\ IsLiteral(sub[i])
             /\ ~p[i].multi /\ p[i].var # NoVar => sub[i] = Single
             /\ sub[i] = Multi => p[i].multi
    <2>1. sub[i] = CASE p[i].multi -> Multi
                     [] p[i].var = NoVar -> p[i].literal
                     [] OTHER -> Single
        BY <1>1, <1>2 DEF SubOf
    <2>2. CASE p[i].multi
        <3>1. p[i].var # NoVar
            BY <1>1, <2>2
        <3>2. QED
            BY <2>1, <2>2, <3>1
    <2>3. CASE ~p[i].multi /\ p[i].var = NoVar
        <3>1. sub[i] = p[i].literal
            BY <2>1, <2>3
        <3>2. p[i].literal \notin {Single, Multi}
            BY <1>1, <2>3, ContentIsLiteral DEF PlainLiterals
        <3>3. QED
            BY <2>3, <3>1, <3>2 DEF IsLiteral
    <2>4. CASE ~p[i].multi /\ p[i].var # NoVar
        <3>1. sub[i] = Single
            BY <2>1, <2>4
        <3>2. QED
            BY <2>4, <3>1, Kinds
    <2>5. QED
        BY <2>2, <2>3, <2>4
<1>5. HasMulti(q) <=> p[m].multi
    <2>1. Len(q.segs) > 0 /\ q.segs[Len(q.segs)] = sub[m]
        BY <1>1, <1>2, <1>3
    <2>2. QED
        BY <1>1, <1>4, <2>1 DEF HasMulti
<1>6. Fixed(q) = IF p[m].multi THEN m - 1 ELSE m
    BY <1>2, <1>3, <1>5 DEF Fixed
<1>7. /\ IF p[m].multi THEN n >= m - 1 ELSE n = m
      /\ \A i \in 1..Fixed(q) : SegmentMatches(sub[i], span[i])
    <2>1. /\ IF HasMulti(q) THEN Len(span) >= Fixed(q) ELSE Len(span) = Fixed(q)
          /\ \A i \in 1..Fixed(q) : SegmentMatches(q.segs[i], span[i])
        BY DEF Matches
    <2>2. QED
        BY <1>2, <1>5, <1>6, <2>1
<1>8. ASSUME NEW i \in 1..m, ~p[i].multi
      PROVE  IF p[i].var = NoVar THEN span[i] = p[i].literal ELSE span[i] # <<>>
    <2>1. i \in 1..Fixed(q)
        <3>1. Fixed(q) = FixedPart(p)
            BY <1>6, PlacesOfShape
        <3>2. QED
            BY <1>8, <3>1, PlacesOfShape
    <2>2. SegmentMatches(sub[i], span[i])
        BY <1>7, <2>1
    <2>3. QED
        BY <1>4, <1>8, <2>2 DEF SegmentMatches
<1>9. QED
    BY <1>7, <1>8 DEF FitsPattern

\* Nothing is one empty component.
LEMMA SplitNothing == Split(<<>>, "/") = <<<<>>>>
<1>1. PICK cuts : cuts = {i \in DOMAIN <<>> : <<>>[i] = "/"}
    OBVIOUS
<1>2. cuts = {}
    BY <1>1
<1>3. Cardinality(cuts) = 0
    BY <1>2, FS_EmptySet
<1>4. InOrder(cuts) = <<>>
    BY <1>3 DEF InOrder
<1>5. Split(<<>>, "/") = Pieces(<<>>, cuts)
    BY <1>1 DEF Split
<1>6. PICK ends : ends = <<0>> \o InOrder(cuts) \o <<Len(<<>>) + 1>>
    OBVIOUS
<1>7. ends[1] = 0 /\ ends[2] = 1
    <2>1. PICK e, last : e = InOrder(cuts) /\ last = Len(<<>>) + 1
        OBVIOUS
    <2>2. e \in [1..0 -> Int] /\ last \in Int /\ last = 1 /\ 0 \in Nat
        BY <1>4, <2>1
    <2>3. IsFramed(ends, e, 0, last)
        BY <1>6, <2>1, <2>2, Framed
    <2>4. QED
        BY <2>2, <2>3 DEF IsFramed
<1>8. Pieces(<<>>, cuts) = [k \in 1..1 |-> SubSeq(<<>>, ends[k] + 1, ends[k + 1] - 1)]
    BY <1>3, <1>6 DEF Pieces
<1>9. SubSeq(<<>>, 1, 0) = <<>>
    OBVIOUS
<1>10. Pieces(<<>>, cuts) = [k \in 1..1 |-> <<>>]
    BY <1>7, <1>8, <1>9
<1>11. QED
    BY <1>5, <1>10

\* A name that was decoded falls into its decoded components; if there are none, it
\* is one that is empty.
LEMMA NameSplits ==
    ASSUME NEW span, NEW S, NEW n \in Nat, AreParts(span, S, n),
           NEW ids, ids = Split(Joined(DecodedParts(span), "/"), "/")
    PROVE  /\ span = <<>> => ids = <<<<>>>>
           /\ span # <<>> => ids = DecodedParts(span)
<1>1. PICK parts : parts = DecodedParts(span)
    OBVIOUS
<1>2. /\ "/" \in S /\ span \in Seq(Seq(S)) /\ Len(span) = n
      /\ parts \in Seq(Seq(S)) /\ Len(parts) = n
      /\ \A i \in 1..n : \A q \in 1..Len(parts[i]) : parts[i][q] # "/"
    BY <1>1 DEF AreParts
<1>3. CASE span = <<>>
    <2>1. parts = <<>>
        BY <1>2, <1>3, EmptySeq
    <2>2. Joined(parts, "/") = <<>>
        BY <2>1 DEF Joined
    <2>3. QED
        BY <1>1, <1>3, <2>2, SplitNothing
<1>4. CASE span # <<>>
    <2>1. parts # <<>>
        BY <1>2, <1>4, EmptySeq
    <2>2. Split(Joined(parts, "/"), "/") = parts
        BY <1>2, <2>1, SplitJoined
    <2>3. QED
        BY <1>1, <1>4, <2>2
<1>5. QED
    BY <1>3, <1>4

\* A pattern matches the names of its shape that have no empty component.
LEMMA NamesMatchSpans ==
    ASSUME NEW p, NEW m, HasShape(p, m), PlainLiterals(p),
           NEW span, NEW S, NEW n \in Nat, AreParts(span, S, n), FitsPattern(p, m, span, n),
           NEW ids, ids = Split(Joined(DecodedParts(span), "/"), "/")
    PROVE  NameMatches(p, ids) <=> (span # <<>> /\ <<>> \notin ToSet(span))
<1>1. CASE span = <<>>
    <2>1. ids = <<<<>>>>
        BY <1>1, NameSplits
    <2>2. 1 \in DOMAIN ids /\ ids[1] = <<>>
        BY <2>1
    <2>3. QED
        BY <1>1, <2>2 DEF NameMatches
<1>2. CASE span # <<>>
    <2>1. ids = DecodedParts(span)
        BY <1>2, NameSplits
    <2>2. /\ span \in Seq(Seq(S)) /\ Len(span) = n /\ ids \in Seq(Seq(S)) /\ Len(ids) = n
          /\ \A i \in 1..n : ids[i] = Decode(span[i]) /\ Alike(ids[i], span[i])
        BY <2>1 DEF AreParts
    <2>3. /\ DOMAIN span = 1..n /\ DOMAIN ids = 1..n
          /\ \A i \in 1..n : span[i] \in Seq(S) /\ ids[i] \in Seq(S)
        BY <2>2, LenProperties, ElementOfSeq
    <2>4. ASSUME NEW i \in 1..n PROVE ids[i] = <<>> <=> span[i] = <<>>
        <3>1. Len(ids[i]) = Len(span[i])
            BY <2>2 DEF Alike
        <3>2. ids[i] \in Seq(S) /\ span[i] \in Seq(S)
            BY <2>3
        <3>3. QED
            BY <3>1, <3>2, EmptySeq
    <2>5. (\A i \in DOMAIN ids : ids[i] # <<>>) <=> <<>> \notin ToSet(span)
        BY <2>3, <2>4 DEF ToSet
    <2>6. /\ DOMAIN p = 1..m /\ Len(p) = m
          /\ FixedPart(p) = (IF p[m].multi THEN m - 1 ELSE m)
          /\ \A i : i \in 1..FixedPart(p) <=> i \in 1..m /\ ~p[i].multi
          /\ m \in Nat
        BY PlacesOfShape DEF HasShape
    <2>7. /\ IF p[m].multi THEN n >= m - 1 ELSE n = m
          /\ \A i \in 1..m : ~p[i].multi =>
                IF p[i].var = NoVar THEN span[i] = p[i].literal ELSE span[i] # <<>>
        BY DEF FitsPattern
    <2>8. IF p[Len(p)].multi THEN Len(ids) >= FixedPart(p) ELSE Len(ids) = FixedPart(p)
        BY <2>2, <2>6, <2>7
    <2>9. ASSUME NEW i \in 1..FixedPart(p), p[i].var = NoVar PROVE ids[i] = p[i].literal
        <3>1. i \in 1..m /\ ~p[i].multi
            BY <2>6
        <3>2. span[i] = p[i].literal /\ Decode(p[i].literal) = p[i].literal
            BY <2>6, <2>7, <2>9, <3>1 DEF PlainLiterals
        <3>3. i \in 1..n
            <4>1. CASE p[m].multi
                <5>1. FixedPart(p) = m - 1 /\ n >= m - 1
                    BY <2>6, <2>7, <4>1
                <5>2. QED
                    BY <2>6, <5>1
            <4>2. CASE ~p[m].multi
                BY <2>7, <3>1, <4>2
            <4>3. QED
                BY <4>1, <4>2
        <3>4. QED
            BY <2>2, <3>2, <3>3
    <2>10. QED
        BY <1>2, <2>5, <2>8, <2>9 DEF NameMatches
<1>3. QED
    BY <1>1, <1>2

\* A variable of a name of its own is bound to what stands in its place.
LastOf(p, v) == CHOOSE i \in DOMAIN p : p[i].var = v /\ \A j \in i + 1 .. Len(p) : p[j].var # v

LEMMA BoundAtPlace ==
    ASSUME NEW p, NEW m, HasShape(p, m), VarsAreApart(p), NEW ids,
           NEW i \in 1..m, p[i].var # NoVar
    PROVE  Bound(p, ids)[p[i].var] =
               IF p[i].multi THEN Joined(SubSeq(ids, i, Len(ids)), "/") ELSE ids[i]
<1>1. DOMAIN p = 1..m /\ Len(p) = m /\ m \in Nat
    BY PlacesOfShape DEF HasShape
<1>2. PICK v \in Vars(p) : v = p[i].var
    BY <1>1 DEF Vars
<1>3. \A j \in 1..m : p[j].var = v => j = i
    BY <1>1, <1>2 DEF VarsAreApart
<1>4. \A j \in (i + 1)..m : j \in 1..m /\ j # i
    OBVIOUS
<1>5. LastOf(p, v) = i
    <2>1. i \in DOMAIN p /\ p[i].var = v /\ \A j \in i + 1 .. Len(p) : p[j].var # v
        BY <1>1, <1>2, <1>3, <1>4
    <2>2. \A k \in DOMAIN p : p[k].var = v => k = i
        BY <1>1, <1>3
    <2>3. QED
        BY <2>1, <2>2 DEF LastOf
<1>6. Bound(p, ids) =
        [w \in Vars(p) |-> IF p[LastOf(p, w)].multi THEN Joined(SubSeq(ids, LastOf(p, w), Len(ids)), "/")
                           ELSE ids[LastOf(p, w)]]
    BY DEF Bound, LastOf
<1>7. QED
    BY <1>2, <1>5, <1>6

\* A list is what stands at its places.
LEMMA ListIsFunction ==
    ASSUME NEW S, NEW list \in Seq(S), NEW n \in Nat, n = Len(list)
    PROVE  list = [i \in 1..n |-> list[i]]
OBVIOUS

\* The bindings of a name make that name.
LEMMA BindingsMakeName ==
    ASSUME NEW p, NEW m, HasShape(p, m), VarsAreApart(p),
           NEW S, "/" \in S, NEW ids \in Seq(Seq(S)), NEW n \in Nat, n = Len(ids), n # 0,
           NameMatches(p, ids)
    PROVE  NameOf(p, Bound(p, ids)) = Joined(ids, "/")
<1>1. /\ DOMAIN p = 1..m /\ Len(p) = m /\ m \in 1..m /\ m \in Nat /\ m # 0
      /\ FixedPart(p) = (IF p[m].multi THEN m - 1 ELSE m)
      /\ \A i : i \in 1..FixedPart(p) <=> i \in 1..m /\ ~p[i].multi
      /\ \A i \in 1..m : p[i].multi => i = m /\ p[i].var # NoVar
    BY PlacesOfShape DEF HasShape
<1>2. /\ IF p[m].multi THEN n >= m - 1 ELSE n = m
      /\ \A i \in 1..n : ids[i] # <<>>
      /\ \A i \in 1..m : ~p[i].multi /\ p[i].var = NoVar => ids[i] = p[i].literal
    <2>1. DOMAIN ids = 1..n
        BY LenProperties
    <2>2. QED
        BY <1>1, <2>1 DEF NameMatches
<1>3. PICK parts : parts = [i \in DOMAIN p |-> IF p[i].var = NoVar THEN p[i].literal
                                               ELSE Bound(p, ids)[p[i].var]]
    OBVIOUS
<1>4. parts = [i \in 1..m |-> parts[i]] /\ Len(parts) = m /\ DOMAIN parts = 1..m
    BY <1>1, <1>3
<1>5. NameOf(p, Bound(p, ids)) =
        Joined(IF parts[m] = <<>> THEN SubSeq(parts, 1, m - 1) ELSE parts, "/")
    BY <1>3, <1>4 DEF NameOf
<1>6. ASSUME NEW i \in 1..m
      PROVE  parts[i] = IF p[i].multi THEN Joined(SubSeq(ids, i, n), "/") ELSE ids[i]
    <2>1. CASE p[i].var = NoVar
        BY <1>1, <1>2, <1>3, <2>1
    <2>2. CASE p[i].var # NoVar
        BY <1>1, <1>3, <2>2, BoundAtPlace
    <2>3. QED
        BY <2>1, <2>2
<1>7. \A i \in 1..n : ids[i] \in Seq(S)
    BY ElementOfSeq
<1>8. CASE ~p[m].multi
    <2>1. n = m /\ \A i \in 1..m : parts[i] = ids[i]
        BY <1>1, <1>2, <1>6, <1>8
    <2>2. parts = ids
        <3>1. ids = [i \in 1..m |-> ids[i]]
            BY <2>1, ListIsFunction
        <3>2. QED
            BY <1>4, <2>1, <3>1
    <2>3. parts[m] # <<>>
        BY <1>1, <1>2, <2>1
    <2>4. QED
        BY <1>5, <2>2, <2>3
<1>9. CASE p[m].multi
    <2>1. PICK a \in Nat : a = m - 1 /\ m = a + 1
        BY <1>1
    <2>2. /\ n >= a /\ parts[a + 1] = Joined(SubSeq(ids, a + 1, n), "/")
          /\ \A i \in 1..a : parts[i] = ids[i] /\ i \in 1..n
        <3>1. n >= a
            BY <1>2, <1>9, <2>1
        <3>2. \A i \in 1..a : i \in 1..n /\ i \in 1..m /\ i # m
            BY <2>1, <3>1
        <3>3. \A i \in 1..a : parts[i] = ids[i]
            BY <1>1, <1>6, <3>2
        <3>4. QED
            BY <1>1, <1>6, <1>9, <2>1, <3>1, <3>2, <3>3
    <2>3. CASE n = a
        <3>1. SubSeq(ids, a + 1, n) = <<>>
            BY <2>3
        <3>2. parts[m] = <<>>
            BY <2>1, <2>2, <3>1 DEF Joined
        <3>3. SubSeq(parts, 1, m - 1) = ids
            <4>1. SubSeq(parts, 1, a) = [i \in 1..a |-> parts[i]]
                BY <1>4, <2>1
            <4>2. [i \in 1..a |-> parts[i]] = [i \in 1..a |-> ids[i]]
                BY <2>2
            <4>3. ids = [i \in 1..a |-> ids[i]]
                BY <2>3, ListIsFunction
            <4>4. QED
                BY <2>1, <4>1, <4>2, <4>3
        <3>4. QED
            BY <1>5, <3>2, <3>3
    <2>4. CASE n # a
        <3>1. PICK k \in Nat : k # 0 /\ n = a + k
            <4>1. n - a \in Nat /\ n - a # 0 /\ n = a + (n - a)
                BY <2>2, <2>4
            <4>2. QED
                BY <4>1
        <3>2. PICK rest : rest = SubSeq(ids, a + 1, n)
            OBVIOUS
        <3>3. /\ rest \in Seq(Seq(S)) /\ Len(rest) = k
              /\ \A i \in 1..k : rest[i] = ids[a + i] /\ a + i \in 1..n
            <4>1. a \in 0..n /\ n \in a..n /\ n - a = k /\ \A i \in 1..k : a + i \in 1..n
                BY <3>1
            <4>2. QED
                BY <3>2, <4>1, PartOfPath
        <3>4. rest # <<>> /\ \A i \in 1..k : rest[i] # <<>>
            <4>1. \A i \in 1..k : rest[i] # <<>>
                BY <1>2, <3>3
            <4>2. QED
                BY <3>1, <3>3, <4>1, EmptySeq
        <3>5. Joined(rest, "/") \in Seq(S) /\ Joined(rest, "/") # <<>>
            BY <3>3, <3>4, JoinedIsSomething
        <3>6. parts[m] = Joined(rest, "/")
            BY <2>1, <2>2, <3>2
        <3>7. parts \in Seq(Seq(S))
            <4>1. \A i \in 1..m : i \in 1..a \/ i = m
                BY <2>1
            <4>2. \A i \in 1..m : parts[i] \in Seq(S)
                BY <1>7, <2>2, <3>5, <3>6, <4>1
            <4>3. parts \in [1..m -> Seq(S)]
                BY <1>4, <4>2
            <4>4. QED
                BY <1>1, <4>3, FunctionIsSeq
        <3>8. Joined(parts, "/") = Joined(ids, "/")
            <4>1. Len(ids) = a + k /\ Len(parts) = a + 1 /\ parts[a + 1] = Joined(rest, "/")
                BY <1>4, <2>1, <3>1, <3>6
            <4>2. rest = SubSeq(ids, a + 1, Len(ids)) /\ \A i \in 1..a : parts[i] = ids[i]
                BY <2>2, <3>2
            <4>3. QED
                BY <3>1, <3>7, <4>1, <4>2, JoinedTwice, ZenonT(30)
        <3>9. QED
            BY <1>5, <3>5, <3>6, <3>8
    <2>5. QED
        BY <2>3, <2>4
<1>10. QED
    BY <1>8, <1>9

\* A pattern and a route agree on a captured name.
AgreeOn(p, span, name) ==
    LET ids == Split(name, "/")
    IN  /\ NameMatches(p, ids) <=> (span # <<>> /\ <<>> \notin ToSet(span))
        /\ (NameMatches(p, ids) /\ VarsAreApart(p)) => NameOf(p, Bound(p, ids)) = name

\* NamesAgree: whatever the patterns, the templates and the paths, a name that is
\* captured through the shape of a pattern, and decoded, is matched by the pattern
\* unless it is nothing or has an empty component, and its bindings make that name.
THEOREM CapturedNamesAgree == Spec => []NamesAgree
<1>1. ASSUME RouteInv, Registered, phase = "check", NEW i \in DOMAIN table,
             NEW r, r = table[i], NEW segments, segments = Parse(rules[i].text).segments,
             NEW type \in DOMAIN resources, NEW p \in ToSet(resources[type]),
             NEW k \in DOMAIN r.captures, PlainLiterals(p),
             NEW s \in Variables(segments), segments[s].field = r.captures[k].field,
             segments[s].sub = SubOf(p),
             NEW path \in Paths, Matches(r, r.method, path, r.verb),
             Match(r, path).malformed = <<>>
      PROVE  AgreeOn(p, Span(r.captures[k], path), Match(r, path).values[k])
    <2>0. PICK span, name, ids : /\ span = Span(r.captures[k], path)
                                 /\ name = Match(r, path).values[k] /\ ids = Split(name, "/")
        OBVIOUS
    <2>1. PICK m : HasShape(p, m)
        BY <1>1 DEF Registered
    <2>2. /\ r = Compile(rules[i].method, rules[i].source, Parse(rules[i].text))
          /\ Parse(rules[i].text) # NoTemplate /\ rules[i].text \in Texts
        BY <1>1, RulesOfRoutes
    <2>3. segments \in Seq(Parts) /\ IsValid(segments)
        BY <1>1, <2>2, ParsedTemplate
    <2>4. path \in Seq(ToSet(path))
        BY PathsAssumption
    <2>5. \A j \in DOMAIN r.captures :
             \E v, from, to : IsSpan(r, segments, r.captures[j], path, v, from, to)
        BY <1>1, <2>2, <2>4, CapturesFit
    <2>6. PICK v, from, to : IsSpan(r, segments, r.captures[k], path, v, from, to)
        BY <1>1, <2>5
    <2>7. v = s
        BY <1>1, <2>3, <2>6 DEF IsSpan, IsValid
    <2>8. Matches([r EXCEPT !.segs = SubOf(p)], r.method, span, r.verb)
        <3>1. PICK n \in Nat : n = Len(segments) /\ s \in 1..n
            BY <1>1, <2>3 DEF Variables
        <3>2. Flat(SubSeq(segments, s, s)) = SubOf(p)
            BY <1>1, <2>3, <3>1, FlatSplits
        <3>3. FallsApart(r, segments, s, path, from, to) /\ span = SubSeq(path, from + 1, to)
            BY <2>0, <2>6, <2>7 DEF IsSpan
        <3>4. Matches([r EXCEPT !.segs = Flat(SubSeq(segments, s, s))], r.method, span, r.verb)
            BY <3>3 DEF FallsApart
        <3>5. QED
            BY <3>2, <3>4
    <2>9. PICK q : q = [r EXCEPT !.segs = SubOf(p)]
        OBVIOUS
    <2>10. q.segs = SubOf(p)
        BY <2>2, <2>9 DEF Compile
    <2>11. PICK S, n : n \in Nat /\ AreParts(span, S, n)
        <3>1. PICK l \in Nat : l = Len(path)
            BY <2>4, LenProperties
        <3>2. from \in 0..l /\ to \in from..l /\ span = SubSeq(path, from + 1, to)
            BY <2>0, <2>6, <3>1 DEF IsSpan
        <3>3. QED
            BY <1>1, <3>1, <3>2, PartsOfSpan
    <2>12. n = Len(span)
        BY <2>11 DEF AreParts
    <2>13. FitsPattern(p, m, span, n)
        BY <1>1, <2>1, <2>8, <2>9, <2>10, <2>12, SubFitsPattern
    <2>14. name = Joined(DecodedParts(span), "/")
        <3>1. DOMAIN r.captures \subseteq Nat
            BY <2>2, <2>3, <1>1, CapturesOfVariables DEF Compile
        <3>2. \A j \in DOMAIN r.captures : r.captures[j].field # <<>>
            BY <2>5 DEF IsSpan, Variables
        <3>3. QED
            BY <1>1, <2>0, <3>1, <3>2, DecodedValues
    <2>15. NameMatches(p, ids) <=> (span # <<>> /\ <<>> \notin ToSet(span))
        BY <1>1, <2>0, <2>1, <2>11, <2>13, <2>14, NamesMatchSpans
    <2>16. ASSUME NameMatches(p, ids), VarsAreApart(p)
           PROVE  NameOf(p, Bound(p, ids)) = name
        <3>1. span # <<>>
            BY <2>15, <2>16
        <3>2. ids = DecodedParts(span)
            BY <2>0, <2>11, <2>14, <3>1, NameSplits
        <3>3. "/" \in S /\ ids \in Seq(Seq(S)) /\ n = Len(ids) /\ n # 0
            BY <2>11, <3>1, <3>2, EmptySeq DEF AreParts
        <3>4. NameOf(p, Bound(p, ids)) = Joined(ids, "/")
            BY <2>1, <2>11, <2>16, <3>3, BindingsMakeName
        <3>5. QED
            BY <2>14, <3>2, <3>4
    <2>17. QED
        BY <2>0, <2>15, <2>16 DEF AgreeOn
<1>2. ASSUME RouteInv, Registered, phase = "check", NEW i \in DOMAIN table,
             NEW type \in DOMAIN resources
      PROVE  LET r == table[i]
                 segments == Parse(rules[i].text).segments
             IN  \A p \in ToSet(resources[type]), k \in DOMAIN r.captures :
                    (/\ PlainLiterals(p)
                     /\ \E s \in Variables(segments) :
                          segments[s].field = r.captures[k].field /\ segments[s].sub = SubOf(p))
                    => \A path \in Paths :
                          (Matches(r, r.method, path, r.verb) /\ Match(r, path).malformed = <<>>) =>
                              AgreeOn(p, Span(r.captures[k], path), Match(r, path).values[k])
    BY <1>1, <1>2
<1>3. RouteInv /\ Registered => NamesAgree
    BY <1>2 DEF NamesAgree, PlainLiterals, AgreeOn
<1>4. TableInv => RouteInv
    BY DEF TableInv
<1>5. QED
    BY <1>3, <1>4, TableInvariant, RegisteredInvariant, PTL
=============================================================================
