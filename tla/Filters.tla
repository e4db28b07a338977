-------------------------------- MODULE Filters --------------------------------
(***************************************************************************)
(* Metadata filters (index/filter.go, internal/filternorm) and what three     *)
(* evaluators make of them: Go over the metadata of the store, and the SQL    *)
(* that sqlite-vec and Postgres evaluate over copies of their own.  One       *)
(* document is saved, updated and deleted, and each write reaches the store   *)
(* and the copies one after the other.                                       *)
(*                                                                         *)
(* A value is a name; its kind, its number, its place in the byte order and   *)
(* its canonical form are constants.  A condition is a record; only those of  *)
(* an "or" have alternatives.                                              *)
(***************************************************************************)
EXTENDS Integers, Sequences, FiniteSets

CONSTANTS
    Keys,
    Kind,        \* [values -> {"number", "text", "time", "bool", "null", "list", "map"}]
    Exact,       \* the number a value is
    Float64,     \* the float64 it is read as
    Rank,        \* the place of a text in the byte order
    Canonical,   \* times and RFC 3339 texts -> the text they are stored as
    ListOf,      \* lists -> the sequence of their elements
    NaN,         \* the number that equals nothing
    Written,     \* the metadata a caller writes
    MaxWrites    \* writes of the document (bound)

Evaluators == {"sqlite", "postgres"}

NoRow == [k \in {} |-> "none"]

VARIABLES
    inStore,     \* the metadata of the store, NoRow when it has none
    copies,      \* [Evaluators -> metadata], NoRow when there is no row
    write,       \* the write in progress, "none", "save", "update" or "delete"
    writing,     \* the metadata it writes
    unwritten,   \* the copies it has still to reach
    failed,      \* whether the last write reported an error
    writes

filterVars == <<inStore, copies, write, writing, unwritten, failed, writes>>

-----------------------------------------------------------------------------
\* Normalization (filternorm).

\* Mutation of Value: texts keep the zone they are written in.
ValueAsWritten(v) == v

Value(v) == IF v \in DOMAIN Canonical THEN Canonical[v] ELSE v

\* What is persisted: values and the elements of lists in canonical form.  A
\* list is named by its canonical elements.
Elements(v) == [i \in DOMAIN ListOf[v] |-> Value(ListOf[v][i])]

Normalized(metadata) ==
    [k \in DOMAIN metadata |-> IF Kind[metadata[k]] = "list" THEN metadata[k] ELSE Value(metadata[k])]

IsKind(v, kind) == Kind[v] = kind

Equal(a, b) ==
    LET x == Value(a)
        y == Value(b)
    IN  /\ Kind[x] = Kind[y]
        /\ \/ IsKind(x, "number") /\ x # NaN /\ y # NaN /\ Float64[x] = Float64[y]
           \/ Kind[x] \in {"text", "bool"} /\ x = y

\* -1, 0 or 1, and 2 when the two have no order.  NaN is below every number.
Compare(a, b) ==
    LET x == Value(a)
        y == Value(b)
        Compared(m, n) == IF m < n THEN -1 ELSE IF m = n THEN 0 ELSE 1
    IN  IF Kind[x] # Kind[y] THEN 2
        ELSE IF IsKind(x, "text") THEN Compared(Rank[x], Rank[y])
        ELSE IF ~IsKind(x, "number") THEN 2
        ELSE IF x = NaN \/ y = NaN
             THEN IF x = y THEN 0 ELSE IF x = NaN THEN -1 ELSE 1
        ELSE Compared(Float64[x], Float64[y])

Holds(op, order) ==
    \/ op = "gt" /\ order = 1
    \/ op = "gte" /\ order \in {0, 1}
    \/ op = "lt" /\ order = -1
    \/ op = "lte" /\ order \in {-1, 0}

Ordered == {"gt", "gte", "lt", "lte"}

-----------------------------------------------------------------------------
\* The evaluator in Go.

RECURSIVE MatchesCondition(_, _)
MatchesCondition(c, metadata) ==
    LET present == c.key \in DOMAIN metadata
        value == metadata[c.key]
        operands == {c.values[i] : i \in DOMAIN c.values}
    IN  CASE c.op = "or" -> \E i \in DOMAIN c.alternatives : MatchesCondition(c.alternatives[i], metadata)
          [] c.op = "exists" -> present
          [] c.op = "absent" -> ~present
          [] ~present -> FALSE
          [] c.op = "eq" -> Equal(value, c.values[1])
          [] c.op = "ne" -> ~Equal(value, c.values[1])
          [] c.op = "in" -> \E v \in operands : Equal(value, v)
          [] c.op = "any" -> /\ IsKind(value, "list")
                             /\ \E v \in operands, i \in DOMAIN ListOf[value] : Equal(Elements(value)[i], v)
          [] c.op \in Ordered -> Holds(c.op, Compare(value, c.values[1]))

Matches(filter, metadata) == \A i \in DOMAIN filter : MatchesCondition(filter[i], metadata)

-----------------------------------------------------------------------------
\* SQL: a predicate is "true", "false" or "null".

Sql(p) == IF p THEN "true" ELSE "false"
Not(p) == IF p = "null" THEN p ELSE Sql(p = "false")
And(P) == IF "false" \in P THEN "false" ELSE IF "null" \in P THEN "null" ELSE "true"
Or(P) == IF "true" \in P THEN "true" ELSE IF "null" \in P THEN "null" ELSE "false"
Coalesce(p) == IF p = "null" THEN "false" ELSE p

\* A comparison of what is stored with a bound parameter.  Stored numbers are
\* compared as they are written, the parameter is a float64, and sqlite binds
\* NaN as NULL.
SameNumber(db, stored, operand) ==
    IF operand = NaN THEN IF db = "sqlite" THEN "null" ELSE "false"
    ELSE Sql(Exact[stored] = Float64[operand])

OrderedNumber(db, op, stored, operand) ==
    IF operand = NaN THEN IF db = "sqlite" THEN "null" ELSE Sql(op \in {"gt", "gte"})
    ELSE Sql(Holds(op, IF Exact[stored] < Float64[operand] THEN -1
                       ELSE IF Exact[stored] = Float64[operand] THEN 0 ELSE 1))

\* json_type or jsonb_typeof of a key: NULL when there is no key.
HasKind(db, key, kind, copy) ==
    IF key \in DOMAIN copy THEN Sql(IsKind(copy[key], kind)) ELSE "null"

\* The presence of a key.  Without a row sqlite reads '{}' and Postgres NULL.
Present(db, key, copy) ==
    IF db = "postgres" /\ copy = NoRow THEN "null" ELSE Sql(key \in DOMAIN copy)

\* A comparison and the guard before it.
Guarded(db, key, kind, copy, Test(_)) ==
    IF HasKind(db, key, kind, copy) = "true" THEN Test(copy[key]) ELSE HasKind(db, key, kind, copy)

Equals(db, key, operand, copy) ==
    LET v == Value(operand) IN
    CASE Kind[v] \in {"text", "bool"} -> Guarded(db, key, Kind[v], copy, LAMBDA s : Sql(s = v))
      [] IsKind(v, "number") -> Guarded(db, key, "number", copy, LAMBDA s : SameNumber(db, s, v))
      [] OTHER -> "false"

OrderedTo(db, key, op, operand, copy) ==
    LET v == Value(operand) IN
    CASE IsKind(v, "text") ->
            Guarded(db, key, "text", copy, LAMBDA s : Sql(Holds(op, Compare(s, v))))
      [] IsKind(v, "number") ->
            Guarded(db, key, "number", copy, LAMBDA s : OrderedNumber(db, op, s, v))
      [] OTHER -> "false"

\* One element of a list: json_each, or jsonb containment.
ElementEquals(db, element, operand) ==
    LET v == Value(operand) IN
    IF Kind[v] \in {"text", "bool"} THEN Sql(element = v)
    ELSE IF IsKind(v, "number") /\ IsKind(element, "number") THEN SameNumber(db, element, v)
    ELSE "false"

ContainsAny(db, key, operands, copy) ==
    Guarded(db, key, "list", copy,
            LAMBDA s : Coalesce(Or({ElementEquals(db, Elements(s)[i], v) :
                                    i \in DOMAIN ListOf[s], v \in operands})))

\* Mutation of NotEquals: the presence of the key is not required.
NotEqualsAnywhere(db, key, operand, copy) ==
    Sql(Equals(db, key, operand, copy) # "true")

NotEquals(db, key, operand, copy) ==
    And({Present(db, key, copy), Not(Equals(db, key, operand, copy))})

\* Postgres coalesces each alternative; a disjunction of sqlite takes NULL as it is.
Alternative(db, p) == IF db = "postgres" THEN Coalesce(p) ELSE p

RECURSIVE Clause(_, _, _)
Clause(db, c, copy) ==
    LET operands == {c.values[i] : i \in DOMAIN c.values}
    IN  CASE c.op = "or" ->
                Or({Alternative(db, Clause(db, c.alternatives[i], copy)) : i \in DOMAIN c.alternatives})
          [] c.op = "exists" -> Present(db, c.key, copy)
          [] c.op = "absent" -> IF copy = NoRow THEN "true" ELSE Not(Present(db, c.key, copy))
          [] c.op = "eq" -> Equals(db, c.key, c.values[1], copy)
          [] c.op = "ne" -> NotEquals(db, c.key, c.values[1], copy)
          [] c.op = "in" -> Or({Equals(db, c.key, v, copy) : v \in operands})
          [] c.op = "any" -> IF operands = {} THEN "false"
                             ELSE Coalesce(ContainsAny(db, c.key, operands, copy))
          [] c.op \in Ordered -> OrderedTo(db, c.key, c.op, c.values[1], copy)

\* WHERE keeps a row whose predicate is true.
Selects(db, filter, copy) == And({Clause(db, filter[i], copy) : i \in DOMAIN filter}) = "true"

-----------------------------------------------------------------------------
\* The fingerprint of a filter, which cursors carry (CanonicalBytes): sorted
\* encodings are bags of encodings.

\* A sequence without its order.
Sorted(s) == [x \in {s[i] : i \in DOMAIN s} |-> Cardinality({i \in DOMAIN s : s[i] = x})]

\* Mutation of Token: the kind of an operand is not part of its encoding.
TokenOfContent(v) ==
    LET x == Value(v)
    IN  CASE IsKind(x, "number") -> <<"s", Float64[x]>>
          [] IsKind(x, "text") -> <<"s", Rank[x]>>
          [] OTHER -> <<Kind[x], x>>

Token(v) ==
    LET x == Value(v)
    IN  IF IsKind(x, "number") /\ x # NaN THEN <<"n", Float64[x]>> ELSE <<Kind[x], x>>

Tokens(c) == [i \in DOMAIN c.values |-> Token(c.values[i])]

RECURSIVE Encoding(_)
Encoding(c) ==
    IF c.op = "or"
    THEN <<"or", Sorted([i \in DOMAIN c.alternatives |-> Encoding(c.alternatives[i])])>>
    ELSE <<c.key, c.op, IF c.op \in {"in", "any"} THEN Sorted(Tokens(c)) ELSE Tokens(c)>>

Fingerprint(filter) == Sorted([i \in DOMAIN filter |-> Encoding(filter[i])])

-----------------------------------------------------------------------------
FilterInit ==
    /\ inStore = NoRow
    /\ copies = [db \in Evaluators |-> NoRow]
    /\ write = "none"
    /\ writing = NoRow
    /\ unwritten = {}
    /\ failed = FALSE
    /\ writes = 0

Begins(kind, metadata) ==
    /\ write = "none" /\ writes < MaxWrites
    /\ writes' = writes + 1
    /\ write' = kind
    /\ writing' = metadata
    /\ unwritten' = Evaluators
    /\ failed' = FALSE

\* The document is saved, or its metadata replaced: the store first.
SaveMetadata(kind, metadata) ==
    /\ Begins(kind, metadata)
    /\ inStore' = Normalized(metadata)
    /\ UNCHANGED copies

\* A deletion reaches the indexes first.
BeginDelete ==
    /\ Begins("delete", NoRow)
    /\ UNCHANGED <<inStore, copies>>

\* An index deletes the row of the document and writes it again, in one
\* transaction; empty metadata have no row.
WriteCopy(db) ==
    /\ db \in unwritten
    /\ unwritten' = unwritten \ {db}
    /\ copies' = [copies EXCEPT ![db] = Normalized(writing)]
    /\ UNCHANGED <<inStore, write, writing, failed, writes>>

\* One leg fails; fanOut reports it once the others are done.
CopyFails(db) ==
    /\ db \in unwritten
    /\ unwritten' = unwritten \ {db}
    /\ failed' = TRUE
    /\ UNCHANGED <<inStore, copies, write, writing, writes>>

\* The write is over.  Only a deletion the indexes have done reaches the store.
EndWrite ==
    /\ write # "none" /\ unwritten = {}
    /\ inStore' = IF write = "delete" /\ ~failed THEN NoRow ELSE inStore
    /\ write' = "none"
    /\ writing' = NoRow
    /\ UNCHANGED <<copies, unwritten, failed, writes>>

FilterNext ==
    \/ \E kind \in {"save", "update"}, m \in Written : SaveMetadata(kind, m)
    \/ BeginDelete
    \/ \E db \in Evaluators : WriteCopy(db) \/ CopyFails(db)
    \/ EndWrite
-----------------------------------------------------------------------------
CONSTANT Filters   \* the filters the evaluators are compared on

\* Computed once.
Prints == {<<f, Fingerprint(f)>> : f \in Filters}

\* The metadata are canonical wherever they are kept.
FilterTypeOK ==
    /\ \A m \in {inStore} \union {copies[db] : db \in Evaluators} :
        /\ DOMAIN m \subseteq Keys
        /\ \A k \in DOMAIN m : m[k] \in DOMAIN Canonical => Canonical[m[k]] = m[k]
    /\ unwritten \subseteq Evaluators
    /\ write = "none" => unwritten = {}

\* filternorm.go:8-15: "matchGo(f, metadata) == matchSQL(f, metadata) for every
\* filter and every document".  Once a write has succeeded, whatever failed
\* before it, a search gives the same documents whether the filter is pushed
\* down or evaluated over the store's metadata.
FiltersAgree ==
    writes > 0 /\ write = "none" /\ ~failed =>
        \A f \in Filters, db \in Evaluators : Selects(db, f, copies[db]) <=> Matches(f, inStore)

\* Two filters with one fingerprint select the same documents: a cursor is not
\* resumed in another ordering (manager.go:594-600), whatever is written.
FingerprintsSelectAlike ==
    writes > 0 =>
        Cardinality({<<p[2], Matches(p[1], inStore)>> : p \in Prints}) = Cardinality({p[2] : p \in Prints})
=============================================================================
