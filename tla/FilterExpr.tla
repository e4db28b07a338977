------------------------------ MODULE FilterExpr -------------------------------
(***************************************************************************)
(* Textual filters (index/filterexpr): key=value, key>=value, key? and !key.  *)
(* An expression is typed one character at a time.  Characters are told apart *)
(* as far as the parser does: "k" may be in a key, "." may not, the others    *)
(* are themselves.                                                          *)
(***************************************************************************)
EXTENDS Naturals, Sequences, SequencesExt

CONSTANT MaxLength   \* of an expression (bound)

VARIABLE expr

Characters == {"k", ".", "!", "=", "<", ">", "?"}

\* Mutation of Operators: ">" is looked for before ">=".
OperatorsShortFirst == <<<<"!", "=">>, <<">">>, <<"<">>, <<">", "=">>, <<"<", "=">>, <<"=">>>>

\* The operators, in the order they are looked for.
Operators == <<<<"!", "=">>, <<">", "=">>, <<"<", "=">>, <<"=">>, <<">">>, <<"<">>>>

Refused == [op |-> <<>>, key |-> <<>>, value |-> <<>>]

ValidKey(key) == key # <<>> /\ \A i \in DOMAIN key : key[i] = "k"

\* The places where an operator stands.
Places(s, op) == {i \in 1 .. Len(s) - Len(op) + 1 : SubSeq(s, i, i + Len(op) - 1) = op}

\* The presence forms; <<>> when it is none of them.
IsAbsence(s) == s # <<>> /\ s[1] = "!" /\ ~\E i \in DOMAIN s : s[i] = "="
IsPresence(s) == s # <<>> /\ Last(s) = "?"

Presence(op, key) == IF ValidKey(key) THEN [op |-> op, key |-> key, value |-> <<>>] ELSE Refused

\* Mutation of Cuts: a comparison with nothing is refused.
CutsBeforeValue(s) ==
    {j \in DOMAIN Operators : \E i \in Places(s, Operators[j]) : i > 1 /\ i + Len(Operators[j]) <= Len(s)}

\* The operators that cut the expression after a key.
Cuts(s) == {j \in DOMAIN Operators : Places(s, Operators[j]) # {} /\ 1 \notin Places(s, Operators[j])}

\* The first operator of the list that cuts it, at its first place.
Comparison(s) ==
    LET op == Operators[CHOOSE j \in Cuts(s) : \A i \in Cuts(s) : j <= i]
        at == CHOOSE i \in Places(s, op) : \A j \in Places(s, op) : i <= j
        key == SubSeq(s, 1, at - 1)
    IN  IF Cuts(s) # {} /\ ValidKey(key)
        THEN [op |-> op, key |-> key, value |-> SubSeq(s, at + Len(op), Len(s))]
        ELSE Refused

ParseFilter(s) ==
    IF IsAbsence(s) THEN Presence(<<"!">>, Tail(s))
    ELSE IF IsPresence(s) THEN Presence(<<"?">>, Front(s))
    ELSE Comparison(s)

ExprInit == expr = <<>>

Type(c) == Len(expr) < MaxLength /\ expr' = Append(expr, c)

ExprNext == \E c \in Characters : Type(c)
-----------------------------------------------------------------------------
\* An expression that is accepted is read as it is written: the key is all that
\* stands before the first operator, the operator is the longest that stands
\* there, and the rest is the value; ">=" is not ">" and a value.
ReadAsWritten ==
    LET p == ParseFilter(expr)
        rest == SubSeq(expr, Len(p.key) + 1, Len(expr))
    IN  p # Refused /\ p.op \notin {<<"!">>, <<"?">>} =>
            /\ expr = p.key \o p.op \o p.value
            /\ \A i \in DOMAIN Operators : IsPrefix(Operators[i], rest) => Len(Operators[i]) <= Len(p.op)
            /\ \A i \in DOMAIN p.key : p.key[i] = "k"

\* And a key, an operator and a value of characters of its own are accepted.
PlainIsAccepted ==
    \A n \in 1 .. Len(expr), i \in DOMAIN Operators :
        LET value == SubSeq(expr, n + Len(Operators[i]) + 1, Len(expr))
        IN  /\ expr = SubSeq(expr, 1, n) \o Operators[i] \o value
            /\ \A j \in 1 .. n : expr[j] = "k"
            /\ \A j \in DOMAIN value : value[j] \in {"k", "."}
            => ParseFilter(expr).op = Operators[i]
=============================================================================
