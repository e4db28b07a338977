------------------------------- MODULE Answering -------------------------------
(***************************************************************************)
(* An answer from retrieved sections (retrieval/answer.go): the sections are   *)
(* numbered within three budgets, the answer is streamed by a goroutine over    *)
(* a channel without a buffer, and the numbers it cites are read back.          *)
(***************************************************************************)
EXTENDS Integers, Sequences, FiniteSets, SequencesExt

CONSTANTS
    Evidences,       \* lists of results: [source, sections]
    Lengths,         \* [sections the store knows -> words], one per corpus
    MaxSources,      \* maxSources
    MaxWordsOfOne,   \* maxSectionWords
    MaxWordsOfAll,   \* maxTotalWords
    Streams,         \* what the model sends: "text", "silent", "error" in sequence
    Answers          \* the numbers between brackets of an answer, in order

ASSUME AnsweringAssumption ==
    /\ {MaxSources, MaxWordsOfOne, MaxWordsOfAll} \subseteq Nat \ {0}
    /\ \A e \in Evidences : e \in Seq(ToSet(e)) /\ \A r \in ToSet(e) : r.sections \in Seq(ToSet(r.sections))
    /\ \A l \in Lengths : l \in [DOMAIN l -> Nat]
    /\ \A s \in Streams : s \in Seq({"text", "silent", "error"})
    /\ \A a \in Answers : a \in Seq(Nat)

VARIABLES
    given,       \* the results to answer from
    lengths,
    answerStep,  \* "new", "number", "call", "stream"; "noSources", "answerFailed"
    place,       \* the section to number next
    used,        \* words given to the model
    numbered,    \* the sources: [section, words]
    stream,      \* what the model has still to send
    sending,     \* what the goroutine holds, "none" when it holds nothing
    channel,     \* "open" or "closed"
    received,    \* what the reader has got
    reading,     \* the reader still reads
    canceled     \* the context of the request is done

answerVars == <<given, lengths, answerStep, place, used, numbered, stream, sending, channel, received, reading, canceled>>
streamVars == <<stream, sending, channel, received, reading, canceled>>

Smaller(m, n) == IF m < n THEN m ELSE n

Listed == FlattenSeq([i \in DOMAIN given |-> given[i].sections])

AnswerInit ==
    /\ given = <<>>
    /\ lengths = CHOOSE l \in Lengths : TRUE
    /\ answerStep = "new"
    /\ place = 1
    /\ used = 0
    /\ numbered = <<>>
    /\ stream = <<>>
    /\ sending = "none"
    /\ channel = "open"
    /\ received = <<>>
    /\ reading = TRUE
    /\ canceled = FALSE

AskAnswer(results, words) ==
    /\ answerStep = "new"
    /\ given' = results /\ lengths' = words
    /\ answerStep' = "number"
    /\ UNCHANGED <<place, used, numbered, streamVars>>

\* Mutation of Full: an empty section ends the list.
FullAtEmpty ==
    \/ Len(numbered) >= MaxSources \/ used >= MaxWordsOfAll
    \/ place \in DOMAIN Listed /\ Listed[place] \notin {s \in DOMAIN lengths : lengths[s] > 0}

Full == Len(numbered) >= MaxSources \/ used >= MaxWordsOfAll

\* Mutation of WordsFor: the rest of the budget is not looked at.
WordsOfOne(section) == Smaller(lengths[section], MaxWordsOfOne)

\* truncateSection: the words of a section that fit.
WordsFor(section) == Smaller(lengths[section], Smaller(MaxWordsOfOne, MaxWordsOfAll - used))

\* Mutation of Numbering: a section that is skipped takes a number too.
NumberingGaps(section) ==
    IF section \in DOMAIN lengths /\ WordsFor(section) > 0
    THEN Append(numbered, [number |-> place, section |-> section, words |-> WordsFor(section)])
    ELSE numbered

Numbering(section) ==
    IF section \in DOMAIN lengths /\ WordsFor(section) > 0
    THEN Append(numbered, [number |-> Len(numbered) + 1, section |-> section, words |-> WordsFor(section)])
    ELSE numbered

\* A section the store has lost, or an empty one, is skipped.
NumberNext ==
    /\ answerStep = "number" /\ place <= Len(Listed) /\ ~Full
    /\ numbered' = Numbering(Listed[place])
    /\ used' = used + (IF numbered' = numbered THEN 0 ELSE Last(numbered').words)
    /\ place' = place + 1
    /\ UNCHANGED <<given, lengths, answerStep, streamVars>>

NumberingOver ==
    /\ answerStep = "number" /\ (place > Len(Listed) \/ Full)
    /\ answerStep' = IF numbered = <<>> THEN "noSources" ELSE "call"
    /\ UNCHANGED <<given, lengths, place, used, numbered, streamVars>>

\* The model is called; the goroutine that streams starts.
CallModel(chunks) ==
    /\ answerStep = "call"
    /\ answerStep' = "stream"
    /\ stream' = chunks
    /\ UNCHANGED <<given, lengths, place, used, numbered, sending, channel, received, reading, canceled>>

\* The store or the model refuses.
AnswerFails ==
    /\ answerStep \in {"number", "call"}
    /\ answerStep' = "answerFailed"
    /\ UNCHANGED <<given, lengths, place, used, numbered, streamVars>>

-----------------------------------------------------------------------------
Streaming == answerStep = "stream" /\ channel = "open"

StreamTo(chunks, held, ends) ==
    /\ stream' = chunks /\ sending' = held /\ channel' = ends
    /\ UNCHANGED <<given, lengths, answerStep, place, used, numbered, reading, canceled>>

\* The next chunk: text and errors are sent, the rest is not.
TakeChunk ==
    /\ Streaming /\ sending = "none" /\ stream # <<>>
    /\ StreamTo(Tail(stream), IF Head(stream) = "silent" THEN "none" ELSE Head(stream), "open")
    /\ UNCHANGED received

StreamOver ==
    /\ Streaming /\ sending = "none" /\ stream = <<>>
    /\ StreamTo(<<>>, "none", "closed")
    /\ UNCHANGED received

\* Mutation of EndsAfter: the goroutine goes on after an error.
EndsAfterNothing(chunk) == "open"

\* An error ends the answer.
EndsAfter(chunk) == IF chunk = "error" THEN "closed" ELSE "open"

\* The reader receives what is sent.
Deliver ==
    /\ Streaming /\ sending # "none" /\ reading
    /\ received' = Append(received, sending)
    /\ StreamTo(stream, "none", EndsAfter(sending))

\* Mutation of GiveUp: only the delivery ends the wait.
GiveUpNever == FALSE /\ UNCHANGED answerVars

\* The context is done: the goroutine leaves, with what it holds.
GiveUp ==
    /\ Streaming /\ sending # "none" /\ canceled
    /\ StreamTo(stream, "none", "closed")
    /\ UNCHANGED received

\* The caller cancels, and may stop reading then.
CancelAnswer ==
    /\ answerStep = "stream" /\ ~canceled
    /\ canceled' = TRUE
    /\ reading' \in BOOLEAN
    /\ UNCHANGED <<given, lengths, answerStep, place, used, numbered, stream, sending, channel, received>>

StreamGoesOn == TakeChunk \/ StreamOver \/ Deliver \/ GiveUp

AnswerNext ==
    \/ \E results \in Evidences, words \in Lengths : AskAnswer(results, words)
    \/ NumberNext \/ NumberingOver \/ AnswerFails
    \/ \E chunks \in Streams : CallModel(chunks)
    \/ StreamGoesOn
    \/ CancelAnswer

-----------------------------------------------------------------------------
\* Mutation of Citations: a number twice counts twice.
CitationsAll(answer, sources) == SelectSeq(answer, LAMBDA n : n \in 1 .. sources)

\* The sources an answer cites, each once, in the order of the first citation.
Citations(answer, sources) ==
    LET cited[i \in 0 .. Len(answer)] ==
            IF i = 0 THEN <<>>
            ELSE IF answer[i] \in 1 .. sources \ ToSet(cited[i - 1]) THEN Append(cited[i - 1], answer[i])
            ELSE cited[i - 1]
    IN  cited[Len(answer)]

\* What an answer cites is what the model was shown under that number: the n-th
\* source has number n and stands where the section stood in the results.
NumbersNameSources ==
    answerStep \in {"call", "stream"} =>
        \A n \in DOMAIN numbered :
            /\ numbered[n].number = n
            /\ \A m \in 1 .. n - 1 :
                   \E i, j \in DOMAIN Listed : i < j /\ Listed[i] = numbered[m].section /\ Listed[j] = numbered[n].section

\* The three budgets of the prompt hold at once, and no source is empty.
PromptWithinBudget ==
    /\ Len(numbered) <= MaxSources
    /\ used <= MaxWordsOfAll
    /\ \A n \in DOMAIN numbered : numbered[n].words \in 1 .. MaxWordsOfOne

\* A source is left out only when a budget is spent.
SourcesWhileBudgetLasts ==
    answerStep \in {"call", "noSources"} =>
        \A i \in DOMAIN Listed :
            Listed[i] \in DOMAIN lengths /\ lengths[Listed[i]] > 0 /\ (\A n \in DOMAIN numbered : numbered[n].section # Listed[i])
                => Len(numbered) = MaxSources \/ used = MaxWordsOfAll

\* An error is the last that is received; nothing overtakes or is lost before it.
ErrorIsLast ==
    \A i \in DOMAIN received : received[i] = "error" => i = Len(received) /\ channel = "closed"

\* Every citation is of a source that exists, and comes once, "in order of first
\* citation".
CitationsExist ==
    answerStep = "stream" =>
        \A a \in Answers :
            LET cited == Citations(a, Len(numbered))
            IN  /\ IsInjective(cited)
                /\ ToSet(cited) = ToSet(a) \intersect DOMAIN numbered
                /\ \A m, n \in DOMAIN cited : m < n =>
                       \E i \in DOMAIN a : a[i] = cited[m] /\ \A j \in 1 .. i : a[j] # cited[n]

\* The channel is closed at last, if the reader reads on or cancels.
AnswerCloses == answerStep = "stream" ~> channel = "closed"

\* What an answer promises: numbers that name the sources of the prompt, a prompt
\* within its budget that leaves no source out while some is left, nothing after
\* an error in the stream, and citations of sources that exist.
AnswerKeepsFaith ==
    /\ NumbersNameSources
    /\ PromptWithinBudget
    /\ SourcesWhileBudgetLasts
    /\ ErrorIsLast
    /\ CitationsExist
=============================================================================
