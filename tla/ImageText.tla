------------------------------ MODULE ImageText ------------------------------
(***************************************************************************)
(* From a file to markdown whose images can be searched: the converters       *)
(* (convert/pandoc, convert/vision, convert/routed.go) and the enrichment of  *)
(* embedded images (markdown/imagetext), over a describer with a cache        *)
(* (vision) and the retry loop of its client.                                *)
(*                                                                         *)
(* A source is a sequence of tokens; a token is a link or an image with a     *)
(* destination, plain text, the end of a block, or an inserted description.  *)
(* Offsets are positions of tokens.                                          *)
(***************************************************************************)
EXTENDS RetryLoop, Sequences, SequencesExt, FiniteSetsExt

CONSTANTS
    Images,        \* contents of images, named by their hash; the Calls of RetryLoop
    ImageKind,     \* [Images -> {"plain", "small", "heavy", "foreign"}]
    Files,         \* the files: [kind |-> ..., source |-> ..., beside |-> the images
                   \* that lie in the directory of the original]
    HasBlobs,      \* a blob store is configured
    MaxImages,
    Concurrency,
    NoImage

ASSUME ImageTextAssumption ==
    /\ Calls = Images
    /\ ImageKind \in [Images -> {"plain", "small", "heavy", "foreign"}]
    /\ HasBlobs \in BOOLEAN
    /\ MaxImages \in Nat \ {0}
    /\ Concurrency \in Nat \ {0}
    /\ NoImage \notin Images

VARIABLES
    stage,      \* where the document is
    file,       \* the file being read
    source,     \* its markdown
    tags,       \* the hash of each image found, NoImage if it was not resolved
    chosen,     \* the distinct images of the document
    running,    \* the images being described
    described,  \* the images that have a description
    dropped,    \* the images whose description failed
    progress,   \* what Progress was last told
    cached,     \* the descriptions in the cache, kept from earlier documents
    stored      \* the images the blob store took

imageVars == <<stage, file, source, tags, chosen, running, described, dropped, progress, cached,
               stored>>

textVars == <<imageVars, loopVars>>

Canceled == givenUp = Images

\* Tokens.  A destination names the image it leads to, if any.
Token(type, scheme, image) == [type |-> type, scheme |-> scheme, image |-> image]
Break == Token("break", "none", NoImage)
Described(h) == Token("description", "none", h)

(***************************************************************************)
(* Resolving a destination                                                 *)
(***************************************************************************)

\* validate: small images are left alone; heavy ones too unless a describer
\* will shrink them.
Accepted(h, forDescriber) ==
    /\ h # NoImage
    /\ ImageKind[h] # "small" \/ ~forDescriber   \* inlining has no MinDimension
    /\ ImageKind[h] # "heavy" \/ forDescriber

\* Data URIs are decoded, and files read in the directory of the original,
\* converted or not; remote images are not fetched, and no other scheme resolves.
Resolved(dest) ==
    IF /\ dest.scheme = "data" \/ (dest.scheme = "local" /\ dest.image \in file.beside)
       /\ Accepted(dest.image, TRUE)
    THEN dest.image ELSE NoImage

(***************************************************************************)
(* Edits of the source                                                     *)
(***************************************************************************)

\* The end of the block that holds position p: the insertion point.
BlockEnd(src, p) ==
    LET breaks == {q \in p .. Len(src) : src[q].type = "break"}
    IN  IF breaks = {} THEN Len(src) ELSE Min(breaks) - 1

BlockStart(src, p) ==
    LET breaks == {q \in 1 .. p : src[q].type = "break"}
    IN  IF breaks = {} THEN 1 ELSE Max(breaks) + 1

\* The elements of a set in a strict total order: each where its rank puts it.
InOrder(S, Before(_, _)) ==
    [i \in 1 .. Cardinality(S) |-> CHOOSE e \in S : Cardinality({f \in S : Before(f, e)}) = i - 1]

\* collectImages: the positions of the images, in document order.
Occurrences(src) == InOrder({p \in 1 .. Len(src) : src[p].type = "image"}, <)

\* destinationSpan: the first link or image with this destination between from
\* and the end of the block; 0 if there is none.
DestinationSpan(src, from, to, dest) ==
    LET hits == {q \in from .. to : /\ src[q].type \in {"image", "link"}
                                    /\ src[q].scheme = dest.scheme
                                    /\ src[q].image = dest.image}
    IN  IF hits = {} THEN 0 ELSE Min(hits)

\* The spans to rewrite for the occurrences in rewritten: each search starts
\* after the span the last one in the same block took.
Spans(src, occ, rewritten) ==
    LET Search(state, n) ==
            LET p == occ[n]
                b == BlockStart(src, p)
                cursor == IF b \in DOMAIN state.cursors THEN state.cursors[b] ELSE b
                span == DestinationSpan(src, cursor, BlockEnd(src, p), src[p])
            IN  IF n \notin rewritten \/ span = 0 THEN state
                ELSE [spans |-> state.spans \union {<<n, span>>},
                      cursors |-> [x \in DOMAIN state.cursors \union {b} |->
                                      IF x = b THEN span + 1 ELSE state.cursors[x]]]
    IN  FoldLeft(Search, [spans |-> {}, cursors |-> [x \in {} |-> 0]],
                 [n \in 1 .. Len(occ) |-> n]).spans

\* An edit replaces the tokens from start to end - 1; nth orders those at one place.
Edit(start, end, token, nth) == [start |-> start, end |-> end, token |-> token, nth |-> nth]

\* The order in which edits are applied: at one place, replacements first.
EditBefore(e, f) ==
    \/ e.start < f.start
    \/ e.start = f.start /\ e.end > f.end
    \/ e.start = f.start /\ e.end = f.end /\ e.nth < f.nth

\* applyEdits: one pass; an edit that begins before the cursor is dropped.
ApplyEdits(src, edits) ==
    LET Apply(state, e) ==
            IF e.start < state.cursor THEN state
            ELSE [out |-> state.out \o SubSeq(src, state.cursor, e.start - 1) \o <<e.token>>,
                  cursor |-> e.end]
        final == FoldLeft(Apply, [out |-> <<>>, cursor |-> 1], InOrder(edits, EditBefore))
    IN  final.out \o SubSeq(src, final.cursor, Len(src))

\* Mutation of Splice: descriptions are inserted where the image is.
SpliceInside(src, tag, words, blobs) ==
    LET occ == Occurrences(src)
    IN  ApplyEdits(src, {Edit(occ[n], occ[n], Described(tag[n]), n) :
                            n \in {m \in 1 .. Len(occ) : tag[m] \in words}}
                        \union
                        {Edit(s[2], s[2] + 1, Token(src[s[2]].type, "blob", tag[s[1]]), s[1]) :
                            s \in Spans(src, occ, {m \in 1 .. Len(occ) : tag[m] \in blobs})})

\* splice: a description after the block of each image that has one, the URI of
\* the blob in place of the destination of each image that was stored.
Splice(src, tag, words, blobs) ==
    LET occ == Occurrences(src)
    IN  ApplyEdits(src, {Edit(BlockEnd(src, occ[n]) + 1, BlockEnd(src, occ[n]) + 1, Described(tag[n]), n) :
                            n \in {m \in 1 .. Len(occ) : tag[m] \in words}}
                        \union
                        {Edit(s[2], s[2] + 1, Token(src[s[2]].type, "blob", tag[s[1]]), s[1]) :
                            s \in Spans(src, occ, {m \in 1 .. Len(occ) : tag[m] \in blobs})})

\* InlineLocalImages: what pandoc extracted from the document travels with the
\* markdown, as blobs if there is a store, unless it refuses them, and as data
\* URIs otherwise.  Pandoc runs away from what lies beside the document.
Inlined(src, refused) ==
    LET occ == Occurrences(src)
        kept == {n \in 1 .. Len(occ) : src[occ[n]].scheme = "local"
                                       /\ src[occ[n]].image \notin file.beside
                                       /\ Accepted(src[occ[n]].image, FALSE)
                                       /\ src[occ[n]].image \notin refused}
        scheme == IF HasBlobs THEN "blob" ELSE "data"
    IN  ApplyEdits(src, {Edit(s[2], s[2] + 1,
                              Token(src[s[2]].type, scheme, src[occ[s[1]]].image), s[1]) :
                            s \in Spans(src, occ, kept)})

-----------------------------------------------------------------------------
TextInit ==
    /\ LoopInit
    /\ stage = "idle"
    /\ file = "none"
    /\ source = <<>>
    /\ tags = <<>>
    /\ chosen = {}
    /\ running = {}
    /\ described = {}
    /\ dropped = {}
    /\ progress = 0
    /\ cached = {}
    /\ stored = {}

\* Routed.Convert: markdown is read as it is, the rest goes to the first
\* converter that knows the extension.
OpenFile(f, known) ==
    /\ stage = "idle"
    /\ f \in Files
    /\ known \in SUBSET Images
    /\ file' = f
    /\ cached' = known
    /\ stage' = CASE f.kind = "markdown" -> "resolving"
                  [] f.kind = "document" -> "converting"
                  [] f.kind = "image"    -> "describing"
                  [] OTHER               -> "failed"    \* ErrNotSupported
    /\ source' = IF f.kind = "image" THEN <<>> ELSE f.source
    /\ chosen' = IF f.kind = "image" THEN {f.source[1].image} ELSE {}
    /\ UNCHANGED <<tags, running, described, dropped, progress, stored, loopVars>>

\* pandoc ran, within its timeout, and the media it extracted were inlined.
PandocConverts ==
    /\ stage = "converting"
    /\ \E refused \in IF HasBlobs THEN SUBSET Images ELSE {{}} : source' = Inlined(source, refused)
    /\ stage' = "resolving"
    /\ UNCHANGED <<file, tags, chosen, running, described, dropped, progress, cached, stored, loopVars>>

\* pandoc is killed after its timeout or with the context, or fails.
PandocFails ==
    /\ stage = "converting"
    /\ stage' = "failed"
    /\ UNCHANGED <<file, source, tags, chosen, running, described, dropped, progress, cached, stored,
                   loopVars>>

\* Mutation of ResolveNext: images beyond the limit are taken as well.
ResolveNextUnbounded ==
    LET occ == Occurrences(source)
        n == Len(tags) + 1
    IN  /\ stage = "resolving"
        /\ n <= Len(occ)
        /\ LET h == Resolved(source[occ[n]])
           IN  /\ tags' = Append(tags, h)
               /\ chosen' = chosen \union ({h} \ {NoImage})
        /\ UNCHANGED <<stage, file, source, running, described, dropped, progress, cached, stored,
                       loopVars>>

\* resolveImages, one occurrence: an image that was met before is not counted
\* again; the first one above the limit ends the search.
ResolveNext ==
    LET occ == Occurrences(source)
        n == Len(tags) + 1
    IN  /\ stage = "resolving"
        /\ n <= Len(occ)
        /\ LET h == Resolved(source[occ[n]])
               full == h \notin chosen \union {NoImage} /\ Cardinality(chosen) >= MaxImages
           IN  /\ tags' = IF full THEN [m \in 1 .. Len(occ) |-> IF m < n THEN tags[m] ELSE NoImage]
                          ELSE Append(tags, h)
               /\ chosen' = IF full \/ h = NoImage THEN chosen ELSE chosen \union {h}
        /\ UNCHANGED <<stage, file, source, running, described, dropped, progress, cached, stored,
                       loopVars>>

\* No image: the source is parsed as it is.
ResolveEnds ==
    /\ stage = "resolving"
    /\ Len(tags) = Len(Occurrences(source))
    /\ IF chosen = {}
       THEN stage' = "done"
       ELSE stage' = "describing"
    /\ UNCHANGED <<file, source, tags, chosen, running, described, dropped, progress, cached, stored,
                   loopVars>>

Waiting == chosen \ (running \union described \union dropped)

\* group.Go blocks while Concurrency descriptions are running.
Slot == Cardinality(running) < Concurrency

\* Mutation of Lost: a description that fails, fails the document.
LostAlways(h) == TRUE

\* A description that fails ends the document only if its context is done; an
\* image file has nothing else to show.
Lost(h) == Canceled \/ file.kind = "image"

\* The describer failed, with a request or without one.
Drops(h) ==
    /\ dropped' = dropped \union {h}
    /\ stage' = IF Lost(h) THEN "failing" ELSE stage

\* Mutation of Launch: the cache is not looked at.
LaunchUncached(h) ==
    /\ stage \in {"describing", "failing"}
    /\ h \in Waiting
    /\ Slot
    /\ IF ImageKind[h] = "foreign"
       THEN /\ Drops(h)
            /\ progress' = progress + 1
            /\ UNCHANGED <<running, loopVars>>
       ELSE running' = running \union {h} /\ Enter(h) /\ UNCHANGED <<stage, dropped, progress>>
    /\ UNCHANGED <<file, source, tags, chosen, described, cached, stored>>

\* Shrink: a heavy image may not get below the limit before it is illegible.
ShrinkMayFail(h) == ImageKind[h] = "heavy"

\* CachingDescriber.Describe, then LLMDescriber.Describe: the cache answers, an
\* image no provider accepts is refused without a request, a heavy one may not
\* shrink enough, the others go to the model.
Launch(h) ==
    /\ stage \in {"describing", "failing"}
    /\ h \in Waiting
    /\ Slot
    /\ \/ /\ h \in cached
          /\ described' = described \union {h}
          /\ progress' = progress + 1
          /\ UNCHANGED <<stage, running, dropped, loopVars>>
       \/ /\ h \notin cached
          /\ ImageKind[h] = "foreign" \/ ShrinkMayFail(h)
          /\ Drops(h)
          /\ progress' = progress + 1
          /\ UNCHANGED <<running, described, loopVars>>
       \/ /\ h \notin cached
          /\ ImageKind[h] # "foreign"
          /\ running' = running \union {h}
          /\ Enter(h)
          /\ UNCHANGED <<stage, described, dropped, progress>>
    /\ UNCHANGED <<file, source, tags, chosen, cached, stored>>

\* Mutation of Land: the goroutine keeps its slot.
LandHolds(h) ==
    /\ h \in running
    /\ loop[h] \in LoopEnds
    /\ running' = running
    /\ progress' = progress + 1
    /\ IF loop[h] = "succeeded"
       THEN /\ described' = described \union {h}
            /\ cached' \in {cached, cached \union {h}}
            /\ UNCHANGED <<stage, dropped>>
       ELSE Drops(h) /\ UNCHANGED <<described, cached>>
    /\ UNCHANGED <<file, source, tags, chosen, stored, loopVars>>

\* Mutation of Land: a failed description is never answered.
LandSucceeds(h) ==
    /\ h \in running
    /\ loop[h] = "succeeded"
    /\ running' = running \ {h}
    /\ progress' = progress + 1
    /\ described' = described \union {h}
    /\ cached' = cached \union {h}
    /\ UNCHANGED <<stage, file, source, tags, chosen, dropped, stored, loopVars>>

\* The describer returned; a description is cached, if its file can be written.
Land(h) ==
    /\ h \in running
    /\ loop[h] \in LoopEnds
    /\ running' = running \ {h}
    /\ progress' = progress + 1
    /\ IF loop[h] = "succeeded"
       THEN /\ described' = described \union {h}
            /\ cached' \in {cached, cached \union {h}}
            /\ UNCHANGED <<stage, dropped>>
       ELSE Drops(h) /\ UNCHANGED <<described, cached>>
    /\ UNCHANGED <<file, source, tags, chosen, stored, loopVars>>

\* group.Wait: the other descriptions are started and waited for, also when one failed.
GroupFails ==
    /\ stage = "failing"
    /\ Waiting = {} /\ running = {}
    /\ stage' = "failed"
    /\ UNCHANGED <<file, source, tags, chosen, running, described, dropped, progress, cached, stored,
                   loopVars>>

\* The images are stored, each if the store takes it, and the text is spliced
\* (Result).
StoreAndSplice ==
    /\ stage = "describing"
    /\ Waiting = {} /\ running = {}
    /\ IF file.kind = "image" /\ dropped # {}
       THEN stage' = "failed" /\ UNCHANGED stored
       ELSE stage' = "done" /\ stored' \in IF HasBlobs THEN SUBSET chosen ELSE {{}}
    /\ UNCHANGED <<file, source, tags, chosen, running, described, dropped, progress, cached, loopVars>>

\* The markdown that is parsed next.
Result ==
    IF file.kind = "image"
    THEN [i \in 1 .. Cardinality(stored) |-> Token("image", "blob", file.source[1].image)]
         \o <<Described(file.source[1].image)>>
    ELSE Splice(source, tags, described, stored)

\* The context of the task is done: the describer notices in its own loop.
CancelDocument ==
    /\ stage \in {"resolving", "describing"}
    /\ ~Canceled
    /\ givenUp' = Images
    /\ UNCHANGED <<imageVars, loop, attempt, backoff, pause, mandate, requests>>

DescribesOn ==
    \/ GroupFails \/ StoreAndSplice
    \/ \E h \in Images : Launch(h) \/ Land(h) \/ (LoopGoesOn(h) /\ UNCHANGED imageVars)

TextNext ==
    \/ \E f \in Files, known \in SUBSET Images : OpenFile(f, known)
    \/ PandocConverts \/ PandocFails \/ ResolveNext \/ ResolveEnds \/ DescribesOn \/ CancelDocument

-----------------------------------------------------------------------------
TextTypeOK ==
    /\ loop \in [Calls -> {"idle", "check", "limited", "calling", "pausing"} \union LoopEnds]
    /\ givenUp \subseteq Calls
    /\ \A c \in Calls : attempt[c] \in 0 .. requests[c] /\ pause[c] \in Nat
    /\ stage \in {"idle", "converting", "resolving", "describing", "failing", "done", "failed"}
    /\ \A n \in 1 .. Len(tags) : tags[n] \in Images \union {NoImage}
    /\ running \intersect (described \union dropped) = {}
    /\ running \subseteq chosen /\ described \subseteq chosen /\ dropped \subseteq chosen
    /\ chosen \subseteq Images /\ cached \subseteq Images
    /\ progress \in 0 .. Cardinality(Images)

\* At most MaxImages images of a document are described, Concurrency of them at
\* a time, and Progress is told of each of them once.
DescriptionsBounded ==
    /\ Cardinality(chosen) <= MaxImages
    /\ Cardinality(running) <= Concurrency
    /\ progress = Cardinality(described) + Cardinality(dropped)

\* A cached description is used without a request.
CachedIsFree ==
    [][\A h \in Images : h \in cached => requests'[h] = requests[h]]_textVars

\* Enrichment is best-effort: a document is lost only if its context is done or
\* its conversion failed, however many of its images could not be described.
OnlyCancelFails ==
    stage = "failed" /\ tags # <<>> => Canceled

BlockOf(src, p) == Cardinality({q \in 1 .. p : src[q].type = "break"})

\* The words and the blocks of the source are all still there, in order; each
\* description is in the block of its image, and only descriptions were added.
SourceSurvives ==
    stage = "done" /\ file.kind # "image" =>
        LET text == Result
            own == SelectSeq(text, LAMBDA t : t.type # "description")
            added == {p \in 1 .. Len(text) : text[p].type = "description"}
            occ == Occurrences(source)
        IN  /\ Len(own) = Len(source)
            /\ \A p \in 1 .. Len(own) : own[p].type = source[p].type /\ own[p].image = source[p].image
            /\ \A n \in 1 .. Len(tags) : tags[n] \in described =>
                  \E p \in added : /\ text[p].image = tags[n]
                                   /\ BlockOf(text, p) = BlockOf(source, occ[n])
                                   /\ p = Len(text) \/ text[p + 1].type \in {"break", "description"}
            /\ Cardinality(added) = Cardinality({n \in 1 .. Len(tags) : tags[n] \in described})

\* A document is enriched, or fails, in the end: no description blocks the group.
TextEnds == stage = "describing" ~> stage \in {"done", "failed"}

\* What the enrichment of a document promises of its images: a bounded number of
\* requests, pauses and descriptions, no failure but a cancellation, the source
\* kept word for word, and nothing paid for an image that the cache holds.
EnrichmentKeepsFaith ==
    /\ [](TextTypeOK /\ RequestsBounded /\ PausesBounded /\ DescriptionsBounded /\ OnlyCancelFails /\ SourceSurvives)
    /\ CachedIsFree
=============================================================================
