-------------------------- MODULE BlobStoresProofs --------------------------
(***************************************************************************)
(* Proofs about the two blob stores: both keep the contract of blob.Store,   *)
(* whatever is interrupted, as long as nobody writes a hash while another     *)
(* call deletes it or stores it under another media type.                    *)
(***************************************************************************)
EXTENDS BlobStores, FiniteSetTheorems, TLAPS

-----------------------------------------------------------------------------
(* Sequences of hashes. *)

Ascending(s) == \A i, j \in 1 .. Len(s) : i < j => s[i] < s[j]

\* A finite set of numbers can be listed in ascending order: the number of its
\* smaller elements places each of them.
LEMMA Listed ==
    ASSUME NEW S \in SUBSET Nat, IsFiniteSet(S)
    PROVE  \E s \in [1 .. Cardinality(S) -> S] :
              \A i, j \in 1 .. Cardinality(S) : i < j => s[i] < s[j]
<1> DEFINE N == Cardinality(S)
           Below(h) == {g \in S : g < h}
           Place(h) == Cardinality(Below(h)) + 1
           f == [h \in S |-> Place(h)]
           s == [i \in 1 .. N |-> CHOOSE h \in S : Place(h) = i]
<1>0. N \in Nat
  BY FS_CardinalityType
<1>1. ASSUME NEW h \in S
      PROVE  Place(h) \in 1 .. N
  <2>1. IsFiniteSet(S \ {h}) /\ Cardinality(S \ {h}) = N - 1
    BY FS_RemoveElement
  <2>2. Below(h) \subseteq S \ {h}
    OBVIOUS
  <2>3. IsFiniteSet(Below(h)) /\ Cardinality(Below(h)) <= N - 1
    BY <2>1, <2>2, FS_Subset
  <2>4. Cardinality(Below(h)) \in Nat
    BY <2>3, FS_CardinalityType
  <2> QED
    BY <1>0, <2>3, <2>4
<1>2. ASSUME NEW g \in S, NEW h \in S, g < h
      PROVE  Place(g) < Place(h)
  <2>1. IsFiniteSet(Below(h)) /\ IsFiniteSet(Below(g))
    BY FS_Subset
  <2>2. Below(g) \in SUBSET Below(h) /\ g \in Below(h) /\ g \notin Below(g)
    <3>1. g \in Nat /\ h \in Nat /\ \A e \in S : e \in Nat
      OBVIOUS
    <3> HIDE DEF Place, f, s, N
    <3>2. \A e \in S : e < g => e < h
      BY <1>2, <3>1
    <3>3. ~(g < g)
      BY <3>1
    <3> QED
      BY <1>2, <3>2, <3>3
  <2>3. Cardinality(Below(g)) <= Cardinality(Below(h)) /\ Cardinality(Below(h)) # Cardinality(Below(g))
    BY <2>1, <2>2, FS_Subset
  <2>4. Cardinality(Below(g)) \in Nat /\ Cardinality(Below(h)) \in Nat
    BY <2>1, FS_CardinalityType
  <2> QED
    BY <2>3, <2>4
<1>3. f \in Injection(S, 1 .. N)
  <2>1. \A g, h \in S : Place(g) = Place(h) => g = h
    <3> SUFFICES ASSUME NEW g \in S, NEW h \in S, g # h
                 PROVE  Place(g) # Place(h)
      OBVIOUS
    <3>1. Place(g) \in Nat /\ Place(h) \in Nat /\ g \in Nat /\ h \in Nat
      BY <1>0, <1>1
    <3>2. g < h \/ h < g
      BY <3>1
    <3>3. Place(g) < Place(h) \/ Place(h) < Place(g)
      BY <1>2, <3>2
    <3> HIDE DEF Place
    <3> QED
      BY <3>1, <3>3
  <2> HIDE DEF Place
  <2> QED
    BY <1>1, <2>1 DEF Injection, IsInjective
<1>4. IsFiniteSet(1 .. N) /\ Cardinality(1 .. N) = N
  <2> HIDE DEF N
  <2> QED
    BY <1>0, FS_Interval
<1>5. f \in Surjection(S, 1 .. N)
  <2> HIDE DEF f
  <2> QED
    BY <1>3, <1>4, FS_Injection
<1>6. \A i \in 1 .. N : \E h \in S : Place(h) = i
  BY <1>5 DEF Surjection
<1> HIDE DEF Place, N
<1>7. \A i \in 1 .. N : s[i] \in S /\ Place(s[i]) = i
  BY <1>6
<1>8. ASSUME NEW i \in 1 .. N, NEW j \in 1 .. N, i < j
      PROVE  s[i] < s[j]
  <2>1. s[i] \in S /\ s[j] \in S /\ Place(s[i]) = i /\ Place(s[j]) = j
    BY <1>7
  <2> HIDE DEF s
  <2>2. ~(s[j] < s[i]) /\ s[i] # s[j]
    <3>1. s[j] < s[i] => Place(s[j]) < Place(s[i])
      BY <1>2, <2>1
    <3>2. s[j] < s[i] => j < i
      BY <2>1, <3>1
    <3> QED
      BY <1>0, <1>8, <2>1, <3>2
  <2>3. s[i] \in Nat /\ s[j] \in Nat
    BY <2>1
  <2> QED
    BY <2>2, <2>3
<1>9. s \in [1 .. N -> S]
  BY <1>7
<1> QED
  BY <1>8, <1>9 DEF N

\* ByHash lists the hashes of a set, each once, in ascending order.
LEMMA Sorted ==
    ASSUME NEW S \in SUBSET Hashes
    PROVE  /\ ByHash(S) \in Seq(S) /\ Ascending(ByHash(S)) /\ ToSet(ByHash(S)) = S
           /\ S # {} => ByHash(S) # <<>>
<1> DEFINE N == Cardinality(S)
           s == ByHash(S)
<1>1. S \in SUBSET Nat /\ IsFiniteSet(S)
  BY StoreAssumption, FS_Subset
<1>2. N \in Nat
  BY <1>1, FS_CardinalityType
<1>3. s \in [1 .. N -> S] /\ \A i, j \in 1 .. N : i < j => s[i] < s[j]
  BY <1>1, Listed DEF ByHash
<1> HIDE DEF s
<1>4. \A i, j \in 1 .. N : s[i] = s[j] => i = j
  <2>1. \A i \in 1 .. N : s[i] \in Nat
    BY <1>1, <1>3
  <2> HIDE DEF N
  <2> QED
    BY <1>2, <1>3, <2>1
<1>5. s \in Injection(1 .. N, S)
  BY <1>3, <1>4 DEF Injection, IsInjective
<1>6. IsFiniteSet(1 .. N) /\ Cardinality(1 .. N) = N
  <2> HIDE DEF N
  <2> QED
    BY <1>2, FS_Interval
<1>7. s \in Surjection(1 .. N, S)
  BY <1>1, <1>5, <1>6, FS_Injection
<1> HIDE DEF N
<1>8. s \in Seq(S) /\ Len(s) = N
  BY <1>2, <1>3
<1>9. ToSet(s) = S
  BY <1>3, <1>7, <1>8 DEF Surjection, ToSet
<1>10. S # {} => N # 0
  BY <1>3, <1>9 DEF ToSet
<1> QED
  BY <1>3, <1>8, <1>9, <1>10 DEF Ascending, s
-----------------------------------------------------------------------------
(* The calls and what they note. *)

Mime == Mimes \union {NoMime}
Held == [hash : Hashes, mime : Mime]
Call == [op : {"none", "put", "get", "delete", "list"}, at : {"start", "sidecar", "content", "info", "end"},
         todo : Seq(Hashes), mime : Mime, answer : Seq(Hashes \union Mime), ok : BOOLEAN,
         values : SUBSET Held, always : SUBSET Hashes, ever : SUBSET Hashes]

Typed ==
    /\ backing \in {"none", "files", "rows"}
    /\ content \subseteq Hashes /\ shards \subseteq Hashes
    /\ sidecar \in [Hashes -> Mime]
    /\ call \in [Users -> Call]

\* Where a call is, for the store there is and what it was called with.
Placed(u) ==
    LET c == call[u]
    IN  /\ c.at # "end" => backing # "none" /\ c.op # "none"
        /\ c.at = "start" /\ c.op = "list" => backing = "files" \/ c.todo = <<>>
        /\ c.at = "sidecar" => backing = "files" /\ c.op \in {"put", "delete"}
        /\ c.at = "content" => backing = "files" /\ c.op = "put"
        /\ c.at = "info" => backing = "files" /\ c.op \in {"get", "list"} /\ c.todo # <<>>
        /\ c.op = "put" /\ (c.at # "end" \/ c.ok) => c.mime \in Mimes /\ \E h \in Hashes : c.todo = <<h>>
        /\ c.op = "get" => \E h \in Hashes : c.todo = <<h>>
        /\ c.op = "delete" => c.mime = NoMime /\ (c.at # "end" => c.todo # <<>>)

AllPlaced == \A u \in Users : Placed(u)

\* The fields of a call, one by one.
LEMMA CallFields ==
    ASSUME NEW c \in Call
    PROVE  /\ c.op \in {"none", "put", "get", "delete", "list"}
           /\ c.at \in {"start", "sidecar", "content", "info", "end"}
           /\ c.todo \in Seq(Hashes) /\ c.mime \in Mime /\ c.answer \in Seq(Hashes \union Mime) /\ c.ok \in BOOLEAN
           /\ c.values \in SUBSET Held /\ c.always \in SUBSET Hashes /\ c.ever \in SUBSET Hashes
  BY DEF Call

\* What the store holds, and what it is being given, are media types of hashes.
LEMMA HeldTyped ==
    ASSUME Typed, AllPlaced
    PROVE  HeldNow \subseteq Held /\ Given \subseteq Held
<1>1. HeldNow \subseteq Held
  BY DEF Typed, HeldNow, HeldAs, Held, Mime
<1>2. ASSUME NEW u \in Users, call[u].op = "put", call[u].at # "end"
      PROVE  Head(call[u].todo) \in Hashes /\ call[u].mime \in Mime
  <2>1. PICK h \in Hashes : call[u].todo = <<h>>
    BY <1>2 DEF AllPlaced, Placed
  <2>2. call[u].mime \in Mimes
    BY <1>2 DEF AllPlaced, Placed
  <2> QED
    BY <2>1, <2>2 DEF Mime
<1> QED
  BY <1>1, <1>2 DEF Given, Held

\* A call that is watched only notes what it sees.
LEMMA Watched ==
    ASSUME Typed, AllPlaced, NEW c \in Call, content' \subseteq Hashes, sidecar' \in [Hashes -> Mime]
    PROVE  /\ Watch(c) \in Call
           /\ Watch(c).op = c.op /\ Watch(c).at = c.at /\ Watch(c).todo = c.todo
           /\ Watch(c).mime = c.mime /\ Watch(c).answer = c.answer /\ Watch(c).ok = c.ok
           /\ c.at = "end" => Watch(c) = c
           /\ c.at # "end" /\ c.op # "list" =>
                Watch(c).values = c.values \union HeldNow' \union (IF c.op = "get" THEN Given ELSE {})
           /\ c.at # "end" /\ c.op = "list" =>
                Watch(c).always = c.always \intersect content' /\ Watch(c).ever = c.ever \union content'
<1>1. CASE c.at = "end"
  BY <1>1 DEF Watch
<1>2. CASE c.at # "end"
  <2> DEFINE values == IF c.op = "list" THEN {}
                       ELSE c.values \union HeldNow' \union (IF c.op = "get" THEN Given ELSE {})
             always == IF c.op = "list" THEN c.always \intersect content' ELSE {}
             ever == IF c.op = "list" THEN c.ever \union content' ELSE {}
  <2>1. Watch(c) = [c EXCEPT !.values = values, !.always = always, !.ever = ever]
    BY <1>2 DEF Watch
  <2>2. values \subseteq Held /\ always \subseteq Hashes /\ ever \subseteq Hashes
    <3>1. HeldNow' \subseteq Held
      BY DEF HeldNow, HeldAs, Held, Mime
    <3>2. c.values \subseteq Held /\ c.always \subseteq Hashes /\ c.ever \subseteq Hashes
      BY CallFields
    <3> QED
      BY <3>1, <3>2, HeldTyped
  <2> HIDE DEF values, always, ever
  <2>3. /\ Watch(c) \in Call
        /\ Watch(c).op = c.op /\ Watch(c).at = c.at /\ Watch(c).todo = c.todo
        /\ Watch(c).mime = c.mime /\ Watch(c).answer = c.answer /\ Watch(c).ok = c.ok
        /\ Watch(c).values = values /\ Watch(c).always = always /\ Watch(c).ever = ever
    BY <2>1, <2>2 DEF Call
  <2> QED
    BY <1>2, <2>3 DEF values, always, ever
<1> QED
  BY <1>1, <1>2

\* A call that has a hash to treat has one.
LEMMA Targets ==
    ASSUME Typed, NEW u \in Users, call[u].todo # <<>>
    PROVE  /\ TargetHash(u) \in Hashes /\ Tail(call[u].todo) \in Seq(Hashes)
           /\ TargetHash(u) \in ToSet(call[u].todo)
<1>1. call[u].todo \in Seq(Hashes)
  BY CallFields DEF Typed
<1>2. Len(call[u].todo) >= 1 /\ call[u].todo[1] \in Hashes /\ Head(call[u].todo) = call[u].todo[1]
  BY <1>1
<1>3. TargetHash(u) = call[u].todo[1]
  BY <1>2 DEF TargetHash
<1>4. 1 \in DOMAIN call[u].todo
  BY <1>1, <1>2
<1> QED
  BY <1>1, <1>2, <1>3, <1>4 DEF ToSet

\* The calls that have a hash to treat.
LEMMA HasTarget ==
    ASSUME Typed, AllPlaced, NEW u \in Users, call[u].at # "end",
           call[u].op \in {"put", "get", "delete"} \/ call[u].at = "info"
    PROVE  call[u].todo # <<>> /\ TargetHash(u) \in Hashes /\ TargetHash(u) \in ToSet(call[u].todo)
<1>1. call[u].todo # <<>>
  <2>1. \A h \in Hashes : <<h>> # <<>>
    OBVIOUS
  <2> QED
    BY <2>1 DEF AllPlaced, Placed
<1> QED
  BY <1>1, Targets

\* Every step keeps what is stored well formed.
LEMMA StoreStays ==
    ASSUME Typed, AllPlaced, StoreNext
    PROVE  /\ backing' \in {"none", "files", "rows"} /\ (backing # "none" => backing' = backing)
           /\ content' \subseteq Hashes /\ shards' \subseteq Hashes /\ sidecar' \in [Hashes -> Mime]
<1> USE DEF Typed
<1>1. ASSUME NEW k \in {"files", "rows"}, OpenStore(k)
      PROVE  /\ backing' \in {"none", "files", "rows"} /\ (backing # "none" => backing' = backing)
             /\ UNCHANGED <<content, sidecar, shards>>
  BY <1>1 DEF OpenStore
<1>2. ASSUME NEW u \in Users, CallBegin(u) \/ Fail(u)
      PROVE  UNCHANGED <<backing, content, sidecar, shards>>
  BY <1>2 DEF CallBegin, GetBegin, PutBegin, PutRefused, DeleteBegin, ListBegin, BeginsCall, Fail, Unwritten
<1>3. CrashStore => UNCHANGED <<backing, content, sidecar, shards>>
  BY DEF CrashStore, Unwritten
<1>4. ASSUME NEW u \in Users,
             PutStat(u) \/ GetContent(u) \/ GetInfo(u) \/ GetRow(u) \/ ListEntry(u) \/ ListInfo(u) \/ ListRows(u)
      PROVE  UNCHANGED <<backing, content, sidecar, shards>>
  BY <1>4 DEF PutStat, GetContent, GetInfo, GetRow, ListEntry, ListInfo, ListRows, Unwritten
<1>5. ASSUME NEW u \in Users, PutSidecar(u) \/ PutContent(u) \/ PutRow(u)
      PROVE  /\ UNCHANGED backing
             /\ content' \subseteq Hashes /\ shards' \subseteq Hashes /\ sidecar' \in [Hashes -> Mime]
  <2>1. TargetHash(u) \in Hashes /\ call[u].mime \in Mime
    BY <1>5, HasTarget, CallFields DEF PutSidecar, PutContent, PutRow, CallAt
  <2> QED
    BY <1>5, <2>1 DEF PutSidecar, PutContent, PutRow
<1>6. ASSUME NEW u \in Users, DeleteContent(u) \/ DeleteSidecar(u) \/ DeleteRows(u)
      PROVE  /\ UNCHANGED <<backing, shards>>
             /\ content' \subseteq Hashes /\ sidecar' \in [Hashes -> Mime]
  BY <1>6 DEF DeleteContent, DeleteSidecar, DeleteRows, Mime
<1> QED
  BY <1>1, <1>2, <1>3, <1>4, <1>5, <1>6 DEF StoreNext, CallStep

\* A call of a user comes to a place, with hashes left and an answer; every call
\* in progress notes what it sees.
Goes(u, at, todo, answer, ok) ==
    /\ call' \in [Users -> Call]
    /\ \A x \in Users \ {u} : call'[x] = Watch(call[x])
    /\ call'[u].op = call[u].op /\ call'[u].mime = call[u].mime
    /\ call'[u].at = at /\ call'[u].todo = todo /\ call'[u].answer = answer /\ (call'[u].ok <=> ok)
    /\ call'[u].values = Watch(call[u]).values
    /\ call'[u].always = Watch(call[u]).always /\ call'[u].ever = Watch(call[u]).ever

\* What a change of a call does to the calls, whichever fields it changes.
LEMMA Going ==
    ASSUME Typed, AllPlaced, content' \subseteq Hashes, sidecar' \in [Hashes -> Mime], NEW u \in Users,
           NEW at \in {"start", "sidecar", "content", "info", "end"}, NEW todo \in Seq(Hashes),
           NEW answer \in Seq(Hashes \union Mime), NEW ok \in BOOLEAN,
           CallIs(u, [Watch(call[u]) EXCEPT !.at = at, !.todo = todo, !.answer = answer, !.ok = ok])
    PROVE  Goes(u, at, todo, answer, ok)
<1> DEFINE w == Watch(call[u])
           c == [w EXCEPT !.at = at, !.todo = todo, !.answer = answer, !.ok = ok]
<1>1. \A x \in Users : Watch(call[x]) \in Call
  BY Watched DEF Typed
<1>2. w \in Call /\ w.op = call[u].op /\ w.mime = call[u].mime
  BY Watched DEF Typed
<1> HIDE DEF w
<1>3. /\ c \in Call /\ c.op = w.op /\ c.mime = w.mime /\ c.at = at /\ c.todo = todo /\ c.answer = answer
      /\ (c.ok <=> ok) /\ c.values = w.values /\ c.always = w.always /\ c.ever = w.ever
  BY <1>2 DEF Call
<1>4. CallIs(u, c)
  BY DEF w
<1> HIDE DEF c
<1>5. call' \in [Users -> Call] /\ call'[u] = c /\ \A x \in Users \ {u} : call'[x] = Watch(call[x])
  BY <1>1, <1>3, <1>4 DEF CallIs
<1> QED
  BY <1>2, <1>3, <1>5 DEF Goes, w

\* What is left out of a change stays.
LEMMA Fills ==
    ASSUME NEW w \in Call, NEW at, NEW todo, NEW answer
    PROVE  /\ [w EXCEPT !.at = at] = [w EXCEPT !.at = at, !.todo = w.todo, !.answer = w.answer, !.ok = w.ok]
           /\ [w EXCEPT !.at = at, !.answer = answer] = [w EXCEPT !.at = at, !.todo = w.todo, !.answer = answer, !.ok = w.ok]
           /\ [w EXCEPT !.answer = answer] = [w EXCEPT !.at = w.at, !.todo = w.todo, !.answer = answer, !.ok = w.ok]
           /\ [w EXCEPT !.todo = todo] = [w EXCEPT !.at = w.at, !.todo = todo, !.answer = w.answer, !.ok = w.ok]
           /\ [w EXCEPT !.at = at, !.todo = todo] = [w EXCEPT !.at = at, !.todo = todo, !.answer = w.answer, !.ok = w.ok]
           /\ [w EXCEPT !.at = at, !.todo = todo, !.answer = answer]
              = [w EXCEPT !.at = at, !.todo = todo, !.answer = answer, !.ok = w.ok]
           /\ [w EXCEPT !.at = at, !.ok = FALSE] = [w EXCEPT !.at = at, !.todo = w.todo, !.answer = w.answer, !.ok = FALSE]
  BY DEF Call

\* The changes of a call that the steps make.
LEMMA Goings ==
    ASSUME Typed, AllPlaced, content' \subseteq Hashes, sidecar' \in [Hashes -> Mime], NEW u \in Users,
           NEW at \in {"start", "sidecar", "content", "info", "end"}, NEW todo \in Seq(Hashes),
           NEW answer \in Seq(Hashes \union Mime)
    PROVE  LET c == call[u]
               w == Watch(call[u])
           IN  /\ CallIs(u, [w EXCEPT !.at = at]) => Goes(u, at, c.todo, c.answer, c.ok)
               /\ CallIs(u, [w EXCEPT !.at = at, !.answer = answer]) => Goes(u, at, c.todo, answer, c.ok)
               /\ CallIs(u, [w EXCEPT !.answer = answer]) => Goes(u, c.at, c.todo, answer, c.ok)
               /\ CallIs(u, [w EXCEPT !.todo = todo]) => Goes(u, c.at, todo, c.answer, c.ok)
               /\ CallIs(u, [w EXCEPT !.at = at, !.todo = todo]) => Goes(u, at, todo, c.answer, c.ok)
               /\ CallIs(u, [w EXCEPT !.at = at, !.todo = todo, !.answer = answer])
                  => Goes(u, at, todo, answer, c.ok)
               /\ CallIs(u, [w EXCEPT !.at = at, !.ok = FALSE]) => Goes(u, at, c.todo, c.answer, FALSE)
<1> DEFINE c == call[u]
           w == Watch(c)
<1>1. c \in Call
  BY DEF Typed
<1>2. /\ c.at \in {"start", "sidecar", "content", "info", "end"} /\ c.todo \in Seq(Hashes)
      /\ c.answer \in Seq(Hashes \union Mime) /\ c.ok \in BOOLEAN
  BY <1>1, CallFields
<1>3. w \in Call /\ w.at = c.at /\ w.todo = c.todo /\ w.answer = c.answer /\ w.ok = c.ok
  BY <1>1, Watched
<1>4. ASSUME NEW a \in {"start", "sidecar", "content", "info", "end"}, NEW t \in Seq(Hashes),
             NEW s \in Seq(Hashes \union Mime), NEW ok \in BOOLEAN,
             CallIs(u, [w EXCEPT !.at = a, !.todo = t, !.answer = s, !.ok = ok])
      PROVE  Goes(u, a, t, s, ok)
  BY <1>4, Going
<1> HIDE DEF w
<1>5. /\ [w EXCEPT !.at = at] = [w EXCEPT !.at = at, !.todo = c.todo, !.answer = c.answer, !.ok = c.ok]
      /\ [w EXCEPT !.at = at, !.answer = answer] = [w EXCEPT !.at = at, !.todo = c.todo, !.answer = answer, !.ok = c.ok]
      /\ [w EXCEPT !.answer = answer] = [w EXCEPT !.at = c.at, !.todo = c.todo, !.answer = answer, !.ok = c.ok]
      /\ [w EXCEPT !.todo = todo] = [w EXCEPT !.at = c.at, !.todo = todo, !.answer = c.answer, !.ok = c.ok]
      /\ [w EXCEPT !.at = at, !.todo = todo] = [w EXCEPT !.at = at, !.todo = todo, !.answer = c.answer, !.ok = c.ok]
      /\ [w EXCEPT !.at = at, !.todo = todo, !.answer = answer]
         = [w EXCEPT !.at = at, !.todo = todo, !.answer = answer, !.ok = c.ok]
      /\ [w EXCEPT !.at = at, !.ok = FALSE] = [w EXCEPT !.at = at, !.todo = c.todo, !.answer = c.answer, !.ok = FALSE]
  <2> HIDE DEF c
  <2>1. /\ [w EXCEPT !.at = at] = [w EXCEPT !.at = at, !.todo = w.todo, !.answer = w.answer, !.ok = w.ok]
        /\ [w EXCEPT !.at = at, !.answer = answer]
           = [w EXCEPT !.at = at, !.todo = w.todo, !.answer = answer, !.ok = w.ok]
        /\ [w EXCEPT !.answer = answer] = [w EXCEPT !.at = w.at, !.todo = w.todo, !.answer = answer, !.ok = w.ok]
        /\ [w EXCEPT !.todo = todo] = [w EXCEPT !.at = w.at, !.todo = todo, !.answer = w.answer, !.ok = w.ok]
        /\ [w EXCEPT !.at = at, !.todo = todo]
           = [w EXCEPT !.at = at, !.todo = todo, !.answer = w.answer, !.ok = w.ok]
        /\ [w EXCEPT !.at = at, !.todo = todo, !.answer = answer]
           = [w EXCEPT !.at = at, !.todo = todo, !.answer = answer, !.ok = w.ok]
        /\ [w EXCEPT !.at = at, !.ok = FALSE]
           = [w EXCEPT !.at = at, !.todo = w.todo, !.answer = w.answer, !.ok = FALSE]
    BY <1>3, Fills
  <2> QED
    BY <1>3, <2>1, Zenon
<1>6. FALSE \in BOOLEAN
  OBVIOUS
<1> HIDE DEF c
<1>7. CallIs(u, [w EXCEPT !.at = at]) => Goes(u, at, c.todo, c.answer, c.ok)
  <2>1. CallIs(u, [w EXCEPT !.at = at])
        => CallIs(u, [w EXCEPT !.at = at, !.todo = c.todo, !.answer = c.answer, !.ok = c.ok])
    BY <1>5
  <2> QED
    BY <1>2, <1>4, <1>6, <2>1
<1>8. CallIs(u, [w EXCEPT !.at = at, !.answer = answer]) => Goes(u, at, c.todo, answer, c.ok)
  <2>1. CallIs(u, [w EXCEPT !.at = at, !.answer = answer])
        => CallIs(u, [w EXCEPT !.at = at, !.todo = c.todo, !.answer = answer, !.ok = c.ok])
    BY <1>5
  <2> QED
    BY <1>2, <1>4, <1>6, <2>1
<1>9. CallIs(u, [w EXCEPT !.answer = answer]) => Goes(u, c.at, c.todo, answer, c.ok)
  <2>1. CallIs(u, [w EXCEPT !.answer = answer])
        => CallIs(u, [w EXCEPT !.at = c.at, !.todo = c.todo, !.answer = answer, !.ok = c.ok])
    BY <1>5
  <2> QED
    BY <1>2, <1>4, <1>6, <2>1
<1>10. CallIs(u, [w EXCEPT !.todo = todo]) => Goes(u, c.at, todo, c.answer, c.ok)
  <2>1. CallIs(u, [w EXCEPT !.todo = todo])
        => CallIs(u, [w EXCEPT !.at = c.at, !.todo = todo, !.answer = c.answer, !.ok = c.ok])
    BY <1>5
  <2> QED
    BY <1>2, <1>4, <1>6, <2>1
<1>11. CallIs(u, [w EXCEPT !.at = at, !.todo = todo]) => Goes(u, at, todo, c.answer, c.ok)
  <2>1. CallIs(u, [w EXCEPT !.at = at, !.todo = todo])
        => CallIs(u, [w EXCEPT !.at = at, !.todo = todo, !.answer = c.answer, !.ok = c.ok])
    BY <1>5
  <2> QED
    BY <1>2, <1>4, <1>6, <2>1
<1>12. CallIs(u, [w EXCEPT !.at = at, !.todo = todo, !.answer = answer]) => Goes(u, at, todo, answer, c.ok)
  <2>1. CallIs(u, [w EXCEPT !.at = at, !.todo = todo, !.answer = answer])
        => CallIs(u, [w EXCEPT !.at = at, !.todo = todo, !.answer = answer, !.ok = c.ok])
    BY <1>5
  <2> QED
    BY <1>2, <1>4, <1>6, <2>1
<1>13. CallIs(u, [w EXCEPT !.at = at, !.ok = FALSE]) => Goes(u, at, c.todo, c.answer, FALSE)
  <2>1. CallIs(u, [w EXCEPT !.at = at, !.ok = FALSE])
        => CallIs(u, [w EXCEPT !.at = at, !.todo = c.todo, !.answer = c.answer, !.ok = FALSE])
    BY <1>5
  <2> QED
    BY <1>2, <1>4, <1>6, <2>1
<1> QED
  BY <1>7, <1>8, <1>9, <1>10, <1>11, <1>12, <1>13 DEF c, w

\* Where the steps of a call lead.
LEMMA CallSteps ==
    ASSUME Typed, AllPlaced, content' \subseteq Hashes, sidecar' \in [Hashes -> Mime], NEW u \in Users
    PROVE  LET c == call[u]
               t == Tail(c.todo)
               h == TargetHash(u)
           IN  /\ PutStat(u) => Goes(u, IF h \in content THEN "end" ELSE "sidecar", c.todo, c.answer, c.ok)
               /\ PutSidecar(u) => Goes(u, "content", c.todo, c.answer, c.ok)
               /\ PutContent(u) \/ PutRow(u) \/ DeleteRows(u) => Goes(u, "end", c.todo, c.answer, c.ok)
               /\ GetContent(u) => IF h \in content THEN Goes(u, "info", c.todo, c.answer, c.ok)
                                   ELSE Goes(u, "end", c.todo, <<NoMime>>, c.ok)
               /\ GetInfo(u) => Goes(u, "end", c.todo, <<sidecar[h]>>, c.ok)
               /\ GetRow(u) => Goes(u, "end", c.todo, <<HeldAs(content, sidecar, h)>>, c.ok)
               /\ DeleteContent(u) => Goes(u, "sidecar", c.todo, c.answer, c.ok)
               /\ DeleteSidecar(u) => Goes(u, IF t = <<>> THEN "end" ELSE "start", t, c.answer, c.ok)
               /\ Fail(u) => Goes(u, "end", c.todo, c.answer, FALSE)
<1> DEFINE c == call[u]
<1>1. c.answer \in Seq(Hashes \union Mime) /\ c.todo \in Seq(Hashes)
  BY CallFields DEF Typed
<1>2. c.at # "end" /\ (c.op \in {"put", "get", "delete"} \/ c.at = "info") =>
        /\ TargetHash(u) \in Hashes /\ c.todo # <<>>
        /\ sidecar[TargetHash(u)] \in Mime /\ HeldAs(content, sidecar, TargetHash(u)) \in Mime
  BY HasTarget DEF Typed, HeldAs, Mime
<1>3. \A m \in Mime : <<m>> \in Seq(Hashes \union Mime)
  OBVIOUS
<1>4. NoMime \in Mime
  BY DEF Mime
<1>5. PutStat(u) => Goes(u, IF TargetHash(u) \in content THEN "end" ELSE "sidecar", c.todo, c.answer, c.ok)
  BY <1>1, Goings DEF PutStat, Returns
<1>6. PutSidecar(u) => Goes(u, "content", c.todo, c.answer, c.ok)
  BY <1>1, Goings DEF PutSidecar
<1>7. PutContent(u) \/ PutRow(u) \/ DeleteRows(u) => Goes(u, "end", c.todo, c.answer, c.ok)
  BY <1>1, Goings DEF PutContent, PutRow, DeleteRows, Returns
<1>8. GetContent(u) => IF TargetHash(u) \in content THEN Goes(u, "info", c.todo, c.answer, c.ok)
                       ELSE Goes(u, "end", c.todo, <<NoMime>>, c.ok)
  BY <1>1, <1>3, <1>4, Goings DEF GetContent, AnswersCall
<1>9. GetInfo(u) => Goes(u, "end", c.todo, <<sidecar[TargetHash(u)]>>, c.ok)
  BY <1>1, <1>2, <1>3, Goings DEF GetInfo, AnswersCall, CallAt
<1>10. GetRow(u) => Goes(u, "end", c.todo, <<HeldAs(content, sidecar, TargetHash(u))>>, c.ok)
  BY <1>1, <1>2, <1>3, Goings DEF GetRow, AnswersCall, CallAt
<1>11. DeleteContent(u) => Goes(u, "sidecar", c.todo, c.answer, c.ok)
  BY <1>1, Goings DEF DeleteContent
<1>12. DeleteSidecar(u) => Goes(u, IF Tail(c.todo) = <<>> THEN "end" ELSE "start", Tail(c.todo), c.answer, c.ok)
  <2> SUFFICES ASSUME DeleteSidecar(u)
               PROVE  Goes(u, IF Tail(c.todo) = <<>> THEN "end" ELSE "start", Tail(c.todo), c.answer, c.ok)
    OBVIOUS
  <2>1. Tail(c.todo) \in Seq(Hashes)
    BY <1>2, Targets DEF DeleteSidecar, CallAt
  <2>2. CallIs(u, [Watch(call[u]) EXCEPT !.at = IF Tail(c.todo) = <<>> THEN "end" ELSE "start", !.todo = Tail(c.todo)])
    BY DEF DeleteSidecar
  <2> QED
    BY <1>1, <2>1, <2>2, Goings
<1>13. Fail(u) => Goes(u, "end", c.todo, c.answer, FALSE)
  BY <1>1, Goings DEF Fail
<1> QED
  BY <1>5, <1>6, <1>7, <1>8, <1>9, <1>10, <1>11, <1>12, <1>13

\* A page is the hashes that follow, in ascending order and without a gap.
LEMMA PageTyped ==
    ASSUME content \subseteq Hashes, NEW after
    PROVE  NextPage(after) \in Seq(Hashes)
<1> DEFINE S == {h \in content : h > after}
           rest == ByHash(S)
<1>1. rest \in Seq(Hashes)
  BY Sorted
<1> HIDE DEF rest
<1>2. ListBatch \in Nat /\ Len(rest) \in Nat
  BY <1>1, StoreAssumption
<1>3. (IF Len(rest) < ListBatch THEN Len(rest) ELSE ListBatch) \in 0 .. Len(rest)
  BY <1>2
<1>4. SubSeq(rest, 1, IF Len(rest) < ListBatch THEN Len(rest) ELSE ListBatch) \in Seq(Hashes)
  BY <1>1, <1>2, <1>3
<1> QED
  BY <1>4 DEF NextPage, rest

\* A page begins after the last hash read and leaves none out.
LEMMA PageFollows ==
    ASSUME content \subseteq Hashes, NEW after \in Nat
    PROVE  LET rows == NextPage(after)
           IN  /\ Ascending(rows)
               /\ \A i \in 1 .. Len(rows) : rows[i] \in content /\ rows[i] > after
               /\ rows = <<>> => \A h \in content : h <= after
               /\ rows # <<>> => \A h \in content : after < h /\ h <= rows[Len(rows)] => h \in ToSet(rows)
<1> DEFINE S == {h \in content : h > after}
           rest == ByHash(S)
           k == IF Len(rest) < ListBatch THEN Len(rest) ELSE ListBatch
           rows == SubSeq(rest, 1, k)
<1>1. rest \in Seq(S) /\ Ascending(rest) /\ ToSet(rest) = S /\ (S # {} => rest # <<>>)
  BY Sorted
<1> HIDE DEF rest
<1>2. ListBatch \in Nat /\ ListBatch >= 1 /\ Len(rest) \in Nat /\ \A h \in content : h \in Nat
  BY <1>1, StoreAssumption
<1>3. k \in 0 .. Len(rest) /\ (rest # <<>> => k >= 1) /\ (k < Len(rest) => k = ListBatch)
  BY <1>1, <1>2
<1> HIDE DEF k
<1>4. Len(rows) = k /\ \A i \in 1 .. k : rows[i] = rest[i]
  BY <1>1, <1>2, <1>3
<1> HIDE DEF rows
<1>5. \A i \in 1 .. Len(rest) : rest[i] \in content /\ rest[i] > after /\ rest[i] \in Nat
  BY <1>1, <1>2
<1>6. Ascending(rows)
  BY <1>1, <1>3, <1>4 DEF Ascending
<1>7. \A i \in 1 .. Len(rows) : rows[i] \in content /\ rows[i] > after
  BY <1>3, <1>4, <1>5
<1>8. rows = <<>> => \A h \in content : h <= after
  <2>1. rows = <<>> => k = 0
    BY <1>4
  <2>2. k = 0 => S = {}
    BY <1>1, <1>3
  <2> QED
    BY <1>2, <2>1, <2>2
<1>9. ASSUME rows # <<>>, NEW h \in content, after < h, h <= rows[Len(rows)]
      PROVE  h \in ToSet(rows)
  <2>1. PICK i \in 1 .. Len(rest) : rest[i] = h
    BY <1>1, <1>9 DEF ToSet
  <2>2. k >= 1
    BY <1>3, <1>4, <1>9
  <2>3. i <= k
    <3>1. k < i => rest[k] < rest[i]
      BY <1>1, <1>3, <2>2 DEF Ascending
    <3>2. rest[k] = rows[Len(rows)] /\ rest[k] \in Nat /\ rest[i] \in Nat
      BY <1>3, <1>4, <1>5, <2>2
    <3> QED
      BY <1>3, <1>9, <2>1, <3>1, <3>2
  <2>4. rows[i] = h /\ i \in DOMAIN rows
    BY <1>3, <1>4, <2>1, <2>3
  <2> QED
    BY <2>4 DEF ToSet
<1>10. rows = NextPage(after)
  BY DEF rows, k, rest, NextPage
<1> QED
  BY <1>6, <1>7, <1>8, <1>9, <1>10

\* Where the steps of a walk lead.
LEMMA ListSteps ==
    ASSUME Typed, AllPlaced, content' \subseteq Hashes, sidecar' \in [Hashes -> Mime], NEW u \in Users
    PROVE  LET c == call[u]
               t == Tail(c.todo)
               h == TargetHash(u)
           IN  /\ ListEntry(u) => \/ c.todo = <<>> /\ Goes(u, "end", c.todo, c.answer, c.ok)
                                  \/ c.todo # <<>> /\ h \in content /\ Goes(u, "info", c.todo, c.answer, c.ok)
                                  \/ c.todo # <<>> /\ h \notin content /\ Goes(u, c.at, t, c.answer, c.ok)
               /\ ListInfo(u) => Goes(u, "start", t, IF sidecar[h] = NoMime THEN c.answer ELSE Append(c.answer, h), c.ok)
               /\ ListRows(u) => LET rows == NextPage(IF c.answer = <<>> THEN 0 ELSE Last(c.answer))
                                 IN  IF rows = <<>> THEN Goes(u, "end", c.todo, c.answer, c.ok)
                                     ELSE Goes(u, c.at, c.todo, c.answer \o rows, c.ok)
<1> DEFINE c == call[u]
           h == TargetHash(u)
<1>1. /\ c.answer \in Seq(Hashes \union Mime) /\ c.todo \in Seq(Hashes) /\ c.at = Watch(c).at
      /\ Watch(c).todo = c.todo /\ Watch(c).answer = c.answer
  BY CallFields, Watched DEF Typed
<1>2. c.todo # <<>> => Tail(c.todo) \in Seq(Hashes) /\ h \in Hashes
  BY Targets
<1>3. ASSUME ListEntry(u)
      PROVE  \/ c.todo = <<>> /\ Goes(u, "end", c.todo, c.answer, c.ok)
             \/ c.todo # <<>> /\ h \in content /\ Goes(u, "info", c.todo, c.answer, c.ok)
             \/ c.todo # <<>> /\ h \notin content /\ Goes(u, c.at, Tail(c.todo), c.answer, c.ok)
  BY <1>1, <1>2, <1>3, Goings DEF ListEntry, Returns
<1>4. ASSUME ListInfo(u)
      PROVE  Goes(u, "start", Tail(c.todo), IF sidecar[h] = NoMime THEN c.answer ELSE Append(c.answer, h), c.ok)
  <2>1. c.todo # <<>>
    BY <1>4, HasTarget DEF ListInfo, CallAt
  <2>2. Append(c.answer, h) \in Seq(Hashes \union Mime)
    BY <1>1, <1>2, <2>1
  <2>3. CallIs(u, [Watch(c) EXCEPT !.at = "start", !.todo = Tail(c.todo),
                                   !.answer = IF sidecar[h] = NoMime THEN c.answer ELSE Append(c.answer, h)])
    BY <1>1, <1>4 DEF ListInfo
  <2> QED
    BY <1>1, <1>2, <2>1, <2>2, <2>3, Goings
<1>5. ASSUME ListRows(u)
      PROVE  LET rows == NextPage(IF c.answer = <<>> THEN 0 ELSE Last(c.answer))
             IN  IF rows = <<>> THEN Goes(u, "end", c.todo, c.answer, c.ok)
                 ELSE Goes(u, c.at, c.todo, c.answer \o rows, c.ok)
  <2> DEFINE rows == NextPage(IF c.answer = <<>> THEN 0 ELSE Last(c.answer))
  <2>1. rows \in Seq(Hashes)
    BY PageTyped DEF Typed
  <2>2. c.answer \o rows \in Seq(Hashes \union Mime)
    BY <1>1, <2>1
  <2>3. IF rows = <<>> THEN CallIs(u, [Watch(c) EXCEPT !.at = "end"])
        ELSE CallIs(u, [Watch(c) EXCEPT !.answer = c.answer \o rows])
    BY <1>1, <1>5 DEF ListRows, Returns
  <2> HIDE DEF rows
  <2> QED
    BY <1>1, <2>2, <2>3, Goings DEF rows
<1> QED
  BY <1>3, <1>4, <1>5
-----------------------------------------------------------------------------
(* The calls that begin, and the well-formedness of all of them. *)

\* A call of a user begins.
Starts(u, op, todo, mime) ==
    /\ backing # "none" /\ call[u].at = "end"
    /\ call' \in [Users -> Call]
    /\ \A x \in Users \ {u} : call'[x] = Watch(call[x])
    /\ call'[u].op = op /\ call'[u].at = "start" /\ call'[u].todo = todo /\ call'[u].mime = mime
    /\ call'[u].answer = <<>>
    /\ op = "list" => call'[u].always = content /\ call'[u].ever = content

\* What BeginsCall does to the calls.
LEMMA Starting ==
    ASSUME Typed, AllPlaced, NEW u \in Users, NEW op \in {"put", "get", "delete", "list"},
           NEW todo \in Seq(Hashes), NEW mime \in Mime, BeginsCall(u, op, todo, mime)
    PROVE  Starts(u, op, todo, mime)
<1> DEFINE values == IF op = "list" THEN {} ELSE HeldNow
           always == IF op = "list" THEN content ELSE {}
           ever == IF op = "list" THEN content ELSE {}
           c == [Idle EXCEPT !.op = op, !.at = "start", !.todo = todo, !.mime = mime,
                             !.values = values, !.always = always, !.ever = ever]
<1>1. \A x \in Users : Watch(call[x]) \in Call
  BY Watched DEF Typed, BeginsCall, Unwritten
<1>2. CallIs(u, c) /\ backing # "none" /\ call[u].at = "end"
  BY DEF BeginsCall
<1>3. values \subseteq Held /\ always \subseteq Hashes /\ ever \subseteq Hashes
  BY HeldTyped DEF Typed
<1> HIDE DEF values, always, ever
<1>4. /\ c \in Call /\ c.op = op /\ c.at = "start" /\ c.todo = todo /\ c.mime = mime /\ c.answer = <<>>
      /\ c.always = always /\ c.ever = ever
  <2>1. <<>> \in Seq(Hashes \union Mime)
    OBVIOUS
  <2> QED
    BY <1>3, <2>1 DEF Idle, Call
<1> HIDE DEF c
<1>5. call' \in [Users -> Call] /\ call'[u] = c /\ \A x \in Users \ {u} : call'[x] = Watch(call[x])
  BY <1>1, <1>2, <1>4 DEF CallIs
<1> QED
  BY <1>2, <1>4, <1>5 DEF Starts, always, ever

\* A Put that is refused has done nothing.
LEMMA Refusing ==
    ASSUME Typed, AllPlaced, NEW u \in Users, PutRefused(u)
    PROVE  /\ call' \in [Users -> Call] /\ \A x \in Users \ {u} : call'[x] = Watch(call[x])
           /\ call'[u].op = "put" /\ call'[u].at = "end" /\ ~call'[u].ok
<1> DEFINE c == [Idle EXCEPT !.op = "put", !.ok = FALSE]
<1>1. \A x \in Users : Watch(call[x]) \in Call
  BY Watched DEF Typed, PutRefused, Unwritten
<1>2. CallIs(u, c)
  BY DEF PutRefused
<1>3. c \in Call /\ c.op = "put" /\ c.at = "end" /\ ~c.ok
  <2>1. <<>> \in Seq(Hashes \union Mime) /\ <<>> \in Seq(Hashes) /\ NoMime \in Mime
    BY DEF Mime
  <2> QED
    BY <2>1 DEF Idle, Call
<1> HIDE DEF c
<1> QED
  BY <1>1, <1>2, <1>3 DEF CallIs

\* With what the calls begin.
LEMMA BeginSteps ==
    ASSUME Typed, AllPlaced, NEW u \in Users, CallBegin(u)
    PROVE  \/ \E h \in Hashes : Starts(u, "get", <<h>>, NoMime)
           \/ \E h \in Hashes, m \in Mimes : Unrivalled(u, "put", <<h>>, m) /\ Starts(u, "put", <<h>>, m)
           \/ PutRefused(u)
           \/ \E gone \in SUBSET Hashes : /\ ByHash(gone) # <<>> /\ Unrivalled(u, "delete", ByHash(gone), NoMime)
                                          /\ Starts(u, "delete", ByHash(gone), NoMime)
           \/ Starts(u, "list", IF backing = "files" THEN ByHash(shards) ELSE <<>>, NoMime)
<1>1. NoMime \in Mime /\ \A m \in Mimes : m \in Mime
  BY DEF Mime
<1>2. \A h \in Hashes : <<h>> \in Seq(Hashes)
  OBVIOUS
<1>3. ASSUME NEW h \in Hashes, GetBegin(u, h)
      PROVE  Starts(u, "get", <<h>>, NoMime)
  BY <1>1, <1>2, <1>3, Starting DEF GetBegin
<1>4. ASSUME NEW h \in Hashes, NEW m \in Mimes, PutBegin(u, h, m)
      PROVE  Unrivalled(u, "put", <<h>>, m) /\ Starts(u, "put", <<h>>, m)
  BY <1>1, <1>2, <1>4, Starting DEF PutBegin
<1>5. ASSUME NEW gone \in SUBSET Hashes, DeleteBegin(u, ByHash(gone))
      PROVE  /\ ByHash(gone) # <<>> /\ Unrivalled(u, "delete", ByHash(gone), NoMime)
             /\ Starts(u, "delete", ByHash(gone), NoMime)
  <2>1. ByHash(gone) \in Seq(Hashes)
    BY Sorted
  <2> QED
    BY <1>1, <1>5, <2>1, Starting DEF DeleteBegin
<1>6. ASSUME ListBegin(u)
      PROVE  Starts(u, "list", IF backing = "files" THEN ByHash(shards) ELSE <<>>, NoMime)
  <2>1. (IF backing = "files" THEN ByHash(shards) ELSE <<>>) \in Seq(Hashes)
    BY Sorted DEF Typed
  <2> QED
    BY <1>1, <1>6, <2>1, Starting DEF ListBegin
<1> QED
  BY <1>3, <1>4, <1>5, <1>6 DEF CallBegin

\* A crash leaves no call.
LEMMA Crashing ==
    ASSUME CrashStore
    PROVE  call' \in [Users -> Call] /\ \A u \in Users : call'[u] = Idle
<1>1. Idle \in Call
  <2>1. <<>> \in Seq(Hashes \union Mime) /\ <<>> \in Seq(Hashes) /\ NoMime \in Mime
    BY DEF Mime
  <2> QED
    BY <2>1 DEF Idle, Call
<1> QED
  BY <1>1 DEF CrashStore

\* A user that acts: every other call in progress is watched.
Acts(u) == CallBegin(u) \/ CallStep(u) \/ Fail(u)

\* What a user does leaves the calls of the others watched.
LEMMA Others ==
    ASSUME Typed, AllPlaced, NEW u \in Users, Acts(u)
    PROVE  call' \in [Users -> Call] /\ \A x \in Users \ {u} : call'[x] = Watch(call[x])
<1>1. content' \subseteq Hashes /\ sidecar' \in [Hashes -> Mime]
  BY StoreStays DEF Acts, StoreNext
<1>2. CASE CallBegin(u)
  BY <1>2, BeginSteps, Refusing DEF Starts
<1>3. CASE Fail(u)
  BY <1>1, <1>3, CallSteps DEF Goes
<1>4. CASE ListEntry(u) \/ ListInfo(u) \/ ListRows(u)
  BY <1>1, <1>4, ListSteps DEF Goes
<1>5. CASE GetContent(u) \/ GetInfo(u) \/ GetRow(u)
  BY <1>1, <1>5, CallSteps DEF Goes
<1>6. CASE PutStat(u) \/ PutSidecar(u) \/ PutContent(u) \/ PutRow(u)
  BY <1>1, <1>6, CallSteps DEF Goes
<1>7. CASE DeleteContent(u) \/ DeleteSidecar(u) \/ DeleteRows(u)
  BY <1>1, <1>7, CallSteps DEF Goes
<1> QED
  BY <1>2, <1>3, <1>4, <1>5, <1>6, <1>7 DEF Acts, CallStep

\* What a step does to the call of one user.
LEMMA Everyone ==
    ASSUME Typed, AllPlaced, StoreNext, NEW x \in Users
    PROVE  /\ call' \in [Users -> Call]
           /\ \/ \E u \in Users \ {x} : Acts(u) /\ call'[x] = Watch(call[x])
              \/ /\ backing = "none" /\ call[x].at = "end" /\ call'[x] = call[x]
                 /\ UNCHANGED <<content, sidecar, shards>>
              \/ CrashStore /\ call'[x] = Idle
              \/ Acts(x)
<1>1. ASSUME NEW k \in {"files", "rows"}, OpenStore(k)
      PROVE  backing = "none" /\ call[x].at = "end" /\ UNCHANGED <<call, content, sidecar, shards>>
  BY <1>1 DEF OpenStore, AllPlaced, Placed
<1>2. CrashStore => call' \in [Users -> Call] /\ call'[x] = Idle
  BY Crashing
<1>3. ASSUME NEW u \in Users, Acts(u)
      PROVE  call' \in [Users -> Call] /\ (x # u => call'[x] = Watch(call[x]))
  BY <1>3, Others
<1> QED
  BY <1>1, <1>2, <1>3 DEF StoreNext, Acts, Typed

\* The steps of a call keep it where it may be.
LEMMA StepPlaced ==
    ASSUME Typed, AllPlaced, NEW u \in Users, CallStep(u) \/ Fail(u)
    PROVE  Placed(u)'
<1> DEFINE c == call[u]
<1>1. content' \subseteq Hashes /\ sidecar' \in [Hashes -> Mime] /\ (backing # "none" => backing' = backing)
  BY StoreStays DEF StoreNext
<1>2. Placed(u)
  BY DEF AllPlaced
<1>3. ASSUME NEW at, NEW todo, NEW answer, NEW ok, Goes(u, at, todo, answer, ok)
      PROVE  /\ call'[u].op = c.op /\ call'[u].mime = c.mime /\ call'[u].at = at /\ call'[u].todo = todo
             /\ (call'[u].ok <=> ok)
  BY <1>3 DEF Goes
<1>4. CASE PutStat(u)
  <2>1. c.op = "put" /\ c.at = "start" /\ backing = "files"
    BY <1>4 DEF PutStat, CallAt
  <2>2. Goes(u, "end", c.todo, c.answer, c.ok) \/ Goes(u, "sidecar", c.todo, c.answer, c.ok)
    BY <1>1, <1>4, CallSteps
  <2> QED
    BY <1>1, <1>2, <1>3, <2>1, <2>2 DEF Placed
<1>5. CASE PutSidecar(u)
  <2>1. c.op = "put" /\ c.at = "sidecar" /\ backing = "files" /\ Goes(u, "content", c.todo, c.answer, c.ok)
    BY <1>1, <1>2, <1>5, CallSteps DEF PutSidecar, CallAt, Placed
  <2> QED
    BY <1>1, <1>2, <1>3, <2>1 DEF Placed
<1>6. CASE PutContent(u) \/ PutRow(u) \/ DeleteRows(u)
  <2>1. c.op \in {"put", "delete"} /\ c.at # "end" /\ Goes(u, "end", c.todo, c.answer, c.ok)
    BY <1>1, <1>6, CallSteps DEF PutContent, PutRow, DeleteRows, CallAt
  <2> QED
    BY <1>1, <1>2, <1>3, <2>1 DEF Placed
<1>7. CASE GetContent(u) \/ GetInfo(u) \/ GetRow(u)
  <2>1. c.op = "get" /\ c.at # "end"
    BY <1>7 DEF GetContent, GetInfo, GetRow, CallAt
  <2>2. GetContent(u) => backing = "files"
    BY DEF GetContent
  <2>3. \/ \E answer : Goes(u, "end", c.todo, answer, c.ok)
        \/ backing = "files" /\ Goes(u, "info", c.todo, c.answer, c.ok)
    BY <1>1, <1>7, <2>2, CallSteps
  <2>4. c.todo # <<>>
    BY <2>1, HasTarget
  <2>5. CASE backing = "files" /\ Goes(u, "info", c.todo, c.answer, c.ok)
    BY <1>1, <1>2, <1>3, <2>1, <2>4, <2>5 DEF Placed
  <2>6. ASSUME NEW answer, Goes(u, "end", c.todo, answer, c.ok)
        PROVE  Placed(u)'
    BY <1>1, <1>2, <1>3, <2>1, <2>6 DEF Placed
  <2> QED
    BY <2>3, <2>5, <2>6
<1>8. CASE DeleteContent(u)
  <2>1. c.op = "delete" /\ c.at = "start" /\ backing = "files" /\ Goes(u, "sidecar", c.todo, c.answer, c.ok)
    BY <1>1, <1>8, CallSteps DEF DeleteContent, CallAt
  <2> QED
    BY <1>1, <1>2, <1>3, <2>1 DEF Placed
<1>9. CASE DeleteSidecar(u)
  <2>1. /\ c.op = "delete" /\ c.at = "sidecar"
        /\ Goes(u, IF Tail(c.todo) = <<>> THEN "end" ELSE "start", Tail(c.todo), c.answer, c.ok)
    BY <1>1, <1>9, CallSteps DEF DeleteSidecar, CallAt
  <2>2. /\ call'[u].op = "delete" /\ call'[u].mime = c.mime /\ call'[u].todo = Tail(c.todo)
        /\ call'[u].at = IF Tail(c.todo) = <<>> THEN "end" ELSE "start"
    BY <2>1 DEF Goes
  <2> QED
    BY <1>1, <1>2, <2>1, <2>2 DEF Placed
<1>10. CASE ListEntry(u) \/ ListInfo(u) \/ ListRows(u)
  <2>1. c.op = "list" /\ c.at # "end" /\ (ListEntry(u) => c.at = "start" /\ backing = "files")
    BY <1>10 DEF ListEntry, ListInfo, ListRows, CallAt
  <2>2. ListInfo(u) => backing = "files"
    BY <1>2 DEF ListInfo, CallAt, Placed
  <2>3. ListRows(u) => c.at = "start" /\ c.todo = <<>>
    BY <1>2 DEF ListRows, CallAt, Placed
  <2>4. \/ Goes(u, "end", c.todo, c.answer, c.ok)
        \/ backing = "files" /\ c.todo # <<>> /\ Goes(u, "info", c.todo, c.answer, c.ok)
        \/ backing = "files" /\ \E answer : Goes(u, "start", Tail(c.todo), answer, c.ok)
        \/ c.todo = <<>> /\ \E answer : Goes(u, "start", c.todo, answer, c.ok)
    BY <1>1, <1>10, <2>1, <2>2, <2>3, ListSteps, Zenon
  <2>5. CASE Goes(u, "end", c.todo, c.answer, c.ok)
    BY <1>1, <1>2, <1>3, <2>1, <2>5 DEF Placed
  <2>6. CASE backing = "files" /\ c.todo # <<>> /\ Goes(u, "info", c.todo, c.answer, c.ok)
    BY <1>1, <1>2, <1>3, <2>1, <2>6 DEF Placed
  <2>7. ASSUME NEW answer, backing = "files", Goes(u, "start", Tail(c.todo), answer, c.ok)
        PROVE  Placed(u)'
    BY <1>1, <1>2, <1>3, <2>1, <2>7 DEF Placed
  <2>8. ASSUME NEW answer, c.todo = <<>>, Goes(u, "start", c.todo, answer, c.ok)
        PROVE  Placed(u)'
    BY <1>1, <1>2, <1>3, <2>1, <2>8 DEF Placed
  <2> QED
    BY <2>4, <2>5, <2>6, <2>7, <2>8
<1>11. CASE Fail(u)
  <2>1. c.at # "end" /\ Goes(u, "end", c.todo, c.answer, FALSE)
    BY <1>1, <1>11, CallSteps DEF Fail
  <2>2. /\ call'[u].op = c.op /\ call'[u].mime = c.mime /\ call'[u].todo = c.todo
        /\ call'[u].at = "end" /\ ~call'[u].ok
    BY <2>1 DEF Goes
  <2> QED
    BY <1>1, <1>2, <2>1, <2>2 DEF Placed
<1> QED
  BY <1>4, <1>5, <1>6, <1>7, <1>8, <1>9, <1>10, <1>11 DEF CallStep

\* Every step keeps the calls well formed.
LEMMA WellFormed ==
    ASSUME Typed, AllPlaced, [StoreNext]_storeVars
    PROVE  Typed' /\ AllPlaced'
<1>1. CASE UNCHANGED storeVars
  BY <1>1 DEF storeVars, Typed, AllPlaced, Placed
<1>2. CASE StoreNext
  <2>1. Typed'
    <3>1. call' \in [Users -> Call]
      <4>1. CASE Users = {}
        <5>1. StoreNext => \E k \in {"files", "rows"} : OpenStore(k)
          BY <4>1 DEF StoreNext, CrashStore
        <5> QED
          BY <1>2, <5>1 DEF OpenStore, Typed
      <4> QED
        BY <1>2, <4>1, Everyone
    <3> QED
      BY <1>2, <3>1, StoreStays DEF Typed
  <2>2. ASSUME NEW x \in Users
        PROVE  Placed(x)'
    <3>1. backing # "none" => backing' = backing
      BY <1>2, StoreStays
    <3>2. Placed(x)
      BY DEF AllPlaced
    <3>3. ASSUME NEW u \in Users \ {x}, Acts(u), call'[x] = Watch(call[x])
          PROVE  Placed(x)'
      <4>1. content' \subseteq Hashes /\ sidecar' \in [Hashes -> Mime] /\ call[x] \in Call
        BY <1>2, StoreStays DEF Typed
      <4>2. /\ call'[x].op = call[x].op /\ call'[x].at = call[x].at /\ call'[x].todo = call[x].todo
            /\ call'[x].mime = call[x].mime /\ call'[x].ok = call[x].ok
        BY <3>3, <4>1, Watched
      <4> QED
        BY <3>1, <3>2, <4>2 DEF Placed
    <3>4. ASSUME call[x].at = "end", call'[x] = call[x]
          PROVE  Placed(x)'
      BY <3>2, <3>4 DEF Placed
    <3>5. ASSUME call'[x] = Idle
          PROVE  Placed(x)'
      BY <3>5 DEF Idle, Placed
    <3>6. ASSUME CallBegin(x)
          PROVE  Placed(x)'
      <4>1. CASE PutRefused(x)
        BY <4>1, Refusing DEF Placed
      <4>2. ASSUME NEW h \in Hashes, Starts(x, "get", <<h>>, NoMime)
            PROVE  Placed(x)'
        BY <3>1, <4>2 DEF Placed, Starts
      <4>3. ASSUME NEW h \in Hashes, NEW m \in Mimes, Starts(x, "put", <<h>>, m)
            PROVE  Placed(x)'
        BY <3>1, <4>3 DEF Placed, Starts
      <4>4. ASSUME NEW gone \in SUBSET Hashes, ByHash(gone) # <<>>, Starts(x, "delete", ByHash(gone), NoMime)
            PROVE  Placed(x)'
        BY <3>1, <4>4 DEF Placed, Starts
      <4>5. ASSUME Starts(x, "list", IF backing = "files" THEN ByHash(shards) ELSE <<>>, NoMime)
            PROVE  Placed(x)'
        BY <3>1, <4>5 DEF Placed, Starts
      <4> QED
        BY <3>6, <4>1, <4>2, <4>3, <4>4, <4>5, BeginSteps
    <3> QED
      BY <1>2, <3>3, <3>4, <3>5, <3>6, Everyone, StepPlaced DEF Acts
  <2> QED
    BY <2>1, <2>2 DEF AllPlaced
<1> QED
  BY <1>1, <1>2
-----------------------------------------------------------------------------
(* Who writes what at once. *)

\* Two calls that write one hash do the same to it.
Apart ==
    \A u \in Users : \A x \in Users \ {u} : \A h \in Hashes :
        Writes(u, h) /\ Writes(x, h) => call[x].op = call[u].op /\ call[x].mime = call[u].mime

\* The tail of a sequence has no other elements.
LEMMA TailKeeps ==
    ASSUME NEW s \in Seq(Hashes), s # <<>>
    PROVE  /\ ToSet(Tail(s)) \subseteq ToSet(s) /\ ToSet(s) = ToSet(Tail(s)) \union {Head(s)}
           /\ Tail(s) \in Seq(Hashes) /\ Len(Tail(s)) = Len(s) - 1
           /\ \A i \in 1 .. Len(s) - 1 : Tail(s)[i] = s[i + 1]
<1>1. Tail(s) \in Seq(Hashes) /\ Len(Tail(s)) = Len(s) - 1 /\ Len(s) \in Nat /\ Len(s) >= 1 /\ Head(s) = s[1]
  OBVIOUS
<1>2. \A i \in 1 .. Len(s) - 1 : Tail(s)[i] = s[i + 1]
  OBVIOUS
<1>3. DOMAIN s = 1 .. Len(s) /\ DOMAIN Tail(s) = 1 .. Len(s) - 1
  BY <1>1
<1>4. ToSet(Tail(s)) \subseteq ToSet(s)
  <2> SUFFICES ASSUME NEW i \in 1 .. Len(s) - 1
               PROVE  Tail(s)[i] \in ToSet(s)
    BY <1>3 DEF ToSet
  <2>1. i + 1 \in 1 .. Len(s) /\ Tail(s)[i] = s[i + 1]
    BY <1>1, <1>2
  <2> QED
    BY <1>3, <2>1 DEF ToSet
<1>5. \A i \in 1 .. Len(s) : i = 1 \/ (i - 1 \in 1 .. Len(s) - 1 /\ Tail(s)[i - 1] = s[i])
  BY <1>1, <1>2
<1>6. ToSet(s) \subseteq ToSet(Tail(s)) \union {Head(s)}
  <2> SUFFICES ASSUME NEW i \in 1 .. Len(s)
               PROVE  s[i] \in ToSet(Tail(s)) \union {Head(s)}
    BY <1>3 DEF ToSet
  <2>1. CASE i = 1
    BY <1>1, <2>1
  <2>2. CASE i - 1 \in 1 .. Len(s) - 1 /\ Tail(s)[i - 1] = s[i]
    BY <1>3, <2>2 DEF ToSet
  <2> QED
    BY <1>5, <2>1, <2>2
<1>7. Head(s) \in ToSet(s)
  BY <1>1, <1>3 DEF ToSet
<1> QED
  BY <1>1, <1>2, <1>4, <1>6, <1>7

\* A call that goes on writes nothing it did not write before.
LEMMA Lessens ==
    ASSUME Typed, AllPlaced, NEW u \in Users, CallStep(u) \/ Fail(u)
    PROVE  /\ call'[u].op = call[u].op /\ call'[u].mime = call[u].mime
           /\ \A h : Writes(u, h)' => Writes(u, h)
<1> DEFINE c == call[u]
<1>1. content' \subseteq Hashes /\ sidecar' \in [Hashes -> Mime]
  BY StoreStays DEF StoreNext
<1>2. ASSUME NEW at, NEW answer, NEW ok, Goes(u, at, c.todo, answer, ok), c.at # "end"
      PROVE  /\ call'[u].op = c.op /\ call'[u].mime = c.mime
             /\ \A h : Writes(u, h)' => Writes(u, h)
  BY <1>2 DEF Goes, Writes
<1>3. CASE PutStat(u) \/ PutSidecar(u) \/ PutContent(u) \/ PutRow(u)
  <2>1. c.at # "end"
    BY <1>3 DEF PutStat, PutSidecar, PutContent, PutRow, CallAt
  <2> QED
    BY <1>1, <1>2, <1>3, <2>1, CallSteps
<1>4. CASE GetContent(u) \/ GetInfo(u) \/ GetRow(u)
  <2>1. c.at # "end"
    BY <1>4 DEF GetContent, GetInfo, GetRow, CallAt
  <2> QED
    BY <1>1, <1>2, <1>4, <2>1, CallSteps
<1>5. CASE DeleteContent(u) \/ DeleteRows(u)
  <2>1. c.at # "end"
    BY <1>5 DEF DeleteContent, DeleteRows, CallAt
  <2> QED
    BY <1>1, <1>2, <1>5, <2>1, CallSteps
<1>6. CASE DeleteSidecar(u)
  <2>1. c.op = "delete" /\ c.at = "sidecar"
    BY <1>6 DEF DeleteSidecar, CallAt
  <2>2. c.todo \in Seq(Hashes) /\ c.todo # <<>>
    BY <2>1, HasTarget, CallFields DEF Typed
  <2>3. call'[u].op = c.op /\ call'[u].mime = c.mime /\ call'[u].todo = Tail(c.todo)
    BY <1>1, <1>6, CallSteps DEF Goes
  <2>4. ToSet(Tail(c.todo)) \subseteq ToSet(c.todo)
    BY <2>2, TailKeeps
  <2> QED
    BY <2>1, <2>3, <2>4 DEF Writes
<1>7. CASE ListEntry(u) \/ ListInfo(u) \/ ListRows(u)
  <2>1. c.op = "list"
    BY <1>7 DEF ListEntry, ListInfo, ListRows, CallAt
  <2>2. call'[u].op = c.op /\ call'[u].mime = c.mime
    BY <1>1, <1>7, ListSteps DEF Goes
  <2> QED
    BY <2>1, <2>2 DEF Writes
<1>8. CASE Fail(u)
  <2>1. c.at # "end" /\ Goes(u, "end", c.todo, c.answer, FALSE)
    BY <1>1, <1>8, CallSteps DEF Fail
  <2> QED
    BY <2>1 DEF Goes, Writes
<1> QED
  BY <1>3, <1>4, <1>5, <1>6, <1>7, <1>8 DEF CallStep

\* A call that is watched, or not touched, or lost, writes nothing new either.
LEMMA Elsewhere ==
    ASSUME Typed, AllPlaced, StoreNext, NEW x \in Users,
           ~(\E op \in {"put", "delete"}, todo \in Seq(Hashes), m \in Mime :
                Unrivalled(x, op, todo, m) /\ Starts(x, op, todo, m))
    PROVE  \A h : Writes(x, h)' => /\ Writes(x, h) /\ call'[x].op = call[x].op /\ call'[x].mime = call[x].mime
<1>1. ASSUME NEW u \in Users \ {x}, Acts(u), call'[x] = Watch(call[x])
      PROVE  \A h : Writes(x, h)' => /\ Writes(x, h) /\ call'[x].op = call[x].op /\ call'[x].mime = call[x].mime
  <2>1. content' \subseteq Hashes /\ sidecar' \in [Hashes -> Mime] /\ call[x] \in Call
    BY StoreStays DEF Typed
  <2>2. /\ call'[x].op = call[x].op /\ call'[x].at = call[x].at /\ call'[x].todo = call[x].todo
        /\ call'[x].mime = call[x].mime
    BY <1>1, <2>1, Watched
  <2> QED
    BY <2>2 DEF Writes
<1>2. ASSUME call'[x] = Idle
      PROVE  \A h : ~Writes(x, h)'
  BY <1>2 DEF Idle, Writes
<1>3. ASSUME CallBegin(x)
      PROVE  \A h : ~Writes(x, h)'
  <2>1. CASE PutRefused(x)
    BY <2>1, Refusing DEF Writes
  <2>2. ASSUME NEW h \in Hashes, Starts(x, "get", <<h>>, NoMime)
        PROVE  call'[x].op \notin {"put", "delete"}
    BY <2>2 DEF Starts
  <2>3. ASSUME Starts(x, "list", IF backing = "files" THEN ByHash(shards) ELSE <<>>, NoMime)
        PROVE  call'[x].op \notin {"put", "delete"}
    BY <2>3 DEF Starts
  <2>4. \A h \in Hashes, m \in Mimes : ~(Unrivalled(x, "put", <<h>>, m) /\ Starts(x, "put", <<h>>, m))
    <3>1. \A h \in Hashes : <<h>> \in Seq(Hashes)
      OBVIOUS
    <3> QED
      BY <3>1 DEF Mime
  <2>5. \A gone \in SUBSET Hashes :
            ~(Unrivalled(x, "delete", ByHash(gone), NoMime) /\ Starts(x, "delete", ByHash(gone), NoMime))
    <3>1. \A gone \in SUBSET Hashes : ByHash(gone) \in Seq(Hashes)
      BY Sorted
    <3> QED
      BY <3>1 DEF Mime
  <2> QED
    BY <1>3, <2>1, <2>2, <2>3, <2>4, <2>5, BeginSteps DEF Writes
<1>4. CASE call'[x] = call[x]
  BY <1>4 DEF Writes
<1> QED
  BY <1>1, <1>2, <1>3, <1>4, Everyone, Lessens DEF Acts

\* The calls that write one hash keep doing the same to it.
LEMMA ApartStays ==
    ASSUME ~WritersOverlap, Typed, AllPlaced, Apart, [StoreNext]_storeVars
    PROVE  Apart'
<1>1. CASE UNCHANGED storeVars
  BY <1>1 DEF storeVars, Apart, Writes
<1>2. CASE StoreNext
  <2> DEFINE Begins(x) == \E op \in {"put", "delete"}, todo \in Seq(Hashes), m \in Mime :
                              Unrivalled(x, op, todo, m) /\ Starts(x, op, todo, m)
  <2>1. \A x \in Users : ~Begins(x) =>
            \A h : Writes(x, h)' => Writes(x, h) /\ call'[x].op = call[x].op /\ call'[x].mime = call[x].mime
    BY <1>2, Elsewhere
  <2>2. ASSUME NEW u \in Users, NEW op \in {"put", "delete"}, NEW todo \in Seq(Hashes), NEW m \in Mime,
               Unrivalled(u, op, todo, m), Starts(u, op, todo, m),
               NEW x \in Users \ {u}, NEW h \in Hashes, Writes(u, h)', Writes(x, h)'
        PROVE  call'[x].op = call'[u].op /\ call'[x].mime = call'[u].mime
    <3>1. h \in ToSet(todo) /\ call'[u].op = op /\ call'[u].mime = m
      BY <2>2 DEF Starts, Writes
    <3>2. content' \subseteq Hashes /\ sidecar' \in [Hashes -> Mime] /\ call[x] \in Call
      BY <1>2, StoreStays DEF Typed
    <3>3. /\ call'[x].op = call[x].op /\ call'[x].at = call[x].at /\ call'[x].todo = call[x].todo
          /\ call'[x].mime = call[x].mime
      BY <2>2, <3>2, Watched DEF Starts
    <3>4. Writes(x, h)
      BY <2>2, <3>3 DEF Writes
    <3> QED
      BY <2>2, <3>1, <3>3, <3>4 DEF Unrivalled
  <2>3. ASSUME NEW u \in Users, NEW x \in Users \ {u}, NEW h \in Hashes, Writes(u, h)', Writes(x, h)'
        PROVE  call'[x].op = call'[u].op /\ call'[x].mime = call'[u].mime
    <3>1. CASE Begins(u)
      BY <2>2, <2>3, <3>1
    <3>2. CASE Begins(x)
      BY <2>2, <2>3, <3>2
    <3>3. CASE ~Begins(u) /\ ~Begins(x)
      BY <2>1, <2>3, <3>3 DEF Apart
    <3> QED
      BY <3>1, <3>2, <3>3
  <2> HIDE DEF Begins
  <2> QED
    BY <2>3 DEF Apart
<1> QED
  BY <1>1, <1>2
-----------------------------------------------------------------------------
(* The files: the sidecar of a content is there before it and after it. *)

\* A Put that has found no content, or has written the sidecar, knows what the
\* sidecar of that hash says.
PutKnows(u) ==
    /\ CallAt(u, "put", "sidecar") /\ TargetHash(u) \in content => sidecar[TargetHash(u)] = call[u].mime
    /\ CallAt(u, "put", "content") => TargetHash(u) \in shards /\ sidecar[TargetHash(u)] = call[u].mime

\* A Delete that has removed the content knows that it is not there.
DeleteKnows(u) == CallAt(u, "delete", "sidecar") => TargetHash(u) \notin content

FilesAgree ==
    /\ backing = "none" => content = {}
    /\ backing = "files" => content \subseteq shards
    /\ StoredIsReadable
    /\ \A u \in Users : PutKnows(u) /\ DeleteKnows(u)

\* The steps that write, and what their calls are.
LEMMA Touches ==
    ASSUME Typed, AllPlaced, NEW u \in Users, Acts(u)
    PROVE  \/ Unwritten
           \/ /\ PutSidecar(u) \/ PutContent(u) \/ PutRow(u)
              /\ call[u].op = "put" /\ call[u].at # "end" /\ Writes(u, TargetHash(u))
              /\ TargetHash(u) \in Hashes /\ call[u].mime \in Mimes
           \/ /\ DeleteContent(u) \/ DeleteSidecar(u) \/ DeleteRows(u)
              /\ call[u].op = "delete" /\ call[u].at # "end" /\ Writes(u, TargetHash(u))
              /\ TargetHash(u) \in Hashes
<1>1. CallBegin(u) \/ Fail(u) => Unwritten
  BY DEF CallBegin, GetBegin, PutBegin, PutRefused, DeleteBegin, ListBegin, BeginsCall, Fail
<1>2. PutStat(u) \/ GetContent(u) \/ GetInfo(u) \/ GetRow(u) \/ ListEntry(u) \/ ListInfo(u) \/ ListRows(u) => Unwritten
  BY DEF PutStat, GetContent, GetInfo, GetRow, ListEntry, ListInfo, ListRows
<1>3. ASSUME PutSidecar(u) \/ PutContent(u) \/ PutRow(u)
      PROVE  /\ call[u].op = "put" /\ call[u].at # "end" /\ Writes(u, TargetHash(u))
             /\ TargetHash(u) \in Hashes /\ call[u].mime \in Mimes
  <2>1. call[u].op = "put" /\ call[u].at # "end"
    BY <1>3 DEF PutSidecar, PutContent, PutRow, CallAt
  <2> QED
    BY <2>1, HasTarget DEF Writes, AllPlaced, Placed
<1>4. ASSUME DeleteContent(u) \/ DeleteSidecar(u) \/ DeleteRows(u)
      PROVE  /\ call[u].op = "delete" /\ call[u].at # "end" /\ Writes(u, TargetHash(u))
             /\ TargetHash(u) \in Hashes
  <2>1. call[u].op = "delete" /\ call[u].at # "end"
    BY <1>4 DEF DeleteContent, DeleteSidecar, DeleteRows, CallAt
  <2> QED
    BY <2>1, HasTarget DEF Writes
<1> QED
  BY <1>1, <1>2, <1>3, <1>4 DEF Acts, CallStep

\* What a Put knows of its hash, nobody else makes wrong.
LEMMA PutUndisturbed ==
    ASSUME Typed, AllPlaced, Apart, FilesAgree, NEW u \in Users, NEW x \in Users \ {u}, Acts(u),
           backing = "files", call[x].op = "put", NEW h \in Hashes, Writes(x, h)
    PROVE  /\ shards \subseteq shards'
           /\ sidecar[h] = call[x].mime => sidecar'[h] = call[x].mime
           /\ (h \in content => sidecar[h] = call[x].mime) => (h \in content' => sidecar'[h] = call[x].mime)
<1>1. ASSUME PutSidecar(u), TargetHash(u) \in Hashes, call[u].op = "put", Writes(u, TargetHash(u))
      PROVE  /\ shards \subseteq shards' /\ content' = content
             /\ sidecar'[h] = sidecar[h] \/ sidecar'[h] = call[x].mime
  BY <1>1 DEF PutSidecar, Apart, Typed
<1>2. ASSUME PutContent(u), TargetHash(u) \in Hashes, call[u].op = "put", Writes(u, TargetHash(u))
      PROVE  /\ UNCHANGED <<shards, sidecar>>
             /\ h \in content' => h \in content \/ sidecar[h] = call[x].mime
  <2>1. sidecar[TargetHash(u)] = call[u].mime
    BY <1>2 DEF FilesAgree, PutKnows, PutContent
  <2> QED
    BY <1>2, <2>1 DEF PutContent, Apart
<1>3. ASSUME DeleteContent(u)
      PROVE  UNCHANGED <<shards, sidecar>> /\ content' \subseteq content
  BY <1>3 DEF DeleteContent
<1>4. ASSUME DeleteSidecar(u), TargetHash(u) \in Hashes, call[u].op = "delete", Writes(u, TargetHash(u))
      PROVE  UNCHANGED <<shards, content>> /\ sidecar'[h] = sidecar[h]
  <2>1. h # TargetHash(u)
    BY <1>4 DEF Apart
  <2> QED
    BY <1>4, <2>1 DEF DeleteSidecar, Typed
<1>5. ~PutRow(u) /\ ~DeleteRows(u)
  BY DEF PutRow, DeleteRows
<1>6. Unwritten => UNCHANGED <<shards, content, sidecar>>
  BY DEF Unwritten
<1> QED
  BY <1>1, <1>2, <1>3, <1>4, <1>5, <1>6, Touches

\* Nor what a Delete knows of it.
LEMMA DeleteUndisturbed ==
    ASSUME Typed, AllPlaced, Apart, NEW u \in Users, NEW x \in Users \ {u}, Acts(u),
           call[x].op = "delete", NEW h \in Hashes, Writes(x, h), h \notin content
    PROVE  h \notin content'
<1>1. ASSUME PutContent(u) \/ PutRow(u), TargetHash(u) \in Hashes, call[u].op = "put", Writes(u, TargetHash(u))
      PROVE  h \notin content'
  <2>1. h # TargetHash(u)
    BY <1>1 DEF Apart
  <2> QED
    BY <1>1, <2>1 DEF PutContent, PutRow
<1>2. PutSidecar(u) \/ DeleteSidecar(u) => content' = content
  BY DEF PutSidecar, DeleteSidecar
<1>3. DeleteContent(u) \/ DeleteRows(u) => content' \subseteq content
  BY DEF DeleteContent, DeleteRows
<1>4. Unwritten => content' = content
  BY DEF Unwritten
<1> QED
  BY <1>1, <1>2, <1>3, <1>4, Touches

\* A step keeps what is stored readable.
LEMMA ReadableStays ==
    ASSUME Typed, AllPlaced, FilesAgree, NEW u \in Users, Acts(u)
    PROVE  StoredIsReadable' /\ (backing = "files" => content' \subseteq shards')
<1>1. \A m \in Mimes : m # NoMime
  BY StoreAssumption
<1>2. ASSUME PutSidecar(u), call[u].mime \in Mimes
      PROVE  StoredIsReadable' /\ (backing = "files" => content' \subseteq shards')
  BY <1>1, <1>2 DEF PutSidecar, FilesAgree, StoredIsReadable, Typed
<1>3. ASSUME PutContent(u), call[u].mime \in Mimes
      PROVE  StoredIsReadable' /\ (backing = "files" => content' \subseteq shards')
  BY <1>1, <1>3 DEF PutContent, FilesAgree, PutKnows, StoredIsReadable
<1>4. ASSUME PutRow(u), call[u].mime \in Mimes, TargetHash(u) \in Hashes
      PROVE  StoredIsReadable' /\ backing = "rows"
  BY <1>1, <1>4 DEF PutRow, FilesAgree, StoredIsReadable, Typed
<1>5. ASSUME DeleteContent(u)
      PROVE  StoredIsReadable' /\ (backing = "files" => content' \subseteq shards')
  BY <1>5 DEF DeleteContent, FilesAgree, StoredIsReadable
<1>6. ASSUME DeleteSidecar(u)
      PROVE  StoredIsReadable' /\ (backing = "files" => content' \subseteq shards')
  <2>1. TargetHash(u) \notin content
    BY <1>6 DEF DeleteSidecar, FilesAgree, DeleteKnows
  <2> QED
    BY <1>6, <2>1 DEF DeleteSidecar, FilesAgree, StoredIsReadable, Typed
<1>7. ASSUME DeleteRows(u)
      PROVE  StoredIsReadable' /\ backing = "rows"
  BY <1>7 DEF DeleteRows, FilesAgree, StoredIsReadable, Typed
<1>8. ASSUME Unwritten
      PROVE  StoredIsReadable' /\ (backing = "files" => content' \subseteq shards')
  BY <1>8 DEF Unwritten, FilesAgree, StoredIsReadable
<1> QED
  BY <1>2, <1>3, <1>4, <1>5, <1>6, <1>7, <1>8, Touches

\* The step of a call leaves it knowing what it should.
LEMMA LearnsFiles ==
    ASSUME Typed, AllPlaced, FilesAgree, NEW u \in Users, Acts(u)
    PROVE  PutKnows(u)' /\ DeleteKnows(u)'
<1> DEFINE c == call[u]
<1>1. content' \subseteq Hashes /\ sidecar' \in [Hashes -> Mime]
  BY StoreStays DEF StoreNext, Acts
<1>2. ASSUME call'[u].at \in {"start", "info", "end"}
      PROVE  PutKnows(u)' /\ DeleteKnows(u)'
  BY <1>2 DEF PutKnows, DeleteKnows, CallAt
<1>3. CASE CallBegin(u)
  <2>1. call'[u].at \in {"start", "end"}
    BY <1>3, BeginSteps, Refusing DEF Starts
  <2> QED
    BY <1>2, <2>1
<1>4. CASE PutStat(u)
  <2>1. c.op = "put" /\ UNCHANGED <<content, sidecar>>
    BY <1>4 DEF PutStat, CallAt, Unwritten
  <2>2. \/ Goes(u, "end", c.todo, c.answer, c.ok)
        \/ TargetHash(u) \notin content /\ Goes(u, "sidecar", c.todo, c.answer, c.ok)
    BY <1>1, <1>4, CallSteps
  <2>3. /\ call'[u].op = "put" /\ TargetHash(u)' = TargetHash(u)
        /\ call'[u].at = "end" \/ (TargetHash(u) \notin content /\ call'[u].at = "sidecar")
    BY <2>1, <2>2 DEF Goes, TargetHash
  <2> QED
    BY <2>1, <2>3 DEF PutKnows, DeleteKnows, CallAt
<1>5. CASE PutSidecar(u)
  <2>1. c.op = "put" /\ TargetHash(u) \in Hashes
    BY <1>5, HasTarget DEF PutSidecar, CallAt
  <2>2. /\ call'[u].op = "put" /\ call'[u].at = "content" /\ call'[u].mime = c.mime
        /\ TargetHash(u)' = TargetHash(u)
    BY <1>1, <1>5, <2>1, CallSteps DEF Goes, TargetHash
  <2>3. sidecar'[TargetHash(u)] = c.mime /\ TargetHash(u) \in shards'
    BY <1>5, <2>1 DEF PutSidecar, Typed
  <2> QED
    BY <2>2, <2>3 DEF PutKnows, DeleteKnows, CallAt
<1>6. CASE PutContent(u) \/ PutRow(u) \/ DeleteRows(u)
  BY <1>1, <1>2, <1>6, CallSteps DEF Goes
<1>7. CASE GetContent(u) \/ GetInfo(u) \/ GetRow(u)
  BY <1>1, <1>2, <1>7, CallSteps DEF Goes
<1>8. CASE DeleteContent(u)
  <2>1. /\ call'[u].op = "delete" /\ call'[u].at = "sidecar" /\ TargetHash(u)' = TargetHash(u)
        /\ TargetHash(u) \notin content'
    BY <1>1, <1>8, CallSteps DEF Goes, TargetHash, DeleteContent, CallAt
  <2> QED
    BY <2>1 DEF PutKnows, DeleteKnows, CallAt
<1>9. CASE DeleteSidecar(u)
  <2>1. call'[u].at = IF Tail(c.todo) = <<>> THEN "end" ELSE "start"
    BY <1>1, <1>9, CallSteps DEF Goes
  <2> QED
    BY <1>2, <2>1
<1>10. CASE ListEntry(u) \/ ListInfo(u) \/ ListRows(u)
  <2>1. call'[u].op = "list"
    BY <1>1, <1>10, ListSteps DEF Goes, ListEntry, ListInfo, ListRows, CallAt
  <2> QED
    BY <2>1 DEF PutKnows, DeleteKnows, CallAt
<1>11. CASE Fail(u)
  <2>1. call'[u].at = "end"
    BY <1>1, <1>11, CallSteps DEF Goes
  <2> QED
    BY <1>2, <2>1
<1> QED
  BY <1>3, <1>4, <1>5, <1>6, <1>7, <1>8, <1>9, <1>10, <1>11 DEF Acts, CallStep

\* Every step keeps the files in agreement.
LEMMA FilesStay ==
    ASSUME Typed, AllPlaced, Apart, FilesAgree, [StoreNext]_storeVars
    PROVE  FilesAgree'
<1>1. CASE UNCHANGED storeVars
  BY <1>1 DEF storeVars, FilesAgree, StoredIsReadable, PutKnows, DeleteKnows, CallAt, TargetHash
<1>2. CASE StoreNext
  <2>1. /\ backing' = "none" => content' = {}
        /\ backing' = "files" => content' \subseteq shards'
        /\ StoredIsReadable'
    <3>1. ASSUME NEW k \in {"files", "rows"}, OpenStore(k)
          PROVE  backing' # "none" /\ content' = {}
      BY <3>1 DEF OpenStore, FilesAgree
    <3>2. CrashStore => UNCHANGED <<backing, content, sidecar, shards>>
      BY DEF CrashStore, Unwritten
    <3>3. ASSUME NEW u \in Users, Acts(u)
          PROVE  backing # "none"
      <4>1. CallBegin(u) => backing # "none"
        BY DEF CallBegin, GetBegin, PutBegin, PutRefused, DeleteBegin, ListBegin, BeginsCall
      <4>2. CallStep(u) \/ Fail(u) => call[u].at # "end"
        BY DEF CallStep, PutStat, PutSidecar, PutContent, PutRow, GetContent, GetInfo, GetRow, DeleteContent,
               DeleteSidecar, DeleteRows, ListEntry, ListInfo, ListRows, Fail, CallAt
      <4> QED
        BY <3>3, <4>1, <4>2 DEF Acts, AllPlaced, Placed
    <3>4. backing # "none" => backing' = backing
      BY <1>2, StoreStays
    <3>5. CASE \E u \in Users : Acts(u)
      BY <3>3, <3>4, <3>5, ReadableStays
    <3>6. CASE \E k \in {"files", "rows"} : OpenStore(k)
      BY <3>1, <3>6 DEF StoredIsReadable
    <3>7. CASE CrashStore
      BY <3>2, <3>7 DEF FilesAgree, StoredIsReadable
    <3> QED
      BY <1>2, <3>5, <3>6, <3>7 DEF StoreNext, Acts
  <2>2. ASSUME NEW x \in Users
        PROVE  PutKnows(x)' /\ DeleteKnows(x)'
    <3>1. ASSUME NEW u \in Users \ {x}, Acts(u), call'[x] = Watch(call[x])
          PROVE  PutKnows(x)' /\ DeleteKnows(x)'
      <4>1. content' \subseteq Hashes /\ sidecar' \in [Hashes -> Mime] /\ call[x] \in Call
        BY <1>2, StoreStays DEF Typed
      <4>2. /\ call'[x].op = call[x].op /\ call'[x].at = call[x].at /\ call'[x].mime = call[x].mime
            /\ TargetHash(x)' = TargetHash(x)
        BY <3>1, <4>1, Watched DEF TargetHash
      <4>3. PutKnows(x) /\ DeleteKnows(x)
        BY DEF FilesAgree
      <4>4. CASE call[x].op = "put" /\ call[x].at \in {"sidecar", "content"}
        <5>1. backing = "files" /\ TargetHash(x) \in Hashes /\ Writes(x, TargetHash(x))
          BY <4>4, HasTarget DEF AllPlaced, Placed, Writes
        <5>2. /\ shards \subseteq shards'
              /\ sidecar[TargetHash(x)] = call[x].mime => sidecar'[TargetHash(x)] = call[x].mime
              /\ (TargetHash(x) \in content => sidecar[TargetHash(x)] = call[x].mime)
                 => (TargetHash(x) \in content' => sidecar'[TargetHash(x)] = call[x].mime)
          BY <3>1, <4>4, <5>1, PutUndisturbed
        <5> QED
          BY <4>2, <4>3, <4>4, <5>2 DEF PutKnows, DeleteKnows, CallAt
      <4>5. CASE call[x].op = "delete" /\ call[x].at = "sidecar"
        <5>1. TargetHash(x) \in Hashes /\ Writes(x, TargetHash(x))
          BY <4>5, HasTarget DEF Writes
        <5>2. TargetHash(x) \notin content'
          BY <3>1, <4>3, <4>5, <5>1, DeleteUndisturbed DEF DeleteKnows, CallAt
        <5> QED
          BY <4>2, <4>5, <5>2 DEF PutKnows, DeleteKnows, CallAt
      <4> QED
        BY <4>2, <4>4, <4>5 DEF PutKnows, DeleteKnows, CallAt
    <3>2. ASSUME call[x].at = "end", call'[x] = call[x]
          PROVE  PutKnows(x)' /\ DeleteKnows(x)'
      BY <3>2 DEF PutKnows, DeleteKnows, CallAt
    <3>3. ASSUME call'[x] = Idle
          PROVE  PutKnows(x)' /\ DeleteKnows(x)'
      BY <3>3 DEF Idle, PutKnows, DeleteKnows, CallAt
    <3> QED
      BY <1>2, <3>1, <3>2, <3>3, Everyone, LearnsFiles
  <2> QED
    BY <2>1, <2>2 DEF FilesAgree
<1> QED
  BY <1>1, <1>2
-----------------------------------------------------------------------------
(* The contract: what is stored is stored at once, under one media type. *)

\* At first nothing is held.
LEMMA ContractInit ==
    ASSUME StoreInit
    PROVE  Contract!Init
  BY DEF StoreInit, BlobsHeld, HeldAs, Contract!Init

\* Each step stores a blob that was not there, deletes blobs, or changes nothing
\* of what is held.
LEMMA ContractStep ==
    ASSUME Typed, AllPlaced, FilesAgree, [StoreNext]_storeVars
    PROVE  [Contract!Next]_BlobsHeld
<1> USE DEF Typed
<1>1. ASSUME UNCHANGED <<content, sidecar>>
      PROVE  BlobsHeld' = BlobsHeld
  BY <1>1 DEF BlobsHeld, HeldAs
<1>2. CASE UNCHANGED storeVars
  BY <1>1, <1>2 DEF storeVars
<1>3. ASSUME NEW k \in {"files", "rows"}, OpenStore(k)
      PROVE  BlobsHeld' = BlobsHeld
  BY <1>1, <1>3 DEF OpenStore
<1>4. CrashStore => BlobsHeld' = BlobsHeld
  BY <1>1 DEF CrashStore, Unwritten
<1>5. ASSUME NEW u \in Users, Acts(u)
      PROVE  Contract!Next \/ BlobsHeld' = BlobsHeld
  <2> DEFINE h == TargetHash(u)
  <2>1. CASE Unwritten
    BY <1>1, <2>1 DEF Unwritten
  <2>2. ASSUME PutSidecar(u), h \in Hashes
        PROVE  BlobsHeld' = BlobsHeld
    <3>1. h \in content => sidecar[h] = call[u].mime
      BY <2>2 DEF PutSidecar, FilesAgree, PutKnows
    <3>2. content' = content /\ sidecar' = [sidecar EXCEPT ![h] = call[u].mime]
      BY <2>2 DEF PutSidecar
    <3> HIDE DEF h
    <3>3. \A g \in Hashes : HeldAs(content', sidecar', g) = HeldAs(content, sidecar, g)
      BY <3>1, <3>2 DEF HeldAs
    <3> QED
      BY <3>3 DEF BlobsHeld
  <2>3. ASSUME h \in Hashes, h \notin content, call[u].mime \in Mimes, content' = content \union {h},
               sidecar'[h] = call[u].mime, \A g \in Hashes \ {h} : sidecar'[g] = sidecar[g]
        PROVE  Contract!Next
    <3> HIDE DEF h
    <3>1. BlobsHeld[h] = NoMime
      BY <2>3 DEF BlobsHeld, HeldAs
    <3>2. BlobsHeld' = [BlobsHeld EXCEPT ![h] = call[u].mime]
      BY <2>3 DEF BlobsHeld, HeldAs
    <3>3. Contract!Put(h, call[u].mime)
      BY <3>1, <3>2 DEF Contract!Put
    <3> QED
      BY <2>3, <3>3 DEF Contract!Next
  <2>4. ASSUME PutContent(u), h \in Hashes, call[u].mime \in Mimes
        PROVE  Contract!Next \/ BlobsHeld' = BlobsHeld
    <3>1. content' = content \union {h} /\ sidecar' = sidecar /\ sidecar[h] = call[u].mime
      BY <2>4 DEF PutContent, FilesAgree, PutKnows
    <3> HIDE DEF h
    <3>2. CASE h \in content
      BY <1>1, <3>1, <3>2
    <3> QED
      BY <2>3, <2>4, <3>1, <3>2
  <2>5. ASSUME PutRow(u), h \in Hashes, call[u].mime \in Mimes
        PROVE  Contract!Next \/ BlobsHeld' = BlobsHeld
    <3>1. /\ content' = content \union {h}
          /\ sidecar' = [sidecar EXCEPT ![h] = IF h \in content THEN sidecar[h] ELSE call[u].mime]
      BY <2>5 DEF PutRow
    <3> HIDE DEF h
    <3>2. CASE h \in content
      BY <1>1, <3>1, <3>2
    <3>3. CASE h \notin content
      BY <2>3, <2>5, <3>1, <3>3
    <3> QED
      BY <3>2, <3>3
  <2>6. ASSUME NEW gone \in SUBSET Hashes, content' = content \ gone, \A g \in Hashes \ gone : sidecar'[g] = sidecar[g]
        PROVE  Contract!Next
    <3>1. BlobsHeld' = [g \in Hashes |-> IF g \in gone THEN NoMime ELSE BlobsHeld[g]]
      BY <2>6 DEF BlobsHeld, HeldAs
    <3> QED
      BY <3>1 DEF Contract!Next, Contract!Delete
  <2>7. ASSUME DeleteContent(u), h \in Hashes
        PROVE  Contract!Next
    <3>1. content' = content \ {h} /\ sidecar' = sidecar
      BY <2>7 DEF DeleteContent
    <3> HIDE DEF h
    <3>2. {h} \in SUBSET Hashes /\ \A g \in Hashes \ {h} : sidecar'[g] = sidecar[g]
      BY <2>7, <3>1
    <3>3. \A gone \in SUBSET Hashes : content' = content \ gone /\ (\A g \in Hashes \ gone : sidecar'[g] = sidecar[g])
                                     => Contract!Next
      BY <2>6
    <3> QED
      BY <3>1, <3>2, <3>3
  <2>8. ASSUME DeleteRows(u)
        PROVE  Contract!Next
    <3>1. ToSet(call[u].todo) \in SUBSET Hashes
      BY CallFields DEF ToSet
    <3> DEFINE gone == ToSet(call[u].todo)
    <3>2. content' = content \ gone /\ \A g \in Hashes \ gone : sidecar'[g] = sidecar[g]
      BY <2>8 DEF DeleteRows
    <3> HIDE DEF gone
    <3>3. gone \in SUBSET Hashes
      BY <3>1 DEF gone
    <3> QED
      BY <2>6, <3>2, <3>3
  <2>9. ASSUME DeleteSidecar(u), h \in Hashes
        PROVE  BlobsHeld' = BlobsHeld
    <3>1. h \notin content /\ content' = content /\ sidecar' = [sidecar EXCEPT ![h] = NoMime]
      BY <2>9 DEF DeleteSidecar, FilesAgree, DeleteKnows
    <3> HIDE DEF h
    <3>2. \A g \in Hashes : HeldAs(content', sidecar', g) = HeldAs(content, sidecar, g)
      BY <3>1 DEF HeldAs
    <3> QED
      BY <3>2 DEF BlobsHeld
  <2> HIDE DEF h
  <2> QED
    BY <1>5, <2>1, <2>2, <2>4, <2>5, <2>7, <2>8, <2>9, Touches DEF h
<1> QED
  BY <1>2, <1>3, <1>4, <1>5 DEF StoreNext, Acts
-----------------------------------------------------------------------------
(* What Get and Put answer. *)

Note(h, m) == [hash |-> h, mime |-> m]

\* A Get that has read the content has seen, or seen given, what the sidecar says.
GetKnows(u) ==
    CallAt(u, "get", "info") /\ sidecar[TargetHash(u)] # NoMime =>
        Note(TargetHash(u), sidecar[TargetHash(u)]) \in call[u].values

\* AnswersWereTrue, for one user.
AnsweredTruly(u) ==
    /\ Ended(u, "get") => Note(TargetHash(u), call[u].answer[1]) \in call[u].values
    /\ Ended(u, "put") => \E v \in call[u].values : v.hash = TargetHash(u) /\ v.mime # NoMime

AnswersInv == \A u \in Users : GetKnows(u) /\ AnsweredTruly(u)

\* A call that is watched has noted what each hash is held as.
LEMMA Notes ==
    ASSUME Typed, AllPlaced, NEW u \in Users, content' \subseteq Hashes, sidecar' \in [Hashes -> Mime],
           call[u].at # "end", call[u].op # "list", NEW h \in Hashes
    PROVE  /\ Note(h, HeldAs(content', sidecar', h)) \in Watch(call[u]).values
           /\ call[u].values \subseteq Watch(call[u]).values
           /\ call[u].op = "get" => Given \subseteq Watch(call[u]).values
<1>1. Watch(call[u]).values = call[u].values \union HeldNow' \union (IF call[u].op = "get" THEN Given ELSE {})
  BY Watched DEF Typed
<1>2. HeldNow' = {Note(g, HeldAs(content', sidecar', g)) : g \in Hashes}
  BY DEF HeldNow, HeldAs, Note
<1>3. Note(h, HeldAs(content', sidecar', h)) \in HeldNow'
  BY <1>2
<1> QED
  BY <1>1, <1>3

\* Beside a Get that has read the content, another call changes the sidecar only
\* to what a Put gives, or to nothing.
LEMMA GetUndisturbed ==
    ASSUME Typed, AllPlaced, NEW u \in Users, NEW x \in Users \ {u}, Acts(u), backing = "files", NEW h \in Hashes
    PROVE  sidecar'[h] = sidecar[h] \/ sidecar'[h] = NoMime \/ Note(h, sidecar'[h]) \in Given
<1>1. Unwritten \/ PutContent(u) \/ DeleteContent(u) => sidecar' = sidecar
  BY DEF Unwritten, PutContent, DeleteContent
<1>2. ~PutRow(u) /\ ~DeleteRows(u)
  BY DEF PutRow, DeleteRows
<1>3. ASSUME PutSidecar(u)
      PROVE  sidecar'[h] = sidecar[h] \/ Note(h, sidecar'[h]) \in Given
  <2>1. call[u].op = "put" /\ call[u].at # "end"
    BY <1>3 DEF PutSidecar, CallAt
  <2>2. Note(TargetHash(u), call[u].mime) \in Given
    BY <2>1 DEF Given, Note, TargetHash
  <2>3. sidecar' = [sidecar EXCEPT ![TargetHash(u)] = call[u].mime]
    BY <1>3 DEF PutSidecar
  <2>4. h # TargetHash(u) => sidecar'[h] = sidecar[h]
    BY <2>3 DEF Typed
  <2>5. h = TargetHash(u) => sidecar'[h] = call[u].mime
    BY <2>3 DEF Typed
  <2> QED
    BY <2>2, <2>4, <2>5
<1>4. DeleteSidecar(u) => sidecar'[h] = sidecar[h] \/ sidecar'[h] = NoMime
  BY DEF DeleteSidecar, Typed
<1> QED
  BY <1>1, <1>2, <1>3, <1>4, Touches

\* The step of a Get or a Put leaves what it answers true.
LEMMA AnswersTruly ==
    ASSUME Typed, AllPlaced, FilesAgree, NEW u \in Users, CallStep(u) \/ Fail(u), GetKnows(u)
    PROVE  GetKnows(u)' /\ AnsweredTruly(u)'
<1> DEFINE c == call[u]
           h == TargetHash(u)
<1>1. content' \subseteq Hashes /\ sidecar' \in [Hashes -> Mime]
  BY StoreStays DEF StoreNext
<1>2. c.at # "end" /\ c.op \in {"put", "get"} =>
        /\ h \in Hashes
        /\ Note(h, HeldAs(content', sidecar', h)) \in Watch(c).values
        /\ c.values \subseteq Watch(c).values
  BY <1>1, HasTarget, Notes
<1>3. CASE PutStat(u) \/ PutSidecar(u) \/ PutContent(u) \/ PutRow(u)
  <2>1. c.op = "put" /\ c.at # "end" /\ c.mime \in Mimes
    BY <1>3 DEF PutStat, PutSidecar, PutContent, PutRow, CallAt, AllPlaced, Placed
  <2>2. /\ call'[u].op = "put" /\ call'[u].values = Watch(c).values /\ TargetHash(u)' = h
        /\ call'[u].at = "end" => h \in content' /\ sidecar'[h] # NoMime
    <3>1. PutStat(u) => /\ Goes(u, IF h \in content THEN "end" ELSE "sidecar", c.todo, c.answer, c.ok)
                        /\ UNCHANGED <<content, sidecar>>
      BY <1>1, CallSteps DEF PutStat, Unwritten
    <3>2. PutSidecar(u) => Goes(u, "content", c.todo, c.answer, c.ok)
      BY <1>1, CallSteps
    <3>3. PutContent(u) \/ PutRow(u) => Goes(u, "end", c.todo, c.answer, c.ok)
      BY <1>1, CallSteps
    <3>4. PutContent(u) => h \in content' /\ sidecar'[h] = c.mime
      BY DEF PutContent, FilesAgree, PutKnows
    <3>5. PutRow(u) => h \in content' /\ (sidecar'[h] = c.mime \/ (h \in content /\ sidecar'[h] = sidecar[h]))
      BY <1>2, <2>1 DEF PutRow, Typed
    <3>6. c.mime # NoMime /\ (h \in content => sidecar[h] # NoMime)
      BY <2>1, StoreAssumption DEF FilesAgree, StoredIsReadable
    <3>7. call'[u].op = "put" /\ call'[u].values = Watch(c).values /\ TargetHash(u)' = h
      BY <1>3, <2>1, <3>1, <3>2, <3>3 DEF Goes, TargetHash
    <3>8. PutStat(u) /\ call'[u].at = "end" => h \in content' /\ sidecar'[h] # NoMime
      BY <3>1, <3>6 DEF Goes
    <3>9. PutSidecar(u) => call'[u].at # "end"
      BY <3>2 DEF Goes
    <3> QED
      BY <1>3, <3>4, <3>5, <3>6, <3>7, <3>8, <3>9
  <2>3. ASSUME call'[u].at = "end"
        PROVE  \E v \in call'[u].values : v.hash = h /\ v.mime # NoMime
    <3>1. Note(h, sidecar'[h]) \in call'[u].values
      BY <1>2, <2>1, <2>2, <2>3 DEF HeldAs
    <3> QED
      BY <2>2, <2>3, <3>1 DEF Note
  <2> QED
    BY <2>2, <2>3 DEF GetKnows, AnsweredTruly, Ended, CallAt
<1>4. CASE GetContent(u) /\ h \in content
  <2>1. /\ c.op = "get" /\ c.at # "end" /\ UNCHANGED <<content, sidecar>>
        /\ Goes(u, "info", c.todo, c.answer, c.ok)
    BY <1>1, <1>4, CallSteps DEF GetContent, CallAt, Unwritten
  <2>2. Note(h, sidecar[h]) \in Watch(c).values
    BY <1>2, <1>4, <2>1 DEF HeldAs
  <2>3. /\ call'[u].op = "get" /\ call'[u].at = "info" /\ TargetHash(u)' = h
        /\ call'[u].values = Watch(c).values
    BY <2>1 DEF Goes, TargetHash
  <2> QED
    BY <2>1, <2>2, <2>3 DEF GetKnows, AnsweredTruly, Ended, CallAt
<1>5. ASSUME NEW m, Goes(u, "end", c.todo, <<m>>, c.ok), c.op = "get", c.at # "end",
             Note(h, m) \in Watch(c).values
      PROVE  GetKnows(u)' /\ AnsweredTruly(u)'
  <2>1. /\ call'[u].op = "get" /\ call'[u].at = "end" /\ TargetHash(u)' = h
        /\ call'[u].values = Watch(c).values /\ call'[u].answer = <<m>>
    BY <1>5 DEF Goes, TargetHash
  <2>2. call'[u].answer[1] = m
    BY <2>1
  <2> QED
    BY <1>5, <2>1, <2>2 DEF GetKnows, AnsweredTruly, Ended, CallAt
<1>6. CASE GetContent(u) /\ h \notin content
  <2>1. /\ c.op = "get" /\ c.at # "end" /\ UNCHANGED <<content, sidecar>>
        /\ Goes(u, "end", c.todo, <<NoMime>>, c.ok)
    BY <1>1, <1>6, CallSteps DEF GetContent, CallAt, Unwritten
  <2>2. Note(h, NoMime) \in Watch(c).values
    BY <1>2, <1>6, <2>1 DEF HeldAs
  <2> QED
    BY <1>5, <2>1, <2>2
<1>7. CASE GetInfo(u)
  <2>1. /\ c.op = "get" /\ c.at = "info" /\ UNCHANGED <<content, sidecar>>
        /\ Goes(u, "end", c.todo, <<sidecar[h]>>, c.ok)
    BY <1>1, <1>7, CallSteps DEF GetInfo, CallAt, Unwritten
  <2>2. Note(h, sidecar[h]) \in Watch(c).values
    <3>1. CASE sidecar[h] = NoMime
      BY <1>2, <2>1, <3>1 DEF HeldAs
    <3>2. CASE sidecar[h] # NoMime
      BY <1>2, <2>1, <3>2 DEF GetKnows, CallAt
    <3> QED
      BY <3>1, <3>2
  <2> QED
    BY <1>5, <2>1, <2>2
<1>8. CASE GetRow(u)
  <2>1. /\ c.op = "get" /\ c.at # "end" /\ UNCHANGED <<content, sidecar>>
        /\ Goes(u, "end", c.todo, <<HeldAs(content, sidecar, h)>>, c.ok)
    BY <1>1, <1>8, CallSteps DEF GetRow, CallAt, Unwritten
  <2>2. Note(h, HeldAs(content, sidecar, h)) \in Watch(c).values
    BY <1>2, <2>1 DEF HeldAs
  <2> QED
    BY <1>5, <2>1, <2>2
<1>9. CASE DeleteContent(u) \/ DeleteSidecar(u) \/ DeleteRows(u)
  <2>1. call'[u].op = "delete"
    <3>1. c.op = "delete"
      BY <1>9 DEF DeleteContent, DeleteSidecar, DeleteRows, CallAt
    <3> QED
      BY <1>9, <3>1, Lessens DEF CallStep
  <2> QED
    BY <2>1 DEF GetKnows, AnsweredTruly, Ended, CallAt
<1>10. CASE ListEntry(u) \/ ListInfo(u) \/ ListRows(u)
  <2>1. call'[u].op = "list"
    <3>1. c.op = "list"
      BY <1>10 DEF ListEntry, ListInfo, ListRows, CallAt
    <3> QED
      BY <1>10, <3>1, Lessens DEF CallStep
  <2> QED
    BY <2>1 DEF GetKnows, AnsweredTruly, Ended, CallAt
<1>11. CASE Fail(u)
  <2>1. call'[u].at = "end" /\ ~call'[u].ok
    BY <1>1, <1>11, CallSteps DEF Goes
  <2> QED
    BY <2>1 DEF GetKnows, AnsweredTruly, Ended, CallAt
<1> QED
  BY <1>3, <1>4, <1>6, <1>7, <1>8, <1>9, <1>10, <1>11 DEF CallStep

\* Every step keeps the answers true.
LEMMA AnswersStay ==
    ASSUME Typed, AllPlaced, FilesAgree, AnswersInv, [StoreNext]_storeVars
    PROVE  AnswersInv'
<1>1. CASE UNCHANGED storeVars
  BY <1>1 DEF storeVars, AnswersInv, GetKnows, AnsweredTruly, Ended, CallAt, TargetHash
<1>2. ASSUME StoreNext, NEW x \in Users
      PROVE  GetKnows(x)' /\ AnsweredTruly(x)'
  <2>1. content' \subseteq Hashes /\ sidecar' \in [Hashes -> Mime] /\ call[x] \in Call
    BY <1>2, StoreStays DEF Typed
  <2>2. GetKnows(x) /\ AnsweredTruly(x)
    BY DEF AnswersInv
  <2>3. ASSUME call[x].at = "end", call'[x] = call[x]
        PROVE  GetKnows(x)' /\ AnsweredTruly(x)'
    BY <2>2, <2>3 DEF GetKnows, AnsweredTruly, Ended, CallAt, TargetHash
  <2>4. ASSUME NEW u \in Users \ {x}, Acts(u), call'[x] = Watch(call[x])
        PROVE  GetKnows(x)' /\ AnsweredTruly(x)'
    <3>1. /\ call'[x].op = call[x].op /\ call'[x].at = call[x].at /\ TargetHash(x)' = TargetHash(x)
          /\ call[x].at = "end" => call'[x] = call[x]
      BY <2>1, <2>4, Watched DEF TargetHash
    <3>2. CASE call[x].op = "get" /\ call[x].at = "info"
      <4>1. TargetHash(x) \in Hashes /\ backing = "files"
        BY <3>2, HasTarget DEF AllPlaced, Placed
      <4>2. call[x].values \subseteq call'[x].values /\ Given \subseteq call'[x].values
        BY <2>1, <2>4, <3>2, <4>1, Notes
      <4> DEFINE h == TargetHash(x)
      <4>3. sidecar'[h] = sidecar[h] \/ sidecar'[h] = NoMime \/ Note(h, sidecar'[h]) \in Given
        BY <2>4, <4>1, GetUndisturbed
      <4>4. sidecar[h] # NoMime => Note(h, sidecar[h]) \in call[x].values
        BY <2>2, <3>2 DEF GetKnows, CallAt
      <4> HIDE DEF h
      <4>5. sidecar'[h] # NoMime => Note(h, sidecar'[h]) \in call'[x].values
        BY <4>2, <4>3, <4>4
      <4> QED
        BY <3>1, <3>2, <4>5 DEF GetKnows, AnsweredTruly, Ended, CallAt, h
    <3>3. CASE call[x].at = "end"
      BY <2>3, <3>1, <3>3
    <3> QED
      BY <3>1, <3>2, <3>3 DEF GetKnows, AnsweredTruly, Ended, CallAt
  <2>5. ASSUME call'[x] = Idle
        PROVE  GetKnows(x)' /\ AnsweredTruly(x)'
    BY <2>5 DEF Idle, GetKnows, AnsweredTruly, Ended, CallAt
  <2>6. ASSUME CallBegin(x)
        PROVE  GetKnows(x)' /\ AnsweredTruly(x)'
    <3>1. call'[x].at = "start" \/ (call'[x].at = "end" /\ ~call'[x].ok)
      BY <2>6, BeginSteps, Refusing DEF Starts
    <3> QED
      BY <3>1 DEF GetKnows, AnsweredTruly, Ended, CallAt
  <2> QED
    BY <1>2, <2>2, <2>3, <2>4, <2>5, <2>6, Everyone, AnswersTruly DEF Acts
<1> QED
  BY <1>1, <1>2 DEF AnswersInv
-----------------------------------------------------------------------------
(* What List answers. *)

\* A walk of directories: those left come after those treated, and what was
\* there all along is among the ones or the others.
WalkRight(answer, todo, always) ==
    /\ Ascending(todo)
    /\ \A i \in 1 .. Len(answer), j \in 1 .. Len(todo) : answer[i] < todo[j]
    /\ always \subseteq ToSet(answer) \union ToSet(todo)

\* Pages of rows: what was there all along is on the pages read, up to the last
\* hash read.
PagesRight(answer, always) ==
    \A h \in always : answer # <<>> /\ h <= answer[Len(answer)] => h \in ToSet(answer)

\* A sequence of hashes in ascending order has no repetition.
LEMMA AscendingOnce ==
    ASSUME NEW s \in Seq(Hashes), Ascending(s)
    PROVE  \A i, j \in DOMAIN s : s[i] = s[j] => i = j
<1> SUFFICES ASSUME NEW i \in DOMAIN s, NEW j \in DOMAIN s, i # j
             PROVE  s[i] # s[j]
  OBVIOUS
<1>1. i \in 1 .. Len(s) /\ j \in 1 .. Len(s) /\ Len(s) \in Nat
  OBVIOUS
<1>2. s[i] \in Nat /\ s[j] \in Nat
  <2>1. s[i] \in Hashes /\ s[j] \in Hashes
    BY <1>1
  <2> QED
    BY <2>1, StoreAssumption
<1>3. i < j \/ j < i
  BY <1>1
<1>4. s[i] < s[j] \/ s[j] < s[i]
  BY <1>1, <1>3 DEF Ascending
<1> QED
  BY <1>2, <1>4

\* A walk passes over a directory whose content was not there all along.
LEMMA WalkDrops ==
    ASSUME NEW a \in Seq(Hashes), NEW t \in Seq(Hashes), t # <<>>, NEW A, NEW B \in SUBSET A,
           WalkRight(a, t, A), Head(t) \notin B
    PROVE  WalkRight(a, Tail(t), B)
<1> DEFINE r == Tail(t)
<1>1. /\ ToSet(t) = ToSet(r) \union {Head(t)} /\ r \in Seq(Hashes) /\ Len(r) = Len(t) - 1
      /\ \A i \in 1 .. Len(t) - 1 : r[i] = t[i + 1]
  BY TailKeeps
<1>2. Len(t) \in Nat /\ Len(t) >= 1 /\ Len(a) \in Nat
  OBVIOUS
<1> HIDE DEF r
<1>3. \A j \in 1 .. Len(r) : j + 1 \in 1 .. Len(t) /\ r[j] = t[j + 1]
  BY <1>1, <1>2
<1>4. Ascending(r)
  BY <1>2, <1>3 DEF WalkRight, Ascending
<1>5. \A i \in 1 .. Len(a), j \in 1 .. Len(r) : a[i] < r[j]
  BY <1>3 DEF WalkRight
<1>6. B \subseteq ToSet(a) \union ToSet(r)
  BY <1>1 DEF WalkRight
<1> QED
  BY <1>4, <1>5, <1>6 DEF WalkRight, r

\* An element more at the end.
LEMMA AppendKeeps ==
    ASSUME NEW S, NEW s \in Seq(S), NEW e \in S
    PROVE  /\ Append(s, e) \in Seq(S) /\ ToSet(Append(s, e)) = ToSet(s) \union {e}
           /\ Len(Append(s, e)) = Len(s) + 1 /\ Append(s, e)[Len(s) + 1] = e
           /\ \A i \in 1 .. Len(s) : Append(s, e)[i] = s[i]
<1>1. /\ Append(s, e) \in Seq(S) /\ Len(Append(s, e)) = Len(s) + 1 /\ Append(s, e)[Len(s) + 1] = e
      /\ \A i \in 1 .. Len(s) : Append(s, e)[i] = s[i]
  OBVIOUS
<1>2. Len(s) \in Nat /\ DOMAIN s = 1 .. Len(s) /\ DOMAIN Append(s, e) = 1 .. Len(s) + 1
  BY <1>1
<1>3. \A i \in 1 .. Len(s) + 1 : i = Len(s) + 1 \/ i \in 1 .. Len(s)
  BY <1>2
<1>4. Len(s) + 1 \in 1 .. Len(s) + 1 /\ \A i \in 1 .. Len(s) : i \in 1 .. Len(s) + 1
  BY <1>2
<1>5. ToSet(Append(s, e)) = ToSet(s) \union {e}
  BY <1>1, <1>2, <1>3, <1>4 DEF ToSet
<1> QED
  BY <1>1, <1>5

\* A walk names a directory.
LEMMA WalkTakes ==
    ASSUME NEW a \in Seq(Hashes), NEW t \in Seq(Hashes), t # <<>>, NEW A, NEW B \in SUBSET A,
           WalkRight(a, t, A), Ascending(a)
    PROVE  Ascending(Append(a, Head(t))) /\ WalkRight(Append(a, Head(t)), Tail(t), B)
<1> DEFINE r == Tail(t)
           h == Head(t)
           b == Append(a, h)
<1>1. /\ ToSet(t) = ToSet(r) \union {h} /\ r \in Seq(Hashes) /\ Len(r) = Len(t) - 1
      /\ \A i \in 1 .. Len(t) - 1 : r[i] = t[i + 1]
  BY TailKeeps
<1>2. Len(t) \in Nat /\ Len(t) >= 1 /\ Len(a) \in Nat /\ h = t[1] /\ h \in Hashes
  OBVIOUS
<1> HIDE DEF r, h
<1>3. /\ ToSet(b) = ToSet(a) \union {h} /\ Len(b) = Len(a) + 1 /\ b[Len(a) + 1] = h
      /\ \A i \in 1 .. Len(a) : b[i] = a[i]
  BY <1>2, AppendKeeps
<1> HIDE DEF b
<1>4. \A j \in 1 .. Len(r) : j + 1 \in 1 .. Len(t) /\ r[j] = t[j + 1] /\ 1 < j + 1
  BY <1>1, <1>2
<1>5. \A i \in 1 .. Len(b) : i \in 1 .. Len(a) \/ i = Len(a) + 1
  BY <1>2, <1>3
<1>6. 1 \in 1 .. Len(t)
  BY <1>2
<1>7. Ascending(r)
  BY <1>2, <1>4 DEF WalkRight, Ascending
<1>8. \A j \in 1 .. Len(r) : h < r[j]
  BY <1>2, <1>4, <1>6 DEF WalkRight, Ascending
<1>9. \A i \in 1 .. Len(a) : a[i] < h
  BY <1>2, <1>6 DEF WalkRight
<1>10. \A i \in 1 .. Len(b), j \in 1 .. Len(r) : b[i] < r[j]
  BY <1>3, <1>4, <1>5, <1>8 DEF WalkRight
<1>11. Ascending(b)
  <2> SUFFICES ASSUME NEW i \in 1 .. Len(b), NEW j \in 1 .. Len(b), i < j
               PROVE  b[i] < b[j]
    BY DEF Ascending
  <2>1. i \in 1 .. Len(a)
    BY <1>2, <1>3
  <2>2. CASE j \in 1 .. Len(a)
    BY <1>3, <2>1, <2>2 DEF Ascending
  <2>3. CASE j = Len(a) + 1
    BY <1>3, <1>9, <2>1, <2>3
  <2> QED
    BY <1>5, <2>2, <2>3
<1>12. B \subseteq ToSet(b) \union ToSet(r)
  BY <1>1, <1>3 DEF WalkRight
<1> QED
  BY <1>7, <1>10, <1>11, <1>12 DEF WalkRight, b, r, h

\* The pages read so far and the next one.
LEMMA PagesTake ==
    ASSUME content \subseteq Hashes, NEW a \in Seq(Hashes), NEW A \in SUBSET content,
           Ascending(a), PagesRight(a, A)
    PROVE  LET rows == NextPage(IF a = <<>> THEN 0 ELSE Last(a))
           IN  /\ rows \in Seq(Hashes)
               /\ rows = <<>> => A \subseteq ToSet(a)
               /\ a \o rows \in Seq(Hashes) /\ Ascending(a \o rows)
               /\ ToSet(a \o rows) \subseteq ToSet(a) \union content
               /\ PagesRight(a \o rows, A)
<1> DEFINE after == IF a = <<>> THEN 0 ELSE Last(a)
           rows == NextPage(after)
           b == a \o rows
<1>1. Len(a) \in Nat /\ (a # <<>> => Len(a) >= 1 /\ after = a[Len(a)] /\ after \in Hashes)
  BY DEF Last
<1>2. after \in Nat /\ \A h \in Hashes : h \in Nat /\ h > 0
  <2>1. \A h \in Hashes : h \in Nat /\ h # 0
    BY StoreAssumption
  <2>2. \A h \in Hashes : h > 0
    BY <2>1
  <2> QED
    BY <1>1, <2>1, <2>2
<1>3. a = <<>> => after = 0
  OBVIOUS
<1> HIDE DEF after
<1>4. rows \in Seq(Hashes)
  BY PageTyped
<1>5. /\ Ascending(rows)
      /\ \A i \in 1 .. Len(rows) : rows[i] \in content /\ rows[i] > after
      /\ rows = <<>> => \A h \in content : h <= after
      /\ rows # <<>> => \A h \in content : after < h /\ h <= rows[Len(rows)] => h \in ToSet(rows)
  BY <1>2, PageFollows
<1> HIDE DEF rows
<1>6. /\ b \in Seq(Hashes) /\ Len(b) = Len(a) + Len(rows) /\ Len(rows) \in Nat
      /\ \A i \in 1 .. Len(b) : b[i] = IF i <= Len(a) THEN a[i] ELSE rows[i - Len(a)]
  BY <1>4
<1> HIDE DEF b
<1>7. \A i \in 1 .. Len(b) : \/ i \in 1 .. Len(a) /\ b[i] = a[i]
                             \/ i - Len(a) \in 1 .. Len(rows) /\ b[i] = rows[i - Len(a)]
  BY <1>1, <1>6
<1>8. \A i \in 1 .. Len(a) : a[i] <= after
  <2> SUFFICES ASSUME NEW i \in 1 .. Len(a)
               PROVE  a[i] <= after
    OBVIOUS
  <2>1. a # <<>> /\ Len(a) \in 1 .. Len(a) /\ a[i] \in Hashes
    BY <1>1
  <2>2. i = Len(a) \/ a[i] < a[Len(a)]
    BY <1>1, <2>1 DEF Ascending
  <2> QED
    BY <1>1, <1>2, <2>1, <2>2
<1>9. Ascending(b)
  <2> SUFFICES ASSUME NEW i \in 1 .. Len(b), NEW j \in 1 .. Len(b), i < j
               PROVE  b[i] < b[j]
    BY DEF Ascending
  <2>1. CASE i \in 1 .. Len(a) /\ j \in 1 .. Len(a)
    BY <1>6, <2>1 DEF Ascending
  <2>2. CASE i \in 1 .. Len(a) /\ j - Len(a) \in 1 .. Len(rows) /\ b[j] = rows[j - Len(a)]
    <3>1. b[i] = a[i] /\ a[i] <= after /\ a[i] \in Nat
      BY <1>2, <1>6, <1>8, <2>2
    <3>2. after < rows[j - Len(a)] /\ rows[j - Len(a)] \in Nat
      BY <1>2, <1>5, <2>2
    <3> QED
      BY <1>2, <2>2, <3>1, <3>2
  <2>3. CASE /\ i - Len(a) \in 1 .. Len(rows) /\ j - Len(a) \in 1 .. Len(rows)
             /\ b[i] = rows[i - Len(a)] /\ b[j] = rows[j - Len(a)]
    <3>1. i - Len(a) < j - Len(a)
      BY <1>1
    <3> QED
      BY <1>5, <2>3, <3>1 DEF Ascending
  <2> QED
    BY <1>1, <1>6, <1>7, <2>1, <2>2, <2>3
<1>10. ToSet(b) \subseteq ToSet(a) \union content
  <2>1. DOMAIN b = 1 .. Len(b) /\ DOMAIN a = 1 .. Len(a)
    BY <1>6
  <2> QED
    BY <1>5, <1>7, <2>1 DEF ToSet
<1>11. ToSet(a) \subseteq ToSet(b) /\ ToSet(rows) \subseteq ToSet(b)
  <2>1. DOMAIN b = 1 .. Len(b) /\ DOMAIN a = 1 .. Len(a) /\ DOMAIN rows = 1 .. Len(rows)
    BY <1>4, <1>6
  <2>2. \A i \in 1 .. Len(a) : i \in 1 .. Len(b) /\ b[i] = a[i]
    BY <1>1, <1>6
  <2>3. \A i \in 1 .. Len(rows) : i + Len(a) \in 1 .. Len(b) /\ b[i + Len(a)] = rows[i]
    <3> SUFFICES ASSUME NEW i \in 1 .. Len(rows)
                 PROVE  i + Len(a) \in 1 .. Len(b) /\ b[i + Len(a)] = rows[i]
      OBVIOUS
    <3>1. i + Len(a) \in 1 .. Len(b) /\ ~(i + Len(a) <= Len(a)) /\ i + Len(a) - Len(a) = i
      BY <1>1, <1>6
    <3> QED
      BY <1>6, <3>1
  <2> QED
    BY <2>1, <2>2, <2>3 DEF ToSet
<1>12. rows = <<>> => A \subseteq ToSet(a)
  <2> SUFFICES ASSUME rows = <<>>, NEW h \in A
               PROVE  h \in ToSet(a)
    OBVIOUS
  <2>1. h <= after /\ h \in Nat /\ h > 0
    BY <1>2, <1>5
  <2>2. a # <<>>
    BY <1>3, <2>1
  <2> QED
    BY <1>1, <2>1, <2>2 DEF PagesRight
<1>13. PagesRight(b, A)
  <2>1. CASE rows = <<>>
    <3>1. b = a
      BY <2>1 DEF b
    <3> QED
      BY <3>1
  <2>2. CASE rows # <<>>
    <3> SUFFICES ASSUME NEW h \in A, h <= b[Len(b)]
                 PROVE  h \in ToSet(b)
      BY DEF PagesRight
    <3>1. Len(rows) >= 1
      BY <1>4, <2>2
    <3>2. b[Len(b)] = rows[Len(rows)]
      BY <1>1, <1>6, <3>1
    <3>3. CASE h <= after
      <4>1. a # <<>>
        BY <1>2, <1>3, <3>3
      <4> QED
        BY <1>1, <1>11, <3>3, <4>1 DEF PagesRight
    <3>4. CASE after < h
      BY <1>5, <1>11, <2>2, <3>2, <3>4
    <3> QED
      BY <1>2, <3>3, <3>4
  <2> QED
    BY <2>1, <2>2
<1> QED
  BY <1>4, <1>6, <1>9, <1>10, <1>12, <1>13 DEF b, rows, after

\* A List in progress.
Listing(u) ==
    LET c == call[u]
    IN  c.op = "list" /\ c.at # "end" =>
            /\ c.answer \in Seq(Hashes) /\ Ascending(c.answer)
            /\ ToSet(c.answer) \subseteq c.ever /\ content \subseteq c.ever /\ c.always \subseteq content
            /\ backing = "files" => WalkRight(c.answer, c.todo, c.always)
            /\ backing = "rows" => PagesRight(c.answer, c.always)
            /\ c.at = "info" => TargetHash(u) \in c.ever

\* ListIsFaithful, for one user.
ListedRight(u) ==
    Ended(u, "list") =>
        /\ call[u].always \subseteq ToSet(call[u].answer)
        /\ ToSet(call[u].answer) \subseteq call[u].ever
        /\ IsInjective(call[u].answer)

ListInv == \A u \in Users : Listing(u) /\ ListedRight(u)

\* A List that goes on still names the right hashes.
LEMMA ListsOn ==
    ASSUME Typed, AllPlaced, FilesAgree, NEW u \in Users, ListEntry(u) \/ ListInfo(u) \/ ListRows(u), Listing(u)
    PROVE  Listing(u)' /\ ListedRight(u)'
<1> DEFINE c == call[u]
           h == TargetHash(u)
           t == Tail(c.todo)
           A == c.always
           B == Watch(c).always
           E == Watch(c).ever
<1>1. /\ content' = content /\ sidecar' = sidecar /\ backing' = backing
      /\ content' \subseteq Hashes /\ sidecar' \in [Hashes -> Mime]
  <2>1. UNCHANGED <<content, sidecar, backing>>
    BY DEF ListEntry, ListInfo, ListRows, Unwritten
  <2> QED
    BY <2>1 DEF Typed
<1>2. c.op = "list" /\ c.at \in {"start", "info"} /\ c.todo \in Seq(Hashes)
  BY CallFields DEF ListEntry, ListInfo, ListRows, CallAt, Typed
<1>3. B = A \intersect content /\ E = c.ever \union content
  BY <1>1, <1>2, Watched DEF Typed
<1>4. /\ c.answer \in Seq(Hashes) /\ Ascending(c.answer)
      /\ ToSet(c.answer) \subseteq E /\ content \subseteq E /\ B = A /\ A \subseteq content
      /\ backing = "files" => WalkRight(c.answer, c.todo, A)
      /\ backing = "rows" => PagesRight(c.answer, A)
      /\ c.at = "info" => h \in E
  BY <1>2, <1>3 DEF Listing
<1>5. c.todo # <<>> => h \in Hashes /\ t \in Seq(Hashes) /\ h = Head(c.todo)
  BY <1>2, TailKeeps, Targets DEF TargetHash
<1> HIDE DEF t, B, E
<1>6. ASSUME NEW at \in {"start", "info"}, NEW todo, NEW answer \in Seq(Hashes), Goes(u, at, todo, answer, c.ok),
             Ascending(answer), ToSet(answer) \subseteq E,
             backing = "files" => WalkRight(answer, todo, A),
             backing = "rows" => PagesRight(answer, A),
             at = "info" => Head(todo) \in E
      PROVE  Listing(u)' /\ ListedRight(u)'
  <2>1. /\ call'[u].op = "list" /\ call'[u].at = at /\ call'[u].todo = todo /\ call'[u].answer = answer
        /\ call'[u].always = A /\ call'[u].ever = E /\ TargetHash(u)' = Head(todo)
    BY <1>2, <1>4, <1>6 DEF Goes, TargetHash, B, E
  <2> QED
    BY <1>1, <1>4, <1>6, <2>1 DEF Listing, ListedRight, Ended
<1>7. ASSUME Goes(u, "end", c.todo, c.answer, c.ok), A \subseteq ToSet(c.answer)
      PROVE  Listing(u)' /\ ListedRight(u)'
  <2>1. /\ call'[u].at = "end" /\ call'[u].answer = c.answer /\ call'[u].always = A /\ call'[u].ever = E
    BY <1>4, <1>7 DEF Goes, B, E
  <2>2. IsInjective(c.answer)
    BY <1>4, AscendingOnce DEF IsInjective
  <2> QED
    BY <1>4, <1>7, <2>1, <2>2 DEF Listing, ListedRight, Ended
<1>8. CASE ListEntry(u)
  <2>1. backing = "files" /\ c.at = "start"
    BY <1>8 DEF ListEntry, CallAt
  <2>2. WalkRight(c.answer, c.todo, A)
    BY <1>4, <2>1
  <2>3. \/ c.todo = <<>> /\ Goes(u, "end", c.todo, c.answer, c.ok)
        \/ c.todo # <<>> /\ h \in content /\ Goes(u, "info", c.todo, c.answer, c.ok)
        \/ c.todo # <<>> /\ h \notin content /\ Goes(u, c.at, t, c.answer, c.ok)
    BY <1>1, <1>8, ListSteps DEF t
  <2>4. CASE c.todo = <<>> /\ Goes(u, "end", c.todo, c.answer, c.ok)
    <3>1. ToSet(c.todo) = {}
      BY <2>4 DEF ToSet
    <3>2. A \subseteq ToSet(c.answer)
      BY <2>2, <3>1 DEF WalkRight
    <3> QED
      BY <1>7, <2>4, <3>2
  <2>5. CASE c.todo # <<>> /\ h \in content /\ Goes(u, "info", c.todo, c.answer, c.ok)
    <3>1. Head(c.todo) \in E
      BY <1>4, <1>5, <2>5
    <3> QED
      BY <1>4, <1>6, <2>1, <2>2, <2>5, <3>1
  <2>6. CASE c.todo # <<>> /\ h \notin content /\ Goes(u, c.at, t, c.answer, c.ok)
    <3>1. WalkRight(c.answer, t, A)
      BY <1>2, <1>4, <1>5, <2>2, <2>6, WalkDrops DEF t
    <3> QED
      BY <1>4, <1>6, <2>1, <2>6, <3>1
  <2> QED
    BY <2>3, <2>4, <2>5, <2>6
<1>9. CASE ListInfo(u)
  <2>1. c.at = "info" /\ backing = "files" /\ c.todo # <<>> /\ h \in E
    BY <1>4, <1>9, HasTarget DEF ListInfo, CallAt, AllPlaced, Placed
  <2>2. WalkRight(c.answer, c.todo, A)
    BY <1>4, <2>1
  <2>3. Goes(u, "start", t, IF sidecar[h] = NoMime THEN c.answer ELSE Append(c.answer, h), c.ok)
    BY <1>1, <1>9, ListSteps DEF t
  <2>4. CASE sidecar[h] = NoMime
    <3>1. h \notin A
      BY <1>4, <2>4 DEF FilesAgree, StoredIsReadable
    <3>2. WalkRight(c.answer, t, A)
      BY <1>2, <1>4, <1>5, <2>1, <2>2, <3>1, WalkDrops DEF t
    <3> QED
      BY <1>4, <1>6, <2>1, <2>3, <2>4, <3>2
  <2>5. CASE sidecar[h] # NoMime
    <3> DEFINE b == Append(c.answer, h)
    <3>1. b \in Seq(Hashes) /\ ToSet(b) = ToSet(c.answer) \union {h}
      BY <1>4, <1>5, <2>1, AppendKeeps
    <3>2. Ascending(b) /\ WalkRight(b, t, A)
      <4>1. b = Append(c.answer, Head(c.todo)) /\ A \in SUBSET A /\ c.answer \in Seq(Hashes) /\ Ascending(c.answer)
        BY <1>4, <1>5, <2>1
      <4> HIDE DEF b, A, c
      <4> QED
        BY <1>2, <2>1, <2>2, <4>1, WalkTakes DEF t
    <3>3. Goes(u, "start", t, b, c.ok)
      BY <2>3, <2>5
    <3> HIDE DEF b
    <3>4. ToSet(b) \subseteq E
      BY <1>4, <2>1, <3>1
    <3> QED
      BY <1>6, <2>1, <3>1, <3>2, <3>3, <3>4
  <2> QED
    BY <2>4, <2>5
<1>10. CASE ListRows(u)
  <2> DEFINE rows == NextPage(IF c.answer = <<>> THEN 0 ELSE Last(c.answer))
             b == c.answer \o rows
  <2>1. c.at = "start" /\ backing = "rows" /\ PagesRight(c.answer, A)
    BY <1>4, <1>10 DEF ListRows, CallAt
  <2>2. IF rows = <<>> THEN Goes(u, "end", c.todo, c.answer, c.ok) ELSE Goes(u, c.at, c.todo, b, c.ok)
    BY <1>1, <1>10, ListSteps
  <2>3. /\ rows = <<>> => A \subseteq ToSet(c.answer)
        /\ b \in Seq(Hashes) /\ Ascending(b) /\ ToSet(b) \subseteq ToSet(c.answer) \union content
        /\ PagesRight(b, A)
    BY <1>4, <2>1, PagesTake DEF Typed
  <2> HIDE DEF rows, b
  <2>4. CASE rows = <<>>
    BY <1>7, <2>2, <2>3, <2>4
  <2>5. CASE rows # <<>>
    BY <1>4, <1>6, <2>1, <2>2, <2>3, <2>5
  <2> QED
    BY <2>4, <2>5
<1> QED
  BY <1>8, <1>9, <1>10

\* A List that begins has named nothing, and has what is there before it.
LEMMA ListStarts ==
    ASSUME Typed, FilesAgree, NEW u \in Users, Unwritten, backing' = backing,
           Starts(u, "list", IF backing = "files" THEN ByHash(shards) ELSE <<>>, NoMime)
    PROVE  Listing(u)' /\ ListedRight(u)'
<1> DEFINE todo == IF backing = "files" THEN ByHash(shards) ELSE <<>>
<1>1. /\ call'[u].op = "list" /\ call'[u].at = "start" /\ call'[u].todo = todo /\ call'[u].answer = <<>>
      /\ call'[u].always = content /\ call'[u].ever = content
  BY DEF Starts
<1>2. content' = content
  BY DEF Unwritten
<1>3. /\ <<>> \in Seq(Hashes) /\ Ascending(<<>>) /\ ToSet(<<>>) = {} /\ Len(<<>>) = 0
      /\ PagesRight(<<>>, content)
  BY DEF Ascending, ToSet, PagesRight
<1>4. backing = "files" => WalkRight(<<>>, todo, content)
  <2>1. Ascending(ByHash(shards)) /\ ToSet(ByHash(shards)) = shards
    BY Sorted DEF Typed
  <2>2. backing = "files" => content \subseteq shards
    BY DEF FilesAgree
  <2> HIDE DEF todo
  <2>3. backing = "files" => todo = ByHash(shards)
    BY DEF todo
  <2> QED
    BY <1>3, <2>1, <2>2, <2>3 DEF WalkRight
<1> HIDE DEF todo
<1> QED
  BY <1>1, <1>2, <1>3, <1>4 DEF Listing, ListedRight, Ended

\* Every step keeps the listings right.
LEMMA ListsStay ==
    ASSUME Typed, AllPlaced, FilesAgree, ListInv, [StoreNext]_storeVars
    PROVE  ListInv'
<1>1. CASE UNCHANGED storeVars
  BY <1>1 DEF storeVars, ListInv, Listing, ListedRight, Ended, TargetHash
<1>2. ASSUME StoreNext, NEW x \in Users
      PROVE  Listing(x)' /\ ListedRight(x)'
  <2>1. /\ content' \subseteq Hashes /\ sidecar' \in [Hashes -> Mime] /\ call[x] \in Call
        /\ (backing # "none" => backing' = backing)
    BY <1>2, StoreStays DEF Typed
  <2>2. Listing(x) /\ ListedRight(x)
    BY DEF ListInv
  <2>3. ASSUME call'[x].at = "end", call'[x] = call[x]
        PROVE  Listing(x)' /\ ListedRight(x)'
    BY <2>2, <2>3 DEF Listing, ListedRight, Ended
  <2>4. ASSUME call'[x].op # "list" \/ (call'[x].at = "end" /\ ~call'[x].ok)
        PROVE  Listing(x)' /\ ListedRight(x)'
    BY <2>4 DEF Listing, ListedRight, Ended
  <2>5. ASSUME NEW u \in Users \ {x}, Acts(u), call'[x] = Watch(call[x])
        PROVE  Listing(x)' /\ ListedRight(x)'
    <3>1. /\ call'[x].op = call[x].op /\ call'[x].at = call[x].at /\ call'[x].todo = call[x].todo
          /\ call'[x].answer = call[x].answer /\ TargetHash(x)' = TargetHash(x)
          /\ call[x].at = "end" => call'[x] = call[x]
      BY <2>1, <2>5, Watched DEF TargetHash
    <3>2. CASE call[x].op = "list" /\ call[x].at # "end"
      <4>1. /\ call'[x].always = call[x].always \intersect content'
            /\ call'[x].ever = call[x].ever \union content'
        BY <2>1, <2>5, <3>2, Watched
      <4>2. backing # "none" /\ backing' = backing
        BY <2>1, <3>2 DEF AllPlaced, Placed
      <4>3. \A A, B : /\ B \subseteq A /\ WalkRight(call[x].answer, call[x].todo, A)
                         => WalkRight(call[x].answer, call[x].todo, B)
                      /\ B \subseteq A /\ PagesRight(call[x].answer, A) => PagesRight(call[x].answer, B)
        BY DEF WalkRight, PagesRight
      <4>4. call'[x].always \subseteq call[x].always
        BY <4>1
      <4>5. /\ backing = "files" => WalkRight(call[x].answer, call[x].todo, call'[x].always)
            /\ backing = "rows" => PagesRight(call[x].answer, call'[x].always)
        BY <2>2, <3>2, <4>3, <4>4 DEF Listing
      <4> QED
        BY <2>2, <3>1, <3>2, <4>1, <4>2, <4>5 DEF Listing, ListedRight, Ended
    <3>3. CASE call[x].op # "list" \/ call[x].at = "end"
      BY <2>3, <2>4, <3>1, <3>3
    <3> QED
      BY <3>2, <3>3
  <2>6. ASSUME CallBegin(x)
        PROVE  Listing(x)' /\ ListedRight(x)'
    <3>1. Unwritten /\ backing' = backing
      BY <2>6 DEF CallBegin, GetBegin, PutBegin, PutRefused, DeleteBegin, ListBegin, BeginsCall
    <3>2. \/ call'[x].op # "list"
          \/ Starts(x, "list", IF backing = "files" THEN ByHash(shards) ELSE <<>>, NoMime)
      BY <2>6, BeginSteps, Refusing DEF Starts
    <3> QED
      BY <2>4, <3>1, <3>2, ListStarts
  <2>7. ASSUME CallStep(x) \/ Fail(x)
        PROVE  Listing(x)' /\ ListedRight(x)'
    <3>1. CASE ListEntry(x) \/ ListInfo(x) \/ ListRows(x)
      BY <2>2, <3>1, ListsOn
    <3>2. CASE Fail(x)
      <4>1. call'[x].at = "end" /\ ~call'[x].ok
        BY <2>1, <3>2, CallSteps DEF Goes
      <4> QED
        BY <2>4, <4>1
    <3>3. CASE /\ ~(ListEntry(x) \/ ListInfo(x) \/ ListRows(x) \/ Fail(x))
      <4>1. call[x].op \in {"put", "get", "delete"}
        BY <2>7, <3>3 DEF CallStep, PutStat, PutSidecar, PutContent, PutRow, GetContent, GetInfo, GetRow,
                          DeleteContent, DeleteSidecar, DeleteRows, CallAt
      <4> QED
        BY <2>4, <2>7, <4>1, Lessens
    <3> QED
      BY <3>1, <3>2, <3>3
  <2>8. CASE call'[x] = Idle
    BY <2>4, <2>8 DEF Idle
  <2> QED
    BY <1>2, <2>3, <2>5, <2>6, <2>7, <2>8, Everyone DEF Acts
<1> QED
  BY <1>1, <1>2 DEF ListInv
-----------------------------------------------------------------------------
(* The theorem. *)

\* The inductive invariant.
BlobInv == Typed /\ AllPlaced /\ Apart /\ FilesAgree /\ AnswersInv /\ ListInv

\* The invariant holds of a store not yet opened.
LEMMA BlobInit ==
    ASSUME StoreInit
    PROVE  BlobInv
<1>1. Idle \in Call
  <2>1. <<>> \in Seq(Hashes \union Mime) /\ <<>> \in Seq(Hashes) /\ NoMime \in Mime
    BY DEF Mime
  <2> QED
    BY <2>1 DEF Idle, Call
<1>2. call \in [Users -> Call] /\ \A u \in Users : call[u].op = "none" /\ call[u].at = "end"
  BY <1>1 DEF StoreInit, Idle
<1>3. Typed
  BY <1>2 DEF StoreInit, Typed, Mime
<1>4. AllPlaced
  BY <1>2 DEF AllPlaced, Placed
<1>5. Apart
  BY <1>2 DEF Apart, Writes
<1>6. FilesAgree
  BY <1>2 DEF StoreInit, FilesAgree, StoredIsReadable, PutKnows, DeleteKnows, CallAt
<1>7. AnswersInv
  BY <1>2 DEF AnswersInv, GetKnows, AnsweredTruly, Ended, CallAt
<1>8. ListInv
  BY <1>2 DEF ListInv, Listing, ListedRight, Ended
<1> QED
  BY <1>3, <1>4, <1>5, <1>6, <1>7, <1>8 DEF BlobInv

\* Every step keeps the invariant.
LEMMA BlobStep ==
    ASSUME ~WritersOverlap, BlobInv, [StoreNext]_storeVars
    PROVE  BlobInv'
  BY WellFormed, ApartStays, FilesStay, AnswersStay, ListsStay DEF BlobInv

\* What the invariant says of the properties.
LEMMA BlobInvSays ==
    ASSUME BlobInv
    PROVE  StoreTypeOK /\ StoredIsReadable /\ AnswersWereTrue /\ ListIsFaithful
<1> USE DEF BlobInv
<1>1. StoreTypeOK
  <2>1. ASSUME NEW u \in Users
        PROVE  /\ call[u].op \in {"none", "put", "get", "delete", "list"}
               /\ call[u].at \in {"start", "sidecar", "content", "info", "end"}
               /\ call[u].todo \in Seq(Hashes) /\ call[u].ok \in BOOLEAN
               /\ call[u].at # "end" /\ call[u].op # "list" => call[u].todo # <<>>
    <3>1. call[u] \in Call
      BY DEF Typed
    <3>2. call[u].at # "end" => call[u].op # "none"
      BY DEF AllPlaced, Placed
    <3> QED
      BY <3>1, <3>2, CallFields, HasTarget
  <2> QED
    BY <2>1 DEF StoreTypeOK, Typed, Mime
<1>2. StoredIsReadable
  BY DEF FilesAgree
<1>3. AnswersWereTrue
  BY DEF AnswersInv, AnsweredTruly, AnswersWereTrue, Note
<1>4. ListIsFaithful
  BY DEF ListInv, ListedRight, ListIsFaithful
<1> QED
  BY <1>1, <1>2, <1>3, <1>4

\* Both stores, of files and of rows, keep what blob.Store promises through every
\* crash and failed operation, as long as no Put overlaps a Delete, or a Put with
\* another media type, of the same hash: the contract, content never without its
\* sidecar, answers that were true while the call ran, listings without a loss or
\* a repetition (blob/fs/store.go, blob/gorm/store.go).
THEOREM BlobsKept == ~WritersOverlap => (StoreSpec => BlobsKeepFaith)
<1> SUFFICES ASSUME ~WritersOverlap PROVE StoreSpec => BlobsKeepFaith
  OBVIOUS
<1>1. BlobInv /\ [StoreNext]_storeVars => BlobInv'
  BY BlobStep
<1>2. BlobInv => StoreTypeOK /\ StoredIsReadable /\ AnswersWereTrue /\ ListIsFaithful
  BY BlobInvSays
<1>3. BlobInv /\ [StoreNext]_storeVars => [Contract!Next]_BlobsHeld
  BY ContractStep DEF BlobInv
<1> QED
  BY <1>1, <1>2, <1>3, BlobInit, ContractInit, PTL DEF StoreSpec, BlobsKeepFaith, KeepsContract, Contract!Spec
=============================================================================
