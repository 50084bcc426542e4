------------------------ MODULE HybridRecall_proofs -------------------------
(***************************************************************************)
(* TLAPS proofs about the semantic index, for any number of sessions,      *)
(* artifacts, edits and failing calls.                                     *)
(*                                                                         *)
(* The argument: a session has one build at a time and knows it            *)
(* (OneBuild), every row of vectors that is handed on was made of the text *)
(* it is labelled with (RowsAreOfTheirText), and what a build has read is  *)
(* as new as every invalidation that no dirty mark stands for              *)
(* (BuildIsNewEnough).                                                     *)
(***************************************************************************)
EXTENDS HybridRecall, TLAPS

\* The vector of a row is that of the text it is labelled with.
OfTheirText(rows) == \A d \in Docs : rows[d].vec = rows[d].hash

HasRead(s) == build[s].pc \in {"store", "install"}

\* The building mark is set from the start of a build to its end.
OneBuild ==
    \A s \in Sessions :
        hybrid[s].building <=> build[s].pc \in {"resolve", "load", "corpus", "store", "install"}

\* The shared cache, what a build read of it, what it made and what is installed.
RowsAreOfTheirText ==
    /\ OfTheirText(cache)
    /\ \A s \in Sessions :
          /\ OfTheirText(hybrid[s].index)
          /\ build[s].pc = "corpus" => OfTheirText(build[s].cached)
          /\ HasRead(s) => OfTheirText(build[s].vectors)

\* Nothing is newer than the artifact, and what a build has read is no older than
\* the index it will replace.
IndexIsBehind ==
    \A s \in Sessions, d \in Docs :
        /\ told[s][d] <= text[d] /\ hybrid[s].index[d].hash <= text[d]
        /\ HasRead(s) => /\ build[s].vectors[d].hash >= hybrid[s].index[d].hash
                         /\ build[s].vectors[d].hash <= text[d]

\* An invalidation that the running build came too early for has left its dirty
\* mark, and so has one the installed index came too early for.
BuildIsNewEnough ==
    \A s \in Sessions, d \in Docs :
        /\ HasRead(s) => hybrid[s].dirty \/ build[s].vectors[d].hash >= told[s][d]
        /\ build[s].pc \in {"none", "rewarm"} =>
              \/ hybrid[s].dirty \/ hybrid[s].index[d].hash >= told[s][d]
              \/ s \in failed \/ hybrid[s].embedder = "unavailable"

\* The inductive invariant.
RecallInv == TypeOK /\ OneBuild /\ RowsAreOfTheirText /\ IndexIsBehind /\ BuildIsNewEnough
-----------------------------------------------------------------------------
(* Facts about the operators of the model.                                 *)

\* What a build holds at each of its steps.
LEMMA BuildShape ==
    ASSUME TypeOK, NEW s \in Sessions
    PROVE  /\ build[s].pc \in {"none", "resolve", "load", "rewarm", "corpus", "store", "install"}
           /\ build[s].pc = "none" => build[s] = NoBuild
           /\ build[s].pc = "corpus" => build[s].cached \in Vectors
           /\ HasRead(s) => build[s].vectors \in Vectors /\ build[s].misses \in SUBSET Docs
<1>1. build[s] \in Build
  BY DEF TypeOK
<1>2. QED
  BY <1>1 DEF Build, NoBuild, HasRead

\* Steps of a build that hold no vectors.
LEMMA BuildTypes ==
    /\ NoBuild \in Build /\ NoBuild.pc = "none"
    /\ \A p \in {"resolve", "load", "rewarm"} : [pc |-> p] \in Build
BY DEF Build, NoBuild

\* The marks of a session.
LEMMA HybridShape ==
    ASSUME TypeOK, NEW s \in Sessions
    PROVE  /\ hybrid[s] \in Hybrid /\ hybrid[s].index \in Vectors
           /\ \A d \in Docs : hybrid[s].index[d].hash \in Nat /\ hybrid[s].index[d].vec \in Nat
           /\ \A d \in Docs : told[s][d] \in Nat /\ text[d] \in Nat
BY DEF TypeOK, Hybrid, Vectors

\* The marks of a session that starts a build.
LEMMA MarksOfStart ==
    ASSUME NEW h \in Hybrid, NEW g, g = [h EXCEPT !.building = TRUE, !.dirty = FALSE]
    PROVE  g \in Hybrid /\ g.building = TRUE /\ g.index = h.index
BY DEF Hybrid

\* The marks of a session whose embedder is resolved.
LEMMA MarksOfResolve ==
    ASSUME NEW h \in Hybrid, NEW g, g = [h EXCEPT !.embedder = "up"]
    PROVE  g \in Hybrid /\ g.index = h.index /\ g.building = h.building
BY DEF Hybrid

\* The marks of a session that has no embedder.
LEMMA MarksOfUnavailable ==
    ASSUME NEW h \in Hybrid,
           NEW g, g = [h EXCEPT !.embedder = "unavailable", !.building = FALSE, !.built = TRUE]
    PROVE  /\ g \in Hybrid /\ g.index = h.index
           /\ g.building = FALSE /\ g.embedder = "unavailable"
BY DEF Hybrid

\* The marks of a session whose build ends with new vectors.
Installed(h, v) == [h EXCEPT !.index = v, !.building = FALSE, !.built = TRUE]

\* They keep an invalidation that came meanwhile.
LEMMA MarksOfInstall ==
    ASSUME NEW h \in Hybrid, NEW v \in Vectors
    PROVE  /\ Installed(h, v) \in Hybrid /\ Installed(h, v).index = v
           /\ ~Installed(h, v).building /\ (Installed(h, v).dirty <=> h.dirty)
BY DEF Hybrid, Installed

\* The marks of a session whose build fails.
LEMMA MarksOfFailure ==
    ASSUME NEW h \in Hybrid, NEW g, g = [h EXCEPT !.building = FALSE]
    PROVE  g \in Hybrid /\ g.index = h.index /\ g.building = FALSE
BY DEF Hybrid

\* What ensureWarming does to its session: it starts a build that will read the
\* corpus from now on and clears the dirty mark, or it changes no mark.
LEMMA EnsureWarmingKeeps ==
    ASSUME RecallInv, NEW s \in Sessions, NEW otherwise, EnsureWarming(s, otherwise),
           otherwise = build[s] \/ (build[s].pc = "rewarm" /\ otherwise = NoBuild),
           UNCHANGED <<text, cache, edits, faults, told, failed>>,
           handler' \in [Sessions -> {"idle", "stale"} \cup Docs]
    PROVE  RecallInv'
<1>1. CASE NeedsWarming(hybrid[s])
  <2>1. /\ hybrid' = [hybrid EXCEPT ![s].building = TRUE, ![s].dirty = FALSE]
        /\ build' = [build EXCEPT ![s] = [pc |-> "resolve"]]
    BY <1>1 DEF EnsureWarming
  <2>2. hybrid[s] \in Hybrid /\ hybrid'[s] = [hybrid[s] EXCEPT !.building = TRUE, !.dirty = FALSE]
    BY <2>1 DEF RecallInv, TypeOK
  <2>3. hybrid'[s] \in Hybrid /\ hybrid'[s].building = TRUE /\ hybrid'[s].index = hybrid[s].index
    BY <2>2, MarksOfStart
  <2>4. /\ build'[s] = [pc |-> "resolve"]
        /\ \A r \in Sessions \ {s} : hybrid'[r] = hybrid[r] /\ build'[r] = build[r]
    BY <2>1 DEF RecallInv, TypeOK
  <2>5. TypeOK'
    BY <2>1, <2>3, BuildTypes DEF RecallInv, TypeOK
  <2>6. OneBuild'
    BY <2>3, <2>4 DEF RecallInv, OneBuild
  <2>7. RowsAreOfTheirText'
    BY <2>3, <2>4 DEF RecallInv, RowsAreOfTheirText, OfTheirText, HasRead
  <2>8. IndexIsBehind' /\ BuildIsNewEnough'
    BY <2>3, <2>4 DEF RecallInv, IndexIsBehind, BuildIsNewEnough, HasRead
  <2>9. QED
    BY <2>5, <2>6, <2>7, <2>8 DEF RecallInv
<1>2. CASE ~NeedsWarming(hybrid[s])
  <2>1. hybrid' = hybrid /\ build' = [build EXCEPT ![s] = otherwise]
    BY <1>2 DEF EnsureWarming
  <2>2. CASE build' = build
    BY <2>1, <2>2 DEF RecallInv, TypeOK, OneBuild, RowsAreOfTheirText, OfTheirText, IndexIsBehind,
                      BuildIsNewEnough, HasRead
  <2>3. CASE build[s].pc = "rewarm" /\ otherwise = NoBuild
    <3>1. build'[s] = NoBuild /\ \A r \in Sessions \ {s} : build'[r] = build[r]
      BY <2>1, <2>3 DEF RecallInv, TypeOK
    <3>2. build'[s].pc = "none"
      BY <3>1, BuildTypes
    <3>3. TypeOK'
      BY <2>1, <2>3, BuildTypes DEF RecallInv, TypeOK
    <3>4. OneBuild'
      BY <2>1, <2>3, <3>1, <3>2 DEF RecallInv, OneBuild
    <3>5. RowsAreOfTheirText'
      BY <2>1, <3>1, <3>2 DEF RecallInv, RowsAreOfTheirText, OfTheirText, HasRead
    <3>6. IndexIsBehind' /\ BuildIsNewEnough'
      BY <2>1, <2>3, <3>1, <3>2 DEF RecallInv, IndexIsBehind, BuildIsNewEnough, HasRead
    <3>7. QED
      BY <3>3, <3>4, <3>5, <3>6 DEF RecallInv
  <2>4. QED
    BY <2>1, <2>2, <2>3 DEF RecallInv, TypeOK
<1>3. QED
  BY <1>1, <1>2

-----------------------------------------------------------------------------
(* The handler thread.                                                     *)

\* A newer text makes no row wrong.
LEMMA WriteKeeps == ASSUME NEW s \in Sessions PROVE RecallInv /\ Write(s) => RecallInv'
<1> SUFFICES ASSUME RecallInv, Write(s) PROVE RecallInv'
  OBVIOUS
<1>1. PICK d \in Docs :
        /\ edits' = edits + 1
        /\ text' = [text EXCEPT ![d] = @ + 1]
        /\ \E next \in {d, "idle"} : handler' = [handler EXCEPT ![s] = next]
        /\ UNCHANGED <<cache, hybrid, build, faults, told, failed>>
  BY DEF Write
<1>2. TypeOK'
  BY <1>1 DEF RecallInv, TypeOK
<1>3. \A e \in Docs : text[e] \in Nat /\ text'[e] \in Nat /\ text[e] <= text'[e]
  BY <1>1 DEF RecallInv, TypeOK
<1>4. OneBuild' /\ RowsAreOfTheirText' /\ BuildIsNewEnough'
  BY <1>1 DEF RecallInv, OneBuild, RowsAreOfTheirText, OfTheirText, BuildIsNewEnough, HasRead
<1>5. IndexIsBehind'
  <2> SUFFICES ASSUME NEW r \in Sessions, NEW e \in Docs
               PROVE  /\ told[r][e] <= text'[e] /\ hybrid[r].index[e].hash <= text'[e]
                      /\ HasRead(r) => /\ build[r].vectors[e].hash >= hybrid[r].index[e].hash
                                       /\ build[r].vectors[e].hash <= text'[e]
    BY <1>1 DEF IndexIsBehind, HasRead
  <2>1. told[r][e] \in Nat /\ hybrid[r].index[e].hash \in Nat
    BY HybridShape DEF RecallInv
  <2>2. HasRead(r) => build[r].vectors[e].hash \in Nat
    BY BuildShape DEF RecallInv, Vectors
  <2>3. QED
    BY <1>3, <2>1, <2>2 DEF RecallInv, IndexIsBehind
<1>6. QED
  BY <1>2, <1>4, <1>5 DEF RecallInv

\* An invalidation leaves its dirty mark, whatever the build has read.
LEMMA InvalidateKeeps == ASSUME NEW s \in Sessions PROVE RecallInv /\ Invalidate(s) => RecallInv'
<1> SUFFICES ASSUME RecallInv, Invalidate(s) PROVE RecallInv'
  OBVIOUS
<1>1. PICK d \in Docs :
        /\ hybrid' = [hybrid EXCEPT ![s].dirty = TRUE]
        /\ told' = [told EXCEPT ![s][d] = text[d]]
        /\ handler' = [handler EXCEPT ![s] = "stale"]
        /\ UNCHANGED <<text, cache, build, edits, faults, failed>>
  BY DEF Invalidate
<1>2. /\ hybrid'[s] = [hybrid[s] EXCEPT !.dirty = TRUE]
      /\ \A r \in Sessions \ {s} : hybrid'[r] = hybrid[r] /\ told'[r] = told[r]
      /\ told'[s] = [told[s] EXCEPT ![d] = text[d]]
  BY <1>1 DEF RecallInv, TypeOK
<1>3. /\ hybrid'[s] \in Hybrid /\ hybrid'[s].dirty = TRUE
      /\ hybrid'[s].index = hybrid[s].index /\ hybrid'[s].building = hybrid[s].building
  BY <1>2, HybridShape DEF RecallInv, Hybrid
<1>4. TypeOK'
  BY <1>1, <1>3 DEF RecallInv, TypeOK
<1>5. OneBuild'
  BY <1>1, <1>2, <1>3 DEF RecallInv, OneBuild
<1>6. RowsAreOfTheirText'
  BY <1>1, <1>2, <1>3 DEF RecallInv, RowsAreOfTheirText, OfTheirText, HasRead
<1>7. IndexIsBehind'
  <2>1. \A e \in Docs : told'[s][e] <= text[e]
    BY <1>2, HybridShape DEF RecallInv, TypeOK, IndexIsBehind
  <2>2. QED
    BY <1>1, <1>2, <1>3, <2>1 DEF RecallInv, IndexIsBehind, HasRead
<1>8. BuildIsNewEnough'
  BY <1>1, <1>2, <1>3 DEF RecallInv, BuildIsNewEnough, HasRead
<1>9. QED
  BY <1>4, <1>5, <1>6, <1>7, <1>8 DEF RecallInv

\* The second half of an invalidation, and a search, only warm the index.
LEMMA WarmingKeeps ==
    ASSUME NEW s \in Sessions
    PROVE  RecallInv /\ (InvalidateWarm(s) \/ Search(s) \/ Rewarm(s)) => RecallInv'
<1>1. RecallInv /\ InvalidateWarm(s) => RecallInv'
  <2> SUFFICES ASSUME RecallInv, InvalidateWarm(s) PROVE RecallInv'
    OBVIOUS
  <2>1. handler' \in [Sessions -> {"idle", "stale"} \cup Docs]
    BY DEF RecallInv, TypeOK, InvalidateWarm
  <2>2. QED
    BY <2>1, EnsureWarmingKeeps DEF InvalidateWarm
<1>2. RecallInv /\ Search(s) => RecallInv'
  BY EnsureWarmingKeeps DEF Search, RecallInv, TypeOK
<1>3. RecallInv /\ Rewarm(s) => RecallInv'
  BY EnsureWarmingKeeps DEF Rewarm, RecallInv, TypeOK
<1>4. QED
  BY <1>1, <1>2, <1>3
-----------------------------------------------------------------------------
(* The build.                                                              *)

\* A build that finds no embedder ends, and the session says so.
LEMMA ResolveEmbedderKeeps ==
    ASSUME NEW s \in Sessions PROVE RecallInv /\ ResolveEmbedder(s) => RecallInv'
<1> SUFFICES ASSUME RecallInv, ResolveEmbedder(s) PROVE RecallInv'
  OBVIOUS
<1>1. /\ hybrid[s] \in Hybrid /\ build[s].pc = "resolve"
      /\ UNCHANGED <<text, cache, handler, edits, faults, told, failed>>
  BY DEF ResolveEmbedder, RecallInv, TypeOK
<1>2. CASE /\ hybrid' = [hybrid EXCEPT ![s].embedder = "up"]
           /\ Holds(s, [pc |-> "load"])
  <2>0. hybrid'[s] = [hybrid[s] EXCEPT !.embedder = "up"]
    BY <1>2 DEF RecallInv, TypeOK
  <2>1. /\ build'[s].pc = "load"
        /\ \A r \in Sessions \ {s} : hybrid'[r] = hybrid[r] /\ build'[r] = build[r]
    BY <1>2 DEF Holds, RecallInv, TypeOK
  <2>2. /\ hybrid'[s] \in Hybrid /\ hybrid'[s].index = hybrid[s].index
        /\ hybrid'[s].building = hybrid[s].building
    BY <1>1, <2>0, MarksOfResolve
  <2>3. TypeOK'
    BY <1>1, <1>2, <2>2, BuildTypes DEF Holds, RecallInv, TypeOK
  <2>4. OneBuild'
    BY <1>1, <2>1, <2>2 DEF RecallInv, OneBuild
  <2>5. RowsAreOfTheirText'
    BY <1>1, <2>1, <2>2 DEF RecallInv, RowsAreOfTheirText, OfTheirText, HasRead
  <2>6. IndexIsBehind' /\ BuildIsNewEnough'
    BY <1>1, <2>1, <2>2 DEF RecallInv, IndexIsBehind, BuildIsNewEnough, HasRead
  <2>7. QED
    BY <2>3, <2>4, <2>5, <2>6 DEF RecallInv
<1>3. CASE /\ hybrid' = [hybrid EXCEPT ![s].embedder = "unavailable", ![s].building = FALSE,
                                       ![s].built = TRUE]
           /\ Holds(s, IF hybrid[s].dirty THEN [pc |-> "rewarm"] ELSE NoBuild)
  <2>1. hybrid'[s] = [hybrid[s] EXCEPT !.embedder = "unavailable", !.building = FALSE, !.built = TRUE]
    BY <1>3 DEF RecallInv, TypeOK
  <2>2. /\ hybrid'[s] \in Hybrid /\ hybrid'[s].index = hybrid[s].index
        /\ hybrid'[s].building = FALSE /\ hybrid'[s].embedder = "unavailable"
    BY <1>1, <2>1, MarksOfUnavailable
  <2>3. \A r \in Sessions \ {s} : hybrid'[r] = hybrid[r] /\ build'[r] = build[r]
    BY <1>3 DEF Holds, RecallInv, TypeOK
  <2>4. build'[s] \in Build /\ build'[s].pc \in {"none", "rewarm"}
    BY <1>3, BuildTypes DEF Holds, RecallInv, TypeOK
  <2>5. TypeOK'
    BY <1>1, <1>3, <2>2, <2>4 DEF Holds, RecallInv, TypeOK
  <2>6. OneBuild'
    BY <2>2, <2>3, <2>4 DEF RecallInv, OneBuild
  <2>7. RowsAreOfTheirText'
    BY <1>1, <2>2, <2>3, <2>4 DEF RecallInv, RowsAreOfTheirText, OfTheirText, HasRead
  <2>8. IndexIsBehind' /\ BuildIsNewEnough'
    BY <1>1, <2>2, <2>3, <2>4 DEF RecallInv, IndexIsBehind, BuildIsNewEnough, HasRead
  <2>9. QED
    BY <2>5, <2>6, <2>7, <2>8 DEF RecallInv
<1>4. QED
  BY <1>2, <1>3 DEF ResolveEmbedder

\* The cache a build reads has good rows only.
LEMMA LoadCacheKeeps ==
    ASSUME NEW s \in Sessions PROVE RecallInv /\ LoadCache(s) => RecallInv'
<1> SUFFICES ASSUME RecallInv, LoadCache(s) PROVE RecallInv'
  OBVIOUS
<1>1. /\ build[s].pc = "load"
      /\ build' = [build EXCEPT ![s] = [pc |-> "corpus", cached |-> cache]]
      /\ UNCHANGED <<text, cache, hybrid, handler, edits, faults, told, failed>>
  BY DEF LoadCache, Holds
<1>2. /\ build'[s].pc = "corpus" /\ build'[s].cached = cache
      /\ \A r \in Sessions \ {s} : build'[r] = build[r]
  BY <1>1 DEF RecallInv, TypeOK
<1>3. TypeOK'
  BY <1>1 DEF RecallInv, TypeOK, Build
<1>4. OneBuild'
  BY <1>1, <1>2 DEF RecallInv, OneBuild
<1>5. RowsAreOfTheirText'
  BY <1>1, <1>2 DEF RecallInv, RowsAreOfTheirText, OfTheirText, HasRead
<1>6. IndexIsBehind' /\ BuildIsNewEnough'
  BY <1>1, <1>2 DEF RecallInv, IndexIsBehind, BuildIsNewEnough, HasRead
<1>7. QED
  BY <1>3, <1>4, <1>5, <1>6 DEF RecallInv

\* A build reads the text after it cleared the dirty mark, and labels a row with
\* the text that its vector, cached or new, was made of.
LEMMA LoadCorpusKeeps ==
    ASSUME NEW s \in Sessions PROVE RecallInv /\ LoadCorpus(s) => RecallInv'
<1> SUFFICES ASSUME RecallInv, LoadCorpus(s) PROVE RecallInv'
  OBVIOUS
<1> DEFINE c      == build[s].cached
           corpus == {d \in Docs : text[d] # 0}
           hits   == {d \in corpus : CacheHit(c, d)}
           v      == EmbedMisses(c, hits)
           p      == IF hits = corpus THEN "install" ELSE "store"
<1>1. /\ build[s].pc = "corpus"
      /\ build' = [build EXCEPT ![s] = [pc |-> p, vectors |-> v, misses |-> corpus \ hits]]
      /\ UNCHANGED <<text, cache, hybrid, handler, edits, faults, told, failed>>
  BY DEF LoadCorpus, Holds
<1>2. c \in Vectors /\ OfTheirText(c)
  BY <1>1, BuildShape DEF RecallInv, RowsAreOfTheirText
<1>3. /\ v \in Vectors
      /\ \A d \in Docs : v[d].hash = text[d] /\ v[d].vec = text[d]
  BY <1>2 DEF EmbedMisses, CacheHit, Vectors, OfTheirText, RecallInv, TypeOK
<1>4. p \in {"store", "install"} /\ corpus \ hits \in SUBSET Docs
  OBVIOUS
<1> HIDE DEF c, corpus, hits, v, p
<1>5. /\ build'[s].pc \in {"store", "install"} /\ build'[s].vectors = v
      /\ \A r \in Sessions \ {s} : build'[r] = build[r]
  BY <1>1, <1>4 DEF RecallInv, TypeOK
<1>6. TypeOK'
  BY <1>1, <1>3, <1>4 DEF RecallInv, TypeOK, Build
<1>7. OneBuild'
  BY <1>1, <1>5 DEF RecallInv, OneBuild
<1>8. RowsAreOfTheirText'
  BY <1>1, <1>3, <1>5 DEF RecallInv, RowsAreOfTheirText, OfTheirText, HasRead
<1>9. IndexIsBehind' /\ BuildIsNewEnough'
  <2>1. \A d \in Docs : /\ text[d] \in Nat /\ v[d].hash = text[d]
                        /\ v[d].hash >= hybrid[s].index[d].hash /\ v[d].hash >= told[s][d]
                        /\ v[d].hash <= text[d]
    BY <1>3, HybridShape DEF RecallInv, IndexIsBehind
  <2>2. QED
    BY <1>1, <1>5, <2>1 DEF RecallInv, IndexIsBehind, BuildIsNewEnough, HasRead
<1>10. QED
  BY <1>6, <1>7, <1>8, <1>9 DEF RecallInv

\* A row that a build stores is a good one, whoever has written the row before.
LEMMA StoreMissKeeps ==
    ASSUME NEW s \in Sessions PROVE RecallInv /\ StoreMiss(s) => RecallInv'
<1> SUFFICES ASSUME RecallInv, StoreMiss(s) PROVE RecallInv'
  OBVIOUS
<1> DEFINE b == build[s]
<1>1. PICK d \in b.misses :
        /\ cache' = [cache EXCEPT ![d] = b.vectors[d]]
        /\ build' = [build EXCEPT ![s] = [b EXCEPT !.misses = @ \ {d},
                                 !.pc = IF b.misses = {d} THEN "install" ELSE "store"]]
  BY DEF StoreMiss, Holds
<1>2. b.pc = "store" /\ UNCHANGED <<text, hybrid, handler, edits, faults, told, failed>>
  BY DEF StoreMiss
<1>3. /\ b \in [pc: {"store", "install"}, vectors: Vectors, misses: SUBSET Docs]
      /\ b.vectors \in Vectors /\ d \in Docs /\ OfTheirText(b.vectors)
  <2>1. b \in Build
    BY DEF RecallInv, TypeOK
  <2>2. b \in [pc: {"store", "install"}, vectors: Vectors, misses: SUBSET Docs]
    BY <1>2, <2>1 DEF Build, NoBuild
  <2>3. QED
    BY <1>1, <1>2, <2>2 DEF RecallInv, RowsAreOfTheirText, HasRead
<1>4. /\ build'[s].pc \in {"store", "install"} /\ build'[s].vectors = b.vectors
      /\ build'[s] \in Build
      /\ \A r \in Sessions \ {s} : build'[r] = build[r]
  <2>1. /\ build'[s] = [b EXCEPT !.misses = @ \ {d},
                                 !.pc = IF b.misses = {d} THEN "install" ELSE "store"]
        /\ \A r \in Sessions \ {s} : build'[r] = build[r]
    BY <1>1 DEF RecallInv, TypeOK
  <2> HIDE DEF b
  <2>2. QED
    BY <1>3, <2>1 DEF Build
<1> HIDE DEF b
<1>5. TypeOK'
  <2>1. cache' \in Vectors
    BY <1>1, <1>3 DEF RecallInv, TypeOK, Vectors
  <2>2. build' \in [Sessions -> Build]
    BY <1>1, <1>4 DEF RecallInv, TypeOK
  <2>3. QED
    BY <1>2, <2>1, <2>2 DEF RecallInv, TypeOK
<1>6. OneBuild'
  BY <1>2, <1>4 DEF RecallInv, OneBuild, b
<1>7. RowsAreOfTheirText'
  <2>1. OfTheirText(cache')
    BY <1>1, <1>3 DEF RecallInv, RowsAreOfTheirText, OfTheirText, TypeOK, Vectors
  <2>2. QED
    BY <1>2, <1>3, <1>4, <2>1 DEF RecallInv, RowsAreOfTheirText, OfTheirText, HasRead
<1>8. IndexIsBehind' /\ BuildIsNewEnough'
  BY <1>2, <1>4 DEF RecallInv, IndexIsBehind, BuildIsNewEnough, HasRead, b
<1>9. QED
  BY <1>5, <1>6, <1>7, <1>8 DEF RecallInv

\* What is installed is as new as every invalidation without a dirty mark.
LEMMA InstallKeeps ==
    ASSUME NEW s \in Sessions PROVE RecallInv /\ Install(s) => RecallInv'
<1> SUFFICES ASSUME RecallInv, Install(s) PROVE RecallInv'
  OBVIOUS
<1> DEFINE v == build[s].vectors
<1>1. /\ build[s].pc = "install"
      /\ hybrid' = [hybrid EXCEPT ![s].index = v, ![s].building = FALSE, ![s].built = TRUE]
      /\ build' = [build EXCEPT ![s] = IF hybrid[s].dirty THEN [pc |-> "rewarm"] ELSE NoBuild]
      /\ failed' = failed \ {s}
      /\ UNCHANGED <<text, cache, handler, edits, faults, told>>
  BY DEF Install, Holds
<1>2. /\ hybrid[s] \in Hybrid /\ v \in Vectors
      /\ hybrid'[s] = Installed(hybrid[s], v)
  BY <1>1, BuildShape DEF RecallInv, TypeOK, HasRead, Installed
<1>3. /\ OfTheirText(v)
      /\ \A d \in Docs : /\ v[d].hash <= text[d]
                         /\ hybrid[s].dirty \/ v[d].hash >= told[s][d]
  BY <1>1 DEF RecallInv, RowsAreOfTheirText, IndexIsBehind, BuildIsNewEnough, HasRead
<1> HIDE DEF v
<1>4. /\ hybrid'[s] \in Hybrid /\ hybrid'[s].index = v
      /\ ~hybrid'[s].building /\ (hybrid'[s].dirty <=> hybrid[s].dirty)
  BY <1>2, MarksOfInstall
<1>5. \A r \in Sessions \ {s} : hybrid'[r] = hybrid[r] /\ build'[r] = build[r]
  BY <1>1 DEF RecallInv, TypeOK
<1>6. build'[s] \in Build /\ build'[s].pc \in {"none", "rewarm"}
  BY <1>1, BuildTypes DEF RecallInv, TypeOK
<1>7. /\ failed' = failed \ {s}
      /\ UNCHANGED <<text, cache, told>>
  BY <1>1
<1>8. TypeOK'
  BY <1>1, <1>4, <1>6 DEF RecallInv, TypeOK
<1>9. OneBuild'
  BY <1>4, <1>5, <1>6 DEF RecallInv, OneBuild
<1>10. RowsAreOfTheirText'
  BY <1>3, <1>4, <1>5, <1>6, <1>7 DEF RecallInv, RowsAreOfTheirText, OfTheirText, HasRead
<1>11. IndexIsBehind' /\ BuildIsNewEnough'
  BY <1>3, <1>4, <1>5, <1>6, <1>7 DEF RecallInv, IndexIsBehind, BuildIsNewEnough, HasRead
<1>12. QED
  BY <1>9, <1>10, <1>11, <1>8 DEF RecallInv

\* A build that fails leaves the index as it was, and its session on record.
LEMMA BuildFailsKeeps ==
    ASSUME NEW s \in Sessions PROVE RecallInv /\ BuildFails(s) => RecallInv'
<1> SUFFICES ASSUME RecallInv, BuildFails(s) PROVE RecallInv'
  OBVIOUS
<1>1. /\ faults' = faults + 1
      /\ hybrid' = [hybrid EXCEPT ![s].building = FALSE]
      /\ build' = [build EXCEPT ![s] = NoBuild]
      /\ failed' = failed \cup {s}
      /\ UNCHANGED <<text, cache, handler, edits, told>>
  BY DEF BuildFails, Holds
<1>2. hybrid[s] \in Hybrid /\ hybrid'[s] = [hybrid[s] EXCEPT !.building = FALSE]
  BY <1>1 DEF RecallInv, TypeOK
<1>3. hybrid'[s] \in Hybrid /\ hybrid'[s].index = hybrid[s].index /\ hybrid'[s].building = FALSE
  BY <1>2, MarksOfFailure
<1>4. \A r \in Sessions \ {s} : hybrid'[r] = hybrid[r] /\ build'[r] = build[r]
  BY <1>1 DEF RecallInv, TypeOK
<1>5. build'[s] \in Build /\ build'[s].pc = "none"
  BY <1>1, BuildTypes DEF RecallInv, TypeOK
<1>6. TypeOK'
  BY <1>1, <1>3, <1>5 DEF RecallInv, TypeOK
<1>7. OneBuild'
  BY <1>3, <1>4, <1>5 DEF RecallInv, OneBuild
<1>8. RowsAreOfTheirText'
  BY <1>1, <1>3, <1>4, <1>5 DEF RecallInv, RowsAreOfTheirText, OfTheirText, HasRead
<1>9. IndexIsBehind' /\ BuildIsNewEnough'
  BY <1>1, <1>3, <1>4, <1>5 DEF RecallInv, IndexIsBehind, BuildIsNewEnough, HasRead
<1>10. QED
  BY <1>6, <1>7, <1>8, <1>9 DEF RecallInv

-----------------------------------------------------------------------------
(* The theorems.                                                           *)

\* An empty cache and empty indexes satisfy the invariant.
LEMMA RecallInvInit == Init => RecallInv
<1> SUFFICES ASSUME Init PROVE RecallInv
  OBVIOUS
<1>1. /\ NoVectors \in Vectors
      /\ \A d \in Docs : NoVectors[d].hash = 0 /\ NoVectors[d].vec = 0
  BY DEF NoVectors, Vectors
<1>2. ASSUME NEW s \in Sessions
      PROVE  /\ hybrid[s] \in Hybrid /\ hybrid[s].building = FALSE /\ hybrid[s].index = NoVectors
             /\ build[s] = NoBuild /\ build[s].pc = "none"
             /\ told[s] = [d \in Docs |-> 0]
  BY <1>1 DEF Init, Hybrid, NoBuild
<1>3. TypeOK
  <2>1. hybrid \in [Sessions -> Hybrid] /\ build \in [Sessions -> Build]
    BY <1>2, BuildTypes DEF Init
  <2>2. QED
    BY <1>1, <2>1 DEF Init, TypeOK
<1>4. OneBuild
  BY <1>2 DEF OneBuild
<1>5. RowsAreOfTheirText
  BY <1>1, <1>2 DEF Init, RowsAreOfTheirText, OfTheirText, HasRead
<1>6. IndexIsBehind /\ BuildIsNewEnough
  <2>1. \A s \in Sessions, d \in Docs :
           hybrid[s].index[d].hash = 0 /\ told[s][d] = 0 /\ text[d] = 0 /\ build[s].pc = "none"
    BY <1>1, <1>2 DEF Init
  <2>2. QED
    BY <2>1 DEF IndexIsBehind, BuildIsNewEnough, HasRead
<1>7. QED
  BY <1>3, <1>4, <1>5, <1>6 DEF RecallInv

\* Every step of every session keeps it.
LEMMA RecallInvStep == RecallInv /\ [Next]_vars => RecallInv'
<1> SUFFICES ASSUME RecallInv, [Next]_vars PROVE RecallInv'
  OBVIOUS
<1>1. ASSUME NEW s \in Sessions, Write(s) \/ Search(s) \/ HandlerStep(s) \/ BuildStep(s)
      PROVE  RecallInv'
  BY <1>1, WriteKeeps, InvalidateKeeps, WarmingKeeps, ResolveEmbedderKeeps, LoadCacheKeeps,
     LoadCorpusKeeps, StoreMissKeeps, InstallKeeps, BuildFailsKeeps DEF HandlerStep, BuildStep
<1>2. CASE UNCHANGED vars
  BY <1>2 DEF vars, RecallInv, TypeOK, OneBuild, RowsAreOfTheirText, OfTheirText, IndexIsBehind,
              BuildIsNewEnough, HasRead
<1>3. QED
  BY <1>1, <1>2 DEF Next

\* The index of every session and the shared cache keep the inductive invariant.
THEOREM RecallSound == Spec => []RecallInv
BY RecallInvInit, RecallInvStep, PTL DEF Spec

\* However invalidations and builds interleave, a settled session has indexed
\* every artifact it invalidated its index for.
THEOREM InvalidationsAreKept == Spec => []NoLostInvalidation
<1>1. ASSUME RecallInv PROVE NoLostInvalidation
  <2> SUFFICES ASSUME NEW s \in Sessions, NEW d \in Docs,
                      Settled(s), hybrid[s].embedder = "up", s \notin failed
               PROVE  hybrid[s].index[d].hash >= told[s][d]
    BY DEF NoLostInvalidation, Indexed
  <2>1. build[s].pc = "none" /\ ~hybrid[s].dirty
    BY BuildTypes DEF Settled, NeedsWarming
  <2>2. QED
    BY <1>1, <2>1 DEF RecallInv, BuildIsNewEnough
<1>2. QED
  BY <1>1, RecallSound, PTL

\* The vector indexed for an artifact is that of the text it was indexed with,
\* however sessions overwrite each other's rows of the cache.
THEOREM IndexMatchesText == Spec => []VectorsMatchText
<1>1. RecallInv => VectorsMatchText
  BY DEF RecallInv, RowsAreOfTheirText, OfTheirText, VectorsMatchText
<1>2. QED
  BY <1>1, RecallSound, PTL

\* No index replaces a newer one.
THEOREM IndexIsMonotone == Spec => IndexNeverGoesBack
<1> DEFINE Forward == \A s \in Sessions, d \in Docs :
                          hybrid'[s].index[d].hash >= hybrid[s].index[d].hash
<1>1. RecallInv /\ [Next]_vars => [Forward]_hybrid
  <2> SUFFICES ASSUME RecallInv, Next, hybrid' # hybrid, NEW r \in Sessions, NEW d \in Docs
               PROVE  hybrid'[r].index[d].hash >= hybrid[r].index[d].hash
    BY DEF vars
  <2>1. hybrid[r].index[d].hash \in Nat
    BY HybridShape DEF RecallInv
  <2>2. PICK s \in Sessions : Write(s) \/ Search(s) \/ HandlerStep(s) \/ BuildStep(s)
    BY DEF Next
  <2>3. CASE Install(s)
    <3>1. hybrid[s] \in Hybrid /\ build[s].vectors \in Vectors
      BY <2>3, BuildShape DEF Install, RecallInv, TypeOK, HasRead
    <3>2. hybrid'[s] = Installed(hybrid[s], build[s].vectors)
      BY <2>3 DEF Install, RecallInv, TypeOK, Installed
    <3>3. hybrid'[s].index = build[s].vectors
      BY <3>1, <3>2, MarksOfInstall
    <3>4. r # s => hybrid'[r] = hybrid[r]
      BY <2>3 DEF Install, RecallInv, TypeOK
    <3>5. r = s => build[r].vectors[d].hash >= hybrid[r].index[d].hash
      BY <2>3 DEF Install, RecallInv, IndexIsBehind, HasRead
    <3>6. QED
      BY <2>1, <3>3, <3>4, <3>5
  <2>4. CASE ~Install(s)
    <3>1. hybrid'[r].index = hybrid[r].index
      <4>1. hybrid[r] \in Hybrid /\ hybrid \in [Sessions -> Hybrid]
        BY DEF RecallInv, TypeOK
      <4>2. CASE Write(s) \/ LoadCache(s) \/ LoadCorpus(s) \/ StoreMiss(s)
        BY <4>2 DEF Write, LoadCache, LoadCorpus, StoreMiss
      <4>3. CASE Search(s) \/ InvalidateWarm(s) \/ Rewarm(s)
        BY <4>1, <4>3 DEF Search, InvalidateWarm, Rewarm, EnsureWarming, Hybrid
      <4>4. CASE Invalidate(s)
        BY <4>1, <4>4 DEF Invalidate, Hybrid
      <4>5. CASE ResolveEmbedder(s)
        BY <4>1, <4>5 DEF ResolveEmbedder, Hybrid
      <4>6. CASE BuildFails(s)
        BY <4>1, <4>6 DEF BuildFails, Hybrid
      <4>7. QED
        BY <2>2, <2>4, <4>2, <4>3, <4>4, <4>5, <4>6 DEF HandlerStep, BuildStep
    <3>2. QED
      BY <2>1, <3>1
  <2>5. QED
    BY <2>3, <2>4
<1>2. QED
  BY <1>1, RecallSound, PTL DEF Spec, IndexNeverGoesBack
=============================================================================
