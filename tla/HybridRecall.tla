---- MODULE HybridRecall ----
(***************************************************************************)
(* The semantic index beside keyword recall (internal/recall/hybrid.go and  *)
(* vectorcache.go; internal/project/crossrecall.go has the same control).   *)
(* In every session one handler thread writes artifacts, invalidates and    *)
(* searches, and one goroutine at a time rebuilds the index behind it; the  *)
(* sessions share the artifacts and the cache of vectors.  The vector of a  *)
(* text is the text's revision, and so is its content hash.                 *)
(***************************************************************************)
EXTENDS Integers, FiniteSets

CONSTANTS
    Sessions,    \* the haft processes on one project
    Docs,        \* the decisions and notes of the corpus
    MaxEdits,    \* bound: artifacts written
    MaxFaults    \* bound: cache, store or embedder calls that fail

ASSUME BoundsAssumption == MaxEdits \in Nat /\ MaxFaults \in Nat

VARIABLES
    text,      \* Docs -> revision of the artifact, 0 before it is created
    cache,     \* Docs -> [hash, vec], the artifact_embeddings rows; 0 for no row
    hybrid,    \* per session: embedder, built, building, dirty, index
    build,     \* per session: what the background build holds
    handler,   \* per session: what the handler thread does
    edits, faults,
    \* History, read by the properties only.
    told,      \* per session: Docs -> the revision it last invalidated the index for
    failed     \* sessions whose last build failed

vars == <<text, cache, hybrid, build, handler, edits, faults, told, failed>>

NoBuild == [pc |-> "none"]

NoVectors == [d \in Docs |-> [hash |-> 0, vec |-> 0]]

Vectors == [Docs -> [hash: Nat, vec: Nat]]

Hybrid == [embedder: {"unresolved", "up", "unavailable"}, built: BOOLEAN, building: BOOLEAN,
           dirty: BOOLEAN, index: Vectors]

Build ==
    {NoBuild} \cup [pc: {"resolve", "load", "rewarm"}]
    \cup [pc: {"corpus"}, cached: Vectors]
    \cup [pc: {"store", "install"}, vectors: Vectors, misses: SUBSET Docs]

\* The shape of the state.
TypeOK ==
    /\ text \in [Docs -> Nat]
    /\ cache \in Vectors
    /\ hybrid \in [Sessions -> Hybrid]
    /\ build \in [Sessions -> Build]
    /\ handler \in [Sessions -> {"idle", "stale"} \cup Docs]
    /\ edits \in Nat /\ faults \in Nat
    /\ told \in [Sessions -> [Docs -> Nat]]
    /\ failed \subseteq Sessions

\* The guard of ensureWarming.
NeedsWarming(h) == h.embedder # "unavailable" /\ ~h.building /\ (~h.built \/ h.dirty)

\* ensureWarming: the corpus is clean from here on, before it is read.
EnsureWarming(s, otherwise) ==
    IF NeedsWarming(hybrid[s])
    THEN /\ hybrid' = [hybrid EXCEPT ![s].building = TRUE, ![s].dirty = FALSE]
         /\ build' = [build EXCEPT ![s] = [pc |-> "resolve"]]
    ELSE UNCHANGED hybrid /\ build' = [build EXCEPT ![s] = otherwise]

----------------------------------------------------------------------------
(* The handler thread.                                                     *)

\* A tool call writes an artifact.  It invalidates the index afterwards, unless it
\* is answered with an error, which a warning on a stored artifact is as well.
Write(s) ==
    \E d \in Docs :
        /\ handler[s] = "idle"
        /\ edits < MaxEdits
        /\ edits' = edits + 1
        /\ text' = [text EXCEPT ![d] = @ + 1]
        /\ \E next \in {d, "idle"} : handler' = [handler EXCEPT ![s] = next]
        /\ UNCHANGED <<cache, hybrid, build, faults, told, failed>>

\* invalidateRecall and the locked part of Invalidate
Invalidate(s) ==
    \E d \in Docs :
        /\ handler[s] = d
        /\ hybrid' = [hybrid EXCEPT ![s].dirty = TRUE]
        /\ told' = [told EXCEPT ![s][d] = text[d]]
        /\ handler' = [handler EXCEPT ![s] = "stale"]
        /\ UNCHANGED <<text, cache, build, edits, faults, failed>>

\* The rest of Invalidate.
InvalidateWarm(s) ==
    /\ handler[s] = "stale"
    /\ EnsureWarming(s, build[s])
    /\ handler' = [handler EXCEPT ![s] = "idle"]
    /\ UNCHANGED <<text, cache, edits, faults, told, failed>>

\* Search: warm the index.  What follows only reads: keywords alone while the index
\* is empty or when the query cannot be embedded, both rankings fused otherwise.
Search(s) ==
    /\ handler[s] = "idle"
    /\ EnsureWarming(s, build[s])
    /\ UNCHANGED <<text, cache, handler, edits, faults, told, failed>>

----------------------------------------------------------------------------
(* warmAsync and buildIndex.                                               *)

Holds(s, next) == build' = [build EXCEPT ![s] = next]

\* resolveEmbedder: a factory that fails is not asked again, and the build ends
\* without an index.
ResolveEmbedder(s) ==
    /\ build[s].pc = "resolve"
    /\ \/ /\ hybrid[s].embedder # "unavailable"
          /\ hybrid' = [hybrid EXCEPT ![s].embedder = "up"]
          /\ Holds(s, [pc |-> "load"])
       \/ /\ hybrid[s].embedder = "unresolved"
          /\ hybrid' = [hybrid EXCEPT ![s].embedder = "unavailable", ![s].building = FALSE,
                                      ![s].built = TRUE]
          /\ Holds(s, IF hybrid[s].dirty THEN [pc |-> "rewarm"] ELSE NoBuild)
    /\ UNCHANGED <<text, cache, handler, edits, faults, told, failed>>

\* vectorCache.load
LoadCache(s) ==
    /\ build[s].pc = "load"
    /\ Holds(s, [pc |-> "corpus", cached |-> cache])
    /\ UNCHANGED <<text, cache, hybrid, handler, edits, faults, told, failed>>

\* Mutant: a cached vector is good whatever text it was made of.
CacheHitById(cached, d) == cached[d].vec # 0

\* A cached vector is used for the text it was made of.
CacheHit(cached, d) == cached[d].vec # 0 /\ cached[d].hash = text[d]

\* The vectors of the build: hits from the cache, misses from the embedder, which
\* embedMisses asks for all of them at once.
EmbedMisses(cached, hits) ==
    [d \in Docs |-> [hash |-> text[d], vec |-> IF d \in hits THEN cached[d].vec ELSE text[d]]]

\* loadCorpus, and the split of the corpus into hits and misses.
LoadCorpus(s) ==
    LET b      == build[s]
        corpus == {d \in Docs : text[d] # 0}
        hits   == {d \in corpus : CacheHit(b.cached, d)}
    IN  /\ b.pc = "corpus"
        /\ Holds(s, [pc      |-> IF hits = corpus THEN "install" ELSE "store",
                     vectors |-> EmbedMisses(b.cached, hits),
                     misses  |-> corpus \ hits])
        /\ UNCHANGED <<text, cache, hybrid, handler, edits, faults, told, failed>>

\* vectorCache.store, row by row.
StoreMiss(s) ==
    LET b == build[s] IN
        /\ b.pc = "store"
        /\ \E d \in b.misses :
              /\ cache' = [cache EXCEPT ![d] = b.vectors[d]]
              /\ Holds(s, [b EXCEPT !.misses = @ \ {d},
                                    !.pc = IF b.misses = {d} THEN "install" ELSE "store"])
        /\ UNCHANGED <<text, hybrid, handler, edits, faults, told, failed>>

\* Mutant: the corpus is marked clean when the index is installed.
InstallClean(s) ==
    /\ build[s].pc = "install"
    /\ hybrid' = [hybrid EXCEPT ![s].index = build[s].vectors, ![s].building = FALSE, ![s].built = TRUE,
                                ![s].dirty = FALSE]
    /\ Holds(s, NoBuild)
    /\ failed' = failed \ {s}
    /\ UNCHANGED <<text, cache, handler, edits, faults, told>>

\* Mutant: an invalidation since the build began is left to the next search.
InstallOnly(s) ==
    /\ build[s].pc = "install"
    /\ hybrid' = [hybrid EXCEPT ![s].index = build[s].vectors, ![s].building = FALSE, ![s].built = TRUE]
    /\ Holds(s, NoBuild)
    /\ failed' = failed \ {s}
    /\ UNCHANGED <<text, cache, handler, edits, faults, told>>

\* The end of warmAsync: an invalidation since the build began starts another.
Install(s) ==
    /\ build[s].pc = "install"
    /\ hybrid' = [hybrid EXCEPT ![s].index = build[s].vectors, ![s].building = FALSE, ![s].built = TRUE]
    /\ Holds(s, IF hybrid[s].dirty THEN [pc |-> "rewarm"] ELSE NoBuild)
    /\ failed' = failed \ {s}
    /\ UNCHANGED <<text, cache, handler, edits, faults, told>>

Rewarm(s) ==
    /\ build[s].pc = "rewarm"
    /\ EnsureWarming(s, NoBuild)
    /\ UNCHANGED <<text, cache, handler, edits, faults, told, failed>>

\* Mutant: the old index is dropped.
BuildFailsEmpty(s) ==
    /\ build[s].pc \in {"load", "corpus", "store"}
    /\ faults < MaxFaults
    /\ faults' = faults + 1
    /\ hybrid' = [hybrid EXCEPT ![s].building = FALSE, ![s].index = NoVectors]
    /\ Holds(s, NoBuild)
    /\ failed' = failed \cup {s}
    /\ UNCHANGED <<text, cache, handler, edits, told>>

\* A call of the build fails: the old index stays and the build is not repeated.
BuildFails(s) ==
    /\ build[s].pc \in {"load", "corpus", "store"}
    /\ faults < MaxFaults
    /\ faults' = faults + 1
    /\ hybrid' = [hybrid EXCEPT ![s].building = FALSE]
    /\ Holds(s, NoBuild)
    /\ failed' = failed \cup {s}
    /\ UNCHANGED <<text, cache, handler, edits, told>>

----------------------------------------------------------------------------

Init ==
    /\ text = [d \in Docs |-> 0]
    /\ cache = NoVectors
    /\ hybrid = [s \in Sessions |-> [embedder |-> "unresolved", built |-> FALSE, building |-> FALSE,
                                     dirty |-> FALSE, index |-> NoVectors]]
    /\ build = [s \in Sessions |-> NoBuild]
    /\ handler = [s \in Sessions |-> "idle"]
    /\ edits = 0 /\ faults = 0
    /\ told = [s \in Sessions |-> [d \in Docs |-> 0]]
    /\ failed = {}

HandlerStep(s) == Invalidate(s) \/ InvalidateWarm(s)

BuildStep(s) ==
    \/ ResolveEmbedder(s) \/ LoadCache(s) \/ LoadCorpus(s) \/ StoreMiss(s)
    \/ Install(s) \/ Rewarm(s) \/ BuildFails(s)

Next == \E s \in Sessions : Write(s) \/ Search(s) \/ HandlerStep(s) \/ BuildStep(s)

\* A call that has begun goes on; nobody has to write or search.
Fairness == \A s \in Sessions : WF_vars(HandlerStep(s)) /\ WF_vars(BuildStep(s))

Spec == Init /\ [][Next]_vars /\ Fairness

----------------------------------------------------------------------------
(* Properties.                                                             *)

\* A search would start no build and none is running.
Settled(s) == ~NeedsWarming(hybrid[s]) /\ ~hybrid[s].building /\ build[s] = NoBuild

Indexed(s, d) == hybrid[s].index[d].hash >= told[s][d]

\* However invalidations and builds interleave, a session whose index is settled
\* has indexed every artifact it invalidated it for, unless its last build failed
\* or there is no embedder: the dirty mark is cleared before the corpus is read.
NoLostInvalidation ==
    \A s \in Sessions :
        (Settled(s) /\ hybrid[s].embedder = "up" /\ s \notin failed)
            => \A d \in Docs : Indexed(s, d)

\* The vector indexed for an artifact is that of the text it was indexed with,
\* though sessions write the shared cache row by row behind each other's back.
VectorsMatchText ==
    \A s \in Sessions, d \in Docs : hybrid[s].index[d].vec = hybrid[s].index[d].hash

\* Builds are one at a time in a session, so no index replaces a newer one.
IndexNeverGoesBack ==
    [][\A s \in Sessions, d \in Docs : hybrid'[s].index[d].hash >= hybrid[s].index[d].hash]_hybrid

\* An invalidation is followed by an index with the artifact in it, without anybody
\* searching, unless a build fails or there is no embedder.
InvalidatedGetsIndexed ==
    \A s \in Sessions, d \in Docs : \A n \in 1 .. MaxEdits :
        (told[s][d] = n) ~> \/ hybrid[s].index[d].hash >= n
                            \/ s \in failed
                            \/ hybrid[s].embedder = "unavailable"

====
