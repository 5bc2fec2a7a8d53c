--------------------------- MODULE TemplateCache ---------------------------
(***************************************************************************)
(* The template engine's two stores (pipeline/template.rs): an LRU list of *)
(* the sources it has compiled and the environment that holds the compiled *)
(* templates, updated together under one lock.                             *)
(***************************************************************************)
EXTENDS Naturals, Sequences, SequencesExt

CONSTANTS Capacity,   \* sources the LRU list holds
          Oversize,   \* sources longer than the engine accepts
          Malformed   \* sources that do not parse

ASSUME CapacityAssumption == Capacity \in Nat \ {0}

\* A store: lru lists the cached sources, the most recently used first;
\* compiled is the set of templates in the environment.
EmptyStore == [lru |-> <<>>, compiled |-> {}]

\* LruCache::get: a source that is cached moves to the front.
Refreshed(lru, s) == <<s>> \o RemoveAt(lru, CHOOSE i \in DOMAIN lru : lru[i] = s)

\* Mutant: LruCache::put, which tells of a replaced key but not of an eviction.
WithPut(store, s) ==
  LET lru == <<s>> \o store.lru IN
    [lru |-> IF Len(lru) <= Capacity THEN lru ELSE Front(lru), compiled |-> store.compiled \cup {s}]

\* LruCache::push: at capacity the least recently used source leaves both.
With(store, s) ==
  LET lru == <<s>> \o store.lru IN
    IF Len(lru) <= Capacity
    THEN [lru |-> lru, compiled |-> store.compiled \cup {s}]
    ELSE [lru |-> Front(lru), compiled |-> (store.compiled \cup {s}) \ {Last(lru)}]

\* TemplateEngine::render up to the rendering itself: nothing changes for a
\* source that is too long or does not parse.
Looked(store, s) ==
  IF s \in Oversize THEN store
  ELSE IF Contains(store.lru, s) THEN [store EXCEPT !.lru = Refreshed(@, s)]
  ELSE IF s \in Malformed THEN store
  ELSE With(store, s)

Compiles(s) == s \notin Oversize \cup Malformed
=============================================================================
