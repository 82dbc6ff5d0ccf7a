------------------------------- MODULE Catalog -------------------------------
(***************************************************************************)
(* The catalog (model/entities.cpp): seven tables of named definitions,    *)
(* each with a revision, that refer to one another.  The catalog is a      *)
(* value, a function from the kinds to tables from names to definitions.   *)
(* An identity is derived from the name, so a name stands for both, and    *)
(* the name indexes repeat the keys of their tables.                       *)
(*                                                                         *)
(* Every definition has kind, name and rev; its references are             *)
(*   link: from, to   queue: link   hop: link, queue                       *)
(*   generation: supersedes         path: generation, hops                 *)
(* and content stands for the fields no check reads; a source and a queue  *)
(* also have their semantics.                                              *)
(***************************************************************************)
EXTENDS Integers, FiniteSets, Sequences, Functions

CONSTANTS
  NoRef,         \* an invalid identity: a reference left open
  TableLimit,    \* kind -> Limits::max_sources, max_endpoints, ...; hops: max_hops_per_path * 64
  MaxHopsPerPath \* Limits::max_hops_per_path

Kinds == {"source", "endpoint", "link", "queue", "hop", "generation", "path"}

ASSUME CatalogAssumption ==
  /\ TableLimit \in [Kinds -> Nat \ {0}]
  /\ MaxHopsPerPath \in Nat \ {0}

NoDefinition == [name \in {} |-> NoRef]
EmptyCatalog == [k \in Kinds |-> NoDefinition]

\* source(), endpoint(), link(), queue(), hop(), generation(), path() and the *_by_name
\* lookups: found or not.
Known(catalog, kind, name) == name \in DOMAIN catalog[kind]

Refused(catalog) == [ok |-> FALSE, catalog |-> catalog]

\* A table with a definition under its name.
Entered(table, def) == [n \in DOMAIN table \cup {def.name} |-> IF n = def.name THEN def ELSE table[n]]

\* upsert(): a new name within the limit of its table, identical content, or new content
\* at a greater revision.
Upsert(catalog, def) ==
  LET table == catalog[def.kind]
      stored == [catalog EXCEPT ![def.kind] = Entered(@, def)]
      accepts == IF def.name \in DOMAIN table
                 THEN def = table[def.name] \/ def.rev > table[def.name].rev
                 ELSE Cardinality(DOMAIN table) < TableLimit[def.kind]
  IN  IF accepts THEN [ok |-> TRUE, catalog |-> stored] ELSE Refused(catalog)

\* An optional reference is open or known.
Resolves(catalog, kind, name) == name # NoRef => Known(catalog, kind, name)

DefineSource(catalog, def) == IF def.rev >= 1 THEN Upsert(catalog, def) ELSE Refused(catalog)

DefineEndpoint(catalog, def) == IF def.rev >= 1 THEN Upsert(catalog, def) ELSE Refused(catalog)

DefineLink(catalog, def) ==
  IF /\ def.rev >= 1
     /\ Resolves(catalog, "endpoint", def.from) /\ Resolves(catalog, "endpoint", def.to)
  THEN Upsert(catalog, def) ELSE Refused(catalog)

DefineQueue(catalog, def) ==
  IF def.rev >= 1 /\ Resolves(catalog, "link", def.link)
  THEN Upsert(catalog, def) ELSE Refused(catalog)

DefineHop(catalog, def) ==
  IF /\ def.rev >= 1
     /\ Resolves(catalog, "link", def.link) /\ Resolves(catalog, "queue", def.queue)
  THEN Upsert(catalog, def) ELSE Refused(catalog)

DefineGeneration(catalog, def) ==
  IF /\ def.rev >= 1
     /\ Resolves(catalog, "generation", def.supersedes)
     /\ def.supersedes # def.name
  THEN Upsert(catalog, def) ELSE Refused(catalog)

DefinePath(catalog, def) ==
  IF /\ def.rev >= 1
     /\ Known(catalog, "generation", def.generation)
     /\ Len(def.hops) \in 1..MaxHopsPerPath
     /\ \A h \in Range(def.hops) : Known(catalog, "hop", h)
  THEN Upsert(catalog, def) ELSE Refused(catalog)

\* The definition of any kind.
Define(catalog, def) ==
  CASE def.kind = "source" -> DefineSource(catalog, def)
    [] def.kind = "endpoint" -> DefineEndpoint(catalog, def)
    [] def.kind = "link" -> DefineLink(catalog, def)
    [] def.kind = "queue" -> DefineQueue(catalog, def)
    [] def.kind = "hop" -> DefineHop(catalog, def)
    [] def.kind = "generation" -> DefineGeneration(catalog, def)
    [] def.kind = "path" -> DefinePath(catalog, def)

IsSuperseded(catalog, g) ==
  \E n \in DOMAIN catalog["generation"] : catalog["generation"][n].supersedes = g

Tips(catalog) == {g \in DOMAIN catalog["generation"] : ~IsSuperseded(catalog, g)}

\* current_generation(): the single tip of the lineage.
CurrentGeneration(catalog) ==
  IF Cardinality(Tips(catalog)) = 1 THEN CHOOSE g \in Tips(catalog) : TRUE ELSE NoRef
=============================================================================
