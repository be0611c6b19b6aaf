----------------------------- MODULE MCCatalog -----------------------------
(* Two resources, two containment domains and one domain of another kind.  *)
EXTENDS Catalog

CONSTANTS c1, c2, i1

MCDomainsOf == [containment |-> {c1, c2}, isolation |-> {i1}, failure |-> {}]
MCEdges == {<<1, 2>>}
Interchangeable == Permutations({c1, c2})
============================================================================
