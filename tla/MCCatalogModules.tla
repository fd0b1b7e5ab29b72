-------------------------- MODULE MCCatalogModules --------------------------
EXTENDS CatalogModules

CONSTANTS x, y

Build(v, s, b) == [version |-> v, supersedes |-> s, bytes |-> b]

(* A chain of three releases, and the second one issued again under the     *)
(* same identity with other bytes.                                          *)
MCBuilds == {Build(1, None, x), Build(2, 1, x), Build(2, 1, y), Build(3, 2, x)}
===========================================================================
