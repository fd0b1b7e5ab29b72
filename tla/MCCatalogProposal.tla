-------------------------- MODULE MCCatalogProposal --------------------------
(* The first source publishes two contents, the second one; the catalog is  *)
(* another one when the first source changes.                               *)
EXTENDS CatalogProposal

MCContents == {"x", "y"}
MCPublished == [s \in Sources |-> IF s = "off" THEN MCContents ELSE {"x"}]
MCLogical == [pair \in MCContents \X MCContents |-> pair[1]]
MCKinds == {"scheduled-off", "fixture", "proposal"}
==============================================================================
