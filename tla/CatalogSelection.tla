--------------------------- MODULE CatalogSelection --------------------------
(***************************************************************************)
(* Which source records become products of the catalog: the projection of   *)
(* an Open Food Facts record to a candidate (open_food_facts_common), the   *)
(* decision about it (catalog_selection_contract, catalog_selection_engine),*)
(* the index of basic exclusions (basic_exclusions) and what of it the      *)
(* evidence names (open_food_facts_normalize).                              *)
(*                                                                          *)
(* A record is [id, code, marked, type, market, categories, halal, additive,*)
(* words, count, text, shops]: marked says its code is one the source made  *)
(* up, halal that a label speaks of it, words are the formulation signals of*)
(* its text, shops names the retailer records its store tags make.  Its     *)
(* code is [length, value].                                                 *)
(***************************************************************************)
EXTENDS Integers, Sequences, FiniteSets

CONSTANTS None, SelectionPolicy

(* validate_policy()                                                        *)
ValidPolicy(policy) ==
    /\ policy.types # {} /\ policy.kinds # {} /\ policy.rules # <<>>
    /\ \A i, j \in DOMAIN policy.rules :
           policy.rules[i].code = policy.rules[j].code => i = j
    /\ \A i \in DOMAIN policy.rules :
           /\ policy.rules[i].signals # {}
           /\ policy.rules[i].max \in Nat
           /\ policy.rules[i].unknown \in BOOLEAN

ASSUME SelectionAssumption == ValidPolicy(SelectionPolicy)

(* The policy file names the signals of a halal label and of an additive.   *)
ASSUME SignalsAssumption ==
    /\ "review" \in SelectionPolicy.evidence
    /\ "additive" \in SelectionPolicy.formulation

-----------------------------------------------------------------------------
(* normalize_gtin(): a code of 8, 12, 13 or 14 digits whose last one checks *)
(* the others, padded to 14; two spellings of one number are one product.   *)

Weighted[digits \in Nat, weight \in {1, 3}] ==
    IF digits = 0 THEN 0
    ELSE weight * (digits % 10) + Weighted[digits \div 10, 4 - weight]

ValidCheckDigit(value) ==
    (10 - (Weighted[value \div 10, 3] % 10)) % 10 = value % 10

Gtin(code) ==
    IF code.length \in {8, 12, 13, 14} /\ ValidCheckDigit(code.value)
    THEN code.value
    ELSE None

(* record_to_candidate()                                                    *)
Candidate(record) ==
    [id |-> record.id, code |-> record.code, type |-> record.type,
     market |-> record.market, text |-> record.text, count |-> record.count,
     kind |-> IF record.marked THEN "source-assigned-no-barcode"
              ELSE "retail-gtin",
     category |-> record.categories,
     formulation |->
         record.words
         \cup (IF record.count # None /\ record.count > 1
               THEN {"multi-ingredient"} ELSE {})
         \cup (IF record.additive THEN {"additive"} ELSE {}),
     evidence |-> IF record.halal THEN {"review"} ELSE {},
     shops |-> record.shops]

(* validate_bundle(): one candidate without a code, or two with one id,     *)
(* refuse all of them.                                                      *)
ValidCandidates(candidates) ==
    /\ \A c \in candidates : c.code.length > 0
    /\ \A c, d \in candidates : c.id = d.id => c = d

-----------------------------------------------------------------------------
(* classify_candidate()                                                     *)

Meet(signals, others) == signals \cap others # {}

Unusable(c) ==
    \/ c.type \notin SelectionPolicy.types
    \/ c.market # SelectionPolicy.market
    \/ c.kind = "source-assigned-no-barcode"
    \/ c.kind \notin SelectionPolicy.kinds
    \/ Gtin(c.code) = None

(* Something about the product is for a reader to see.                      *)
Signalled(c) ==
    \/ Meet(c.evidence, SelectionPolicy.evidence)
    \/ Meet(c.formulation, SelectionPolicy.formulation)
    \/ Meet(c.category, SelectionPolicy.category)
    \/ c.count # None /\ c.count > 1
    \/ c.text /\ c.count = None

IsBasic(c) ==
    \E i \in DOMAIN SelectionPolicy.rules :
        LET rule == SelectionPolicy.rules[i]
        IN  /\ Meet(c.category, rule.signals)
            /\ IF c.count = None THEN rule.unknown ELSE c.count <= rule.max

(* Mutant: the rules for basic products come before the signals.            *)
DecisionBasicFirst(c) ==
    CASE Unusable(c)               -> "exclude-invalid"
      [] ~Unusable(c) /\ IsBasic(c) -> "exclude-basic"
      [] OTHER                     -> "include-detailed"

(* A candidate no rule calls basic is included, for lack of knowledge.      *)
Decision(c) ==
    CASE Unusable(c)               -> "exclude-invalid"
      [] ~Unusable(c) /\ Signalled(c) -> "include-detailed"
      [] ~Unusable(c) /\ ~Signalled(c) /\ IsBasic(c) -> "exclude-basic"
      [] OTHER                     -> "include-detailed"

(* evaluate_bundle()                                                        *)
Decided(candidates, decision) == {c \in candidates : Decision(c) = decision}

Selected(candidates) ==
    {Gtin(c.code) : c \in Decided(candidates, "include-detailed")}

(* project_selection_report(): an index of the basic products, refused when *)
(* two records have the same.                                               *)
Exclusions(candidates) ==
    {Gtin(c.code) : c \in Decided(candidates, "exclude-basic")}

Projects(candidates) ==
    \A c, d \in Decided(candidates, "exclude-basic") :
        Gtin(c.code) = Gtin(d.code) => c = d

-----------------------------------------------------------------------------
(* normalize_snapshot() of a full snapshot.  The selections are written in  *)
(* the order of the source's ids, so that the last record of a product is   *)
(* the one its selection names; the records of the others stay.             *)

(* _retailer_records()                                                      *)
RetailerRecords(c) ==
    {[id |-> shop, source |-> "off", product |-> Gtin(c.code)] : shop \in c.shops}

Named(candidates, product) ==
    LET included == {c \in Decided(candidates, "include-detailed") :
                        Gtin(c.code) = product}
    IN  CHOOSE c \in included : \A d \in included : d.id <= c.id

NormalizedSnapshot(candidates, snapshot) ==
    [sources |-> [s \in {"off"} |-> snapshot],
     selected |-> Selected(candidates),
     offers |-> UNION {RetailerRecords(c) :
                         c \in Decided(candidates, "include-detailed")},
     attached |-> [p \in Selected(candidates) |-> Named(candidates, p).shops]]
==============================================================================
