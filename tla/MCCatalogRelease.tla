-------------------------- MODULE MCCatalogRelease --------------------------
EXTENDS CatalogRelease

(* The numbers check themselves: 17, 24 and 31 are GTINs, 18 is not.     *)
MCProducts == {17, 24, 31}
MCOffers == {[id |-> 1, source |-> "off", product |-> 17],
             [id |-> 4, source |-> "off", product |-> 24],
             [id |-> 5, source |-> "off", product |-> 24],
             [id |-> 2, source |-> "op", product |-> 17],
             [id |-> 3, source |-> "op", product |-> 24]}
MCBucketOf == [p \in MCProducts |-> p % 2]

MCSelectionPolicy ==
    [types |-> {"food"}, kinds |-> {"retail-gtin"}, market |-> "DE",
     category |-> {"snack"}, formulation |-> {"multi-ingredient", "additive"},
     evidence |-> {"review"},
     rules |-> <<[code |-> "basic-fresh-produce", signals |-> {"fresh-fruit"},
                  max |-> 1, unknown |-> TRUE],
                 [code |-> "basic-plain-water", signals |-> {"plain-water"},
                  max |-> 1, unknown |-> FALSE]>>]

(* A record of a product nothing is known of; two lengths spell it.         *)
Record(id, length, value, shops) ==
    [id |-> id, code |-> [length |-> length, value |-> value], marked |-> FALSE,
     type |-> "food", market |-> "DE", categories |-> {}, halal |-> FALSE,
     additive |-> FALSE, words |-> {}, count |-> None, text |-> FALSE,
     shops |-> shops]

Biscuit == [Record(1, 8, 17, {1}) EXCEPT !.categories = {"snack"}, !.count = 3]
Fruit(id, length, value) ==
    [Record(id, length, value, {}) EXCEPT !.categories = {"fresh-fruit"}]
Candied == [Fruit(2, 12, 31) EXCEPT !.additive = TRUE]
Water == [Record(4, 8, 24, {}) EXCEPT !.categories = {"plain-water"}, !.count = 1]

Refused == {[Record(6, 8, 24, {}) EXCEPT !.market = "FR"], Record(7, 8, 18, {}),
            [Record(8, 8, 24, {}) EXCEPT !.marked = TRUE]}

(* Two products, a basic one and records that are of no use; two records of *)
(* one product; a product that one spelling makes basic; a basic product    *)
(* under two spellings; a record without a code.                            *)
MCInputs ==
    {[records |-> records, observed |-> {o \in MCOffers : o.source = "op"}] :
        records \in {{Biscuit, Water, Candied} \cup Refused,
                     {Biscuit, Record(2, 8, 24, {4}), Record(3, 12, 24, {5})},
                     {Biscuit, Fruit(5, 12, 17)},
                     {Biscuit, Water, Fruit(5, 13, 24)},
                     {Biscuit, Record(9, 0, 0, {})}}}

Row(p, offer) == [gtin |-> p, identity |-> "off", ingredients |-> None,
                  offer |-> offer]
RowOf == Row(17, [id |-> 1, source |-> "off", product |-> 17])

(* A source set, and one whose row lies in the wrong shard.                 *)
Bundle(bucket) ==
    [version |-> 1, primary |-> "off", sources |-> [s \in {"off"} |-> 0],
     at |-> 0, rights |-> 0, quality |-> 0,
     shards |-> [b \in {0, 1} |-> IF b = bucket THEN <<RowOf>> ELSE <<>>],
     rows |-> {RowOf}]
MCBundles == {Bundle(1), Bundle(0)}
=============================================================================
