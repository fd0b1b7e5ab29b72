--------------------------- MODULE MCRefreshHealth ---------------------------
(* Two refresh runs over three days, or one and two of Open Prices, which   *)
(* push it out of lists of two.  The evidence asks for a review from the    *)
(* first day on, and on the second its certificate ends, which makes more   *)
(* to do than the queue of one entry holds.                                 *)
EXTENDS RefreshHealth

Text(gtin, observed) ==
    [gtin |-> gtin, text |-> TRUE, observed |-> observed, conflict |-> FALSE,
     verdict |-> "settled", recheck |-> NoDate, certificates |-> {}]

Certificates == {[id |-> 1, ends |-> 2, withdrawn |-> NoDate, checked |-> 1]}

Aging ==
    [products |-> {[Text(1, 1) EXCEPT !.certificates = Certificates]},
     changed |-> {2}, blockers |-> {}]

MCEvidences == {Aging}

(* One of the shape of catalog-refresh-policy-v1.json: a targeted queue for *)
(* Open Food Facts, at a host the source policy does not admit.             *)
MCRefreshPolicy ==
    [s \in {"off", "op"} |->
        [modes |-> {"full"}, cadence |-> 1,
         target |->
             IF s = "off"
             THEN [enabled |-> TRUE, cadence |-> 24, endpoint |-> "search",
                   fields |-> {"code"}, max |-> 2, batch |-> 1, rate |-> 10,
                   interval |-> 7]
             ELSE [enabled |-> FALSE, cadence |-> 0, endpoint |-> "",
                   fields |-> {}, max |-> 0, batch |-> 0, rate |-> 0,
                   interval |-> 0]]]
==============================================================================
