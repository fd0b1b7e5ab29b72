-------------------------- MODULE MCEvidenceIntake ---------------------------
(* Four images, the second of which is what the first gives when it is      *)
(* encoded again, in corrections that need two of them.                     *)
EXTENDS EvidenceIntake

CONSTANTS i1, i2, i3, i4

MCReencoded == [i \in Images |-> IF i = i1 THEN i2 ELSE i]

Photo(purpose, image) == [purpose |-> purpose, image |-> image, fits |-> TRUE]

Correction(submission, barcode, front) ==
    [submission |-> submission, gtin |-> submission, issue |-> "identity-correction",
     clean |-> TRUE, attachments |-> {Photo("barcode", barcode), Photo("front", front)},
     screened |-> TRUE, public |-> TRUE]

(* Two versions of one submission, one of another that repeats an image in  *)
(* its re-encoded form, and packages that are not to be admitted.           *)
MCPackages ==
    {Correction(1, i1, i3), [Correction(1, i3, i1) EXCEPT !.public = FALSE],
     Correction(2, i2, i4), Correction(2, i1, i2)}

(* One of the shape of catalog-refresh-policy-v1.json: a targeted queue for *)
(* Open Food Facts, at a host the source policy does not admit.             *)
MCRefreshPolicy ==
    [s \in {"off", "op"} |->
        [modes |-> {"full"}, cadence |-> 1,
         target |->
             IF s = "off"
             THEN [enabled |-> TRUE, cadence |-> 24, endpoint |-> "search",
                   fields |-> {"code"}, max |-> 2, batch |-> 1, rate |-> 10,
                   interval |-> 7]
             ELSE [enabled |-> FALSE, cadence |-> 0, endpoint |-> "",
                   fields |-> {}, max |-> 0, batch |-> 0, rate |-> 0,
                   interval |-> 0]]]
==============================================================================
