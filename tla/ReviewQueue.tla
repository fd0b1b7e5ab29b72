----------------------------- MODULE ReviewQueue -----------------------------
(***************************************************************************)
(* The review queue of one source: the pure functions _queue_entries() of   *)
(* Tools/catalog_refresh.py and merge_queue() of                            *)
(* Tools/catalog_refresh_submission_targets.py, in one market.              *)
(*                                                                          *)
(* The evidence is reduced to what the queue reads: of every product the    *)
(* date of its current text, its conflicts, its verdict and its             *)
(* certificates; of the change report the products under review; of the     *)
(* quality report its blockers.  Calendar months are counted in ticks.  A   *)
(* product is a number, in the order of its GTIN, and so is a certificate.  *)
(***************************************************************************)
EXTENDS Naturals, Sequences, FiniteSets

CONSTANTS
    RefreshAge,     \* age of a text that should be fetched again
    StaleAge,       \* age of a text that is stale
    AssessmentDue,  \* how long before its recheck a verdict is queued
    CertificateDue, \* how long before its end a certificate is queued
    MaxEntries      \* queue.maxEntries of the refresh policy

ASSUME QueueAssumption ==
    /\ {RefreshAge, StaleAge, AssessmentDue, CertificateDue} \subseteq Nat
    /\ MaxEntries \in Nat \ {0}

NoDate == 0

(* A certificate: its last day, the day it was revoked or suspended, and    *)
(* the day it was checked last.                                             *)
Certificate == [id : Nat, ends : Nat, withdrawn : Nat, checked : Nat]

Product ==
    [gtin : Nat \ {0}, text : BOOLEAN, observed : Nat, conflict : BOOLEAN,
     verdict : {"none", "settled", "open"}, recheck : Nat,
     certificates : SUBSET Certificate]

EvidenceEnvelope ==
    [products : SUBSET Product, changed : SUBSET (Nat \ {0}), blockers : SUBSET Nat]

(* The reasons, in the order of their names.                                *)
ReasonOrder ==
    <<"admitted-submission", "ambiguous-review", "assessment-recheck",
      "certification-expiry", "certification-invalidated",
      "certification-recheck", "changed-unreviewed",
      "date-unknown-ingredients", "identity-or-formulation-conflict",
      "missing-current-ingredients", "refresh-recommended-ingredients",
      "source-or-quality-blocker", "stale-ingredients">>

MediumReasons ==
    {"refresh-recommended-ingredients", "ambiguous-review",
     "certification-recheck"}

Priority(reason) == IF reason \in MediumReasons THEN 1 ELSE 0

(* The place of a reason among all: by priority, then by name.              *)
Place ==
    [reason \in {ReasonOrder[n] : n \in DOMAIN ReasonOrder} |->
        Len(ReasonOrder) * Priority(reason)
          + CHOOSE n \in DOMAIN ReasonOrder : ReasonOrder[n] = reason]

(* An entry is its key: reason, product (0 for none) and what it is about.  *)
Entry(reason, gtin, about) == [reason |-> reason, gtin |-> gtin, about |-> about]

-----------------------------------------------------------------------------
(* The text of a product is missing, undated, stale or getting old.         *)
TextReasons(p, now) ==
    LET age(limit) == p.text /\ p.observed # NoDate /\ now >= p.observed + limit
    IN  {r \in {"missing-current-ingredients"} : ~p.text}
        \cup {r \in {"date-unknown-ingredients"} : p.text /\ p.observed = NoDate}
        \cup {r \in {"stale-ingredients"} : age(StaleAge)}
        \cup {r \in {"refresh-recommended-ingredients"} :
                age(RefreshAge) /\ ~age(StaleAge)}

(* Its conflicts and its verdict.                                           *)
VerdictReasons(p, now) ==
    {r \in {"identity-or-formulation-conflict"} : p.conflict}
    \cup {r \in {"assessment-recheck"} :
            /\ p.verdict # "none" /\ p.recheck # NoDate
            /\ p.recheck <= now + AssessmentDue}
    \cup {r \in {"ambiguous-review"} : p.verdict = "open"}

(* A certificate that is over, and one that is about to be.                 *)
Invalidated(c, now) ==
    \/ c.withdrawn # NoDate /\ c.withdrawn <= now
    \/ c.ends # NoDate /\ c.ends < now

CertificateReasons(c, now) ==
    {r \in {"certification-invalidated"} : Invalidated(c, now)}
    \cup {r \in {"certification-expiry"} :
            /\ ~Invalidated(c, now)
            /\ c.ends # NoDate /\ c.ends <= now + CertificateDue}
    \cup {r \in {"certification-recheck"} :
            c.checked # NoDate /\ c.checked + CertificateDue <= now}

ProductEntries(p, now) ==
    {Entry(r, p.gtin, 0) : r \in TextReasons(p, now) \cup VerdictReasons(p, now)}
    \cup UNION {{Entry(r, p.gtin, c.id) : r \in CertificateReasons(c, now)} :
                  c \in p.certificates}

(* Everything the evidence asks to be looked at, before the cut.            *)
AllEntries(evidence, now) ==
    (UNION {ProductEntries(p, now) : p \in evidence.products})
    \cup {Entry("changed-unreviewed", g, 0) : g \in evidence.changed}
    \cup {Entry("source-or-quality-blocker", 0, b) : b \in evidence.blockers}

(* The order of the queue: priority, reason, product, key.                  *)
Precedes(e, f) ==
    \/ Place[e.reason] < Place[f.reason]
    \/ e.reason = f.reason /\ e.gtin < f.gtin
    \/ e.reason = f.reason /\ e.gtin = f.gtin /\ e.about < f.about

(* Mutant: the last entries are kept.                                       *)
CutHead(entries) ==
    {e \in entries : Cardinality({f \in entries : Precedes(e, f)}) < MaxEntries}

(* The queue keeps the first MaxEntries.                                    *)
Cut(entries) ==
    {e \in entries : Cardinality({f \in entries : Precedes(f, e)}) < MaxEntries}

QueueOf(evidence, now) == Cut(AllEntries(evidence, now))

(* merge_queue(): the products of admitted submissions join the queue.      *)
MergeQueue(queue, submitted) ==
    Cut(queue \cup {Entry("admitted-submission", g, 0) : g \in submitted})
==============================================================================
