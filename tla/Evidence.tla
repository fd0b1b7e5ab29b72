------------------------------ MODULE Evidence ------------------------------
(***************************************************************************)
(* The evidence envelope, for one GTIN in one market: what                  *)
(* open_food_facts_normalize writes into it and what evidence_model_core    *)
(* accepts.                                                                 *)
(*                                                                          *)
(* Records are identified by a digest of their content.  An observation     *)
(* holds the time it was retrieved, and a later snapshot has a later time,  *)
(* so the observations are a sequence and an identifier is a position in    *)
(* it (0: no ingredients).  An assessment is its own content.  Assessments  *)
(* that differ only in the reviewer's words, citations or recheck date are  *)
(* one here, which only makes it easier for two reviewers to meet on one.   *)
(*                                                                          *)
(* Of the validity events of an assessment the one with the last date       *)
(* decides, and a date is whatever its writer says.  "invalidated" holds    *)
(* the assessments whose last event is no restoration, "restored" those     *)
(* that have a restoring event at any date.                                 *)
(***************************************************************************)
EXTENDS Integers, Sequences, FiniteSets

CONSTANTS
    Texts,          \* ingredient texts (with allergens and traces)
    Certs,          \* certification records of this GTIN and market
    Reviewers,
    None

Positive == {"halal-reviewed", "halal-certified"}
Statuses == Positive \cup {"not-halal", "questionable", "unknown"}

Observation == [text : Texts, supersedes : Nat]

Assessment == [status : Statuses, ingredient : Nat, version : Nat,
               certs : SUBSET Certs, at : Nat]

ASSUME NoneAssumption == None \notin Texts \cup Certs \cup Reviewers \cup Assessment

ASSUME ReviewersAssumption == IsFiniteSet(Reviewers)

\* Nothing asks who made a rejection.
Review == [target : Assessment, state : {"approved"}, reviewer : Reviewers]
            \cup [target : Assessment, state : {"rejected"}, reviewer : {None}]

Selection == [ingredient : Nat, assessment : Assessment \cup {None},
              certs : SUBSET Certs, flagged : BOOLEAN]

Envelope == [obs : Seq(Observation), sel : Selection \cup {None},
             assessments : SUBSET Assessment, reviews : SUBSET Review,
             invalidated : SUBSET Assessment, restored : SUBSET Assessment]

EmptyEnvelope == [obs |-> <<>>, sel |-> None, assessments |-> {},
                  reviews |-> {}, invalidated |-> {}, restored |-> {}]

-----------------------------------------------------------------------------
(* Reading an envelope. *)

Superseded(e) == {e.obs[i].supersedes : i \in DOMAIN e.obs} \ {0}

\* The texts nothing supersedes: more than one is a formulation conflict.
ActiveTexts(e) == {e.obs[i].text : i \in DOMAIN e.obs \ Superseded(e)}

\* Mutant: approvals of the same product are counted, whichever verdict
\* they approved.
ProductReviewers(e, a) ==
    {r.reviewer : r \in {s \in e.reviews : s.state = "approved"}}

ApprovedReviewers(e, a) ==
    {r.reviewer : r \in {s \in e.reviews : s.target = a /\ s.state = "approved"}}

Terminal(e, a) == \E r \in e.reviews : r.target = a /\ r.state = "rejected"

\* Mutant: validity events are not looked at.
AttachableAssessment(e, a) ==
    /\ a \in e.assessments
    /\ a.ingredient = e.sel.ingredient
    /\ a.ingredient = 0 => a.status = "unknown"
    /\ ApprovedReviewers(e, a) # {}
    /\ ~Terminal(e, a)

\* The assessment a selection exposes is about the selected observation,
\* approved and not rejected, and its last validity event, if any, restored
\* it.
ValidAssessment(e, a) ==
    /\ a \in e.assessments
    /\ a.ingredient = e.sel.ingredient
    /\ a.ingredient = 0 => a.status = "unknown"
    /\ ApprovedReviewers(e, a) # {}
    /\ ~Terminal(e, a)
    /\ a \notin e.invalidated

\* validate_envelope, as far as it relates one record to another.
Valid(e) ==
    /\ \A a \in e.assessments :
        /\ a.ingredient \in 0..Len(e.obs)
        /\ a.ingredient = 0 => a.status = "unknown"
        /\ a.status = "halal-certified" => a.certs # {}
    /\ {r.target : r \in e.reviews} \subseteq e.assessments
    /\ e.invalidated \cup e.restored \subseteq e.assessments
    /\ e.sel # None =>
        /\ e.sel.ingredient \in (0..Len(e.obs)) \ Superseded(e)
        /\ e.sel.assessment # None => ValidAssessment(e, e.sel.assessment)

\* What may be invalid after another event: one that invalidates a, and does
\* nothing if it is dated before a restoration; one that restores a, and does
\* nothing if it is dated before an invalidation.
AfterInvalidation(e, a) ==
    {e.invalidated \cup {a}} \cup {same \in {e.invalidated} : a \in e.restored}

AfterRestoration(e, a) == {e.invalidated, e.invalidated \ {a}}

-----------------------------------------------------------------------------
(* Normalising a snapshot against the envelope of the previous one. *)

\* What a snapshot may hold for the product: a record with a text, which may
\* disagree between languages; a record without ingredients; no record,
\* in a complete snapshot or in one whose absences mean nothing.
Snapshot ==
    [kind : {"record"}, text : Texts, flagged : BOOLEAN]
        \cup [kind : {"no-ingredients", "absent", "unobserved"},
              text : {None}, flagged : {FALSE}]

\* Mutant: the first observation of the product, selected or not.
FirstPrior(e) == IF e.sel = None \/ e.obs = <<>> THEN 0 ELSE 1

\* The observation the previous selection held.
Prior(e) == IF e.sel = None THEN 0 ELSE e.sel.ingredient

\* Mutant: a prior observation is kept whatever it says.
PriorKept(e, text) == Prior(e) # 0

\* _ingredient_record: the prior observation while the text is the same.
Unchanged(e, text) == Prior(e) # 0 /\ e.obs[Prior(e)].text = text

\* Mutant: the assessment stays attached.
CarryingSelection(e, i, flagged) ==
    [ingredient |-> i,
     assessment |-> IF e.sel = None THEN None ELSE e.sel.assessment,
     certs |-> {}, flagged |-> flagged]

\* The selection the adapter writes: it never carries an assessment or a
\* certificate over, not even for an unchanged text.
AdapterSelection(e, i, flagged) ==
    [ingredient |-> i, assessment |-> None, certs |-> {}, flagged |-> flagged]

\* A changed text is a new observation that supersedes the prior one, and
\* invalidates the assessment the prior selection exposed.  Where that event
\* is dated before a restoration it does not, which is left out: nobody can
\* select a superseded text again.
ObserveText(e, s) ==
    IF Unchanged(e, s.text)
      THEN [e EXCEPT !.sel = AdapterSelection(e, Prior(e), s.flagged)]
      ELSE [e EXCEPT
              !.obs = Append(@, [text |-> s.text, supersedes |-> Prior(e)]),
              !.sel = AdapterSelection(e, Len(e.obs) + 1, s.flagged),
              !.invalidated =
                  IF Prior(e) # 0 /\ e.sel.assessment # None
                    THEN @ \cup {e.sel.assessment} ELSE @]

\* normalize_snapshot before its closing validate_envelope.  A record
\* without ingredients is selected with a conflict flag.
Normalized(e, s) ==
    CASE s.kind = "record" -> ObserveText(e, s)
      [] s.kind = "no-ingredients" ->
            [e EXCEPT !.sel = AdapterSelection(e, 0, TRUE)]
      [] s.kind = "absent" -> [e EXCEPT !.sel = None]
      [] s.kind = "unobserved" -> e
=============================================================================
