----------------------- MODULE MCAssessmentLifecycle -----------------------
(* Two texts, of which the second methodology prohibits one. *)
EXTENDS AssessmentLifecycle, TLC

CONSTANTS t1, t2, c1

ProhibitedByVersion == <<{t2}, {t1, t2}>>
AmbiguousByVersion == <<{t1}, {}>>

CertificateDates == [c \in {c1} |-> [effective |-> 0, expiry |-> 1, checked |-> 0]]

Published ==
    {[kind |-> "record", text |-> t, flagged |-> FALSE] : t \in {t1, t2}}
        \cup {[kind |-> "record", text |-> t1, flagged |-> TRUE]}
        \cup [kind : {"no-ingredients", "absent", "unobserved"},
              text : {None}, flagged : {FALSE}]

Anonymous == Permutations(Reviewers)
=============================================================================
