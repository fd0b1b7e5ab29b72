-------------------------- MODULE MCLookupSession --------------------------
EXTENDS LookupSession

CONSTANTS DE, FR, t1, t2

MCMarkets == {DE, FR}
MCVersions == {1}
MCRequests == {t1, t2}
===========================================================================
