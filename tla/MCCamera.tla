------------------------------ MODULE MCCamera ------------------------------
(* Instance of Camera for TLC: two thread identities.                        *)
EXTENDS Camera

CONSTANTS t1, t2

MCThreads == {t1, t2}
=============================================================================
