------------------------------- MODULE MCRoles -------------------------------
(* A small back office for TLC: two requests at a time.                    *)
EXTENDS Roles

CONSTANTS w1, w2
TwoWorkers == {w1, w2}
=============================================================================
