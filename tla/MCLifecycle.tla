------------------------------ MODULE MCLifecycle ------------------------------
(* One process; every Docker request may fail, or none.                      *)
EXTENDS Lifecycle

AllFail  == {"stop", "remove", "rm"}
NoneFail == {}
================================================================================
