------------------------------ MODULE MCAsyncTCP ------------------------------
(* Model-checking instances of AsyncTCP.                                    *)
EXTENDS AsyncTCP
===============================================================================
