---------------------------- MODULE MCDigestFold ----------------------------
(* Model values for DigestFold.                                              *)
EXTENDS DigestFold

CONSTANTS e1, w1, w2
===============================================================================
