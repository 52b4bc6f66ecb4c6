------------------------------- MODULE MCRing -------------------------------
(* Bytes of two bits, a default capacity of one byte, and files of one and *)
(* of two bytes, the latter longer than the default capacity.              *)
EXTENDS Ring

MCContents == { <<FALSE, TRUE>>, <<TRUE, TRUE, FALSE, FALSE>> }
=============================================================================
