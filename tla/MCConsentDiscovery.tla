------------------------- MODULE MCConsentDiscovery -------------------------
(* Small instances of ConsentDiscovery for TLC.  Five lazies are enough: each  *)
(* of two callers can hold one that was replaced while both caches show one,   *)
(* and a failed fetch needs one more.                                          *)
EXTENDS ConsentDiscovery
=============================================================================
