--------------------------- MODULE MCAddressPool ---------------------------
(***************************************************************************)
(* Two addresses for two invoices, two derivers that reserve at once.      *)
(***************************************************************************)
EXTENDS AddressPool, TLC

CONSTANTS d1, d2, s1, t1
=============================================================================
