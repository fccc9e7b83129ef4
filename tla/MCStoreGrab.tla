----------------------------- MODULE MCStoreGrab -----------------------------
(* One entitlement, two concurrent requests.                                *)
EXTENDS StoreGrab

CONSTANTS e1, nobody, u1, u2
=============================================================================
