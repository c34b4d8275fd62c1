----------------------------- MODULE TenantBase -----------------------------
(***************************************************************************)
(* What the pages about tenants share: the tenants, and a value for none.  *)
(***************************************************************************)
EXTENDS Naturals

CONSTANTS Tenants, Nothing

ASSUME TenantAssumption == Nothing \notin Tenants
=============================================================================
