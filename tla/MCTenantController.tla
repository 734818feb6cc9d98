------------------------ MODULE MCTenantController ------------------------
(* Small instances of TenantController.                                    *)
EXTENDS TenantController
=============================================================================
