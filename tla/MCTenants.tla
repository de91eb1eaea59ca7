----------------------------- MODULE MCTenants ------------------------------
EXTENDS Tenants

CONSTANTS r1, r2, acme, zeta, nova
=============================================================================
