---------------------------- MODULE MCTenantPool ----------------------------
(* Three requests over two connections: a waiter, two holders, and a        *)
(* connection that is used again by a request of another organization.      *)
EXTENDS TenantPool
=============================================================================
