------------------------------ MODULE MCTenancy ------------------------------
(* Two organizations, m3 a meeting of the second, the others of the first.    *)
EXTENDS Tenancy

CONSTANTS o1, o2, m3

MCOrgOf == [m \in Meeting |-> IF m = m3 THEN o2 ELSE o1]
=============================================================================
