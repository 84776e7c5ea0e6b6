--------------------------- MODULE MCOutboxRelay ---------------------------
(***************************************************************************)
(* Two relays, two tenants, three events: two of one tenant compete for a  *)
(* batch of one or share a batch of two.                                   *)
(***************************************************************************)
EXTENDS OutboxRelay

CONSTANTS r1, r2, t1, t2

MCEvents == 1..3
MCBacklog == {1, 2}
MCTenants == {t1, t2}
MCTenantOf == [e \in MCEvents |-> IF e = 2 THEN t2 ELSE t1]
MCRelays == {r1, r2}
=============================================================================
