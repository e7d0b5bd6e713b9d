--------------------------- MODULE MCProvisioning ---------------------------
EXTENDS Provisioning, TLC
CONSTANTS ann, bob

MCUsers  == {ann, bob}
MCSorted == <<ann, bob>>
MCWidth == [u \in {ann, bob, Service} |-> IF u = bob THEN 3 ELSE 2]
MCTasksAlike == Permutations(Tasks)
=============================================================================
