---------------------------- MODULE MCAuthLimiter ----------------------------
(* AuthLimiter with two attempts at a time from one address, one from another. *)
EXTENDS AuthLimiter

CONSTANTS here, there, t1, t2, t3
MCAddresses == {here, there}
MCAttempts  == {t1, t2, t3}
MCAddressOf == [t \in MCAttempts |-> IF t = t3 THEN there ELSE here]
=============================================================================
