----------------------------- MODULE MCSession -----------------------------
(* Instances of Session for TLC. *)
EXTENDS Session, TLC

Conf(v, a, k, g) ==
    [validate_ip |-> v, autostart |-> a, keepalive |-> k, gc_divisor |-> g]

\* Connections that bind sessions to addresses next to ones that do not.
MixedConfigs ==
    {Conf("off", FALSE, 1, "number"), Conf("strict", TRUE, 1, "overflow")}

\* Every configuration binds sessions to addresses.
ValidatingConfigs ==
    {Conf("lax", FALSE, 1, "number"), Conf("strict", FALSE, 1, "number")}

\* One configuration, for the liveness run.
StrictConfig == {Conf("strict", TRUE, 1, "number")}

\* A keepalive of -1 in the configuration is ULONG_MAX to stoul.
ShortKeepalives == {1}
WrappingKeepalives == {1, 7}

Symmetry ==
    Permutations(Conns) \cup Permutations(IDs) \cup Permutations(Objs)
        \cup Permutations(IPs)
=============================================================================
