------------------------------ MODULE MCServer -----------------------------
(* Instances of Server for TLC. *)
EXTENDS Server, TLC

Conf(h, n, u, usr, grp, m, l, t) ==
    [handler |-> h, threads |-> n, uid |-> u, user |-> usr, group |-> grp,
     maxPost |-> m, level |-> l, extended |-> l = DEBUG, timeout |-> t]

\* Both handlers, started by root and by a user, with limits that are a
\* number, zero, negative, none and too large.
StartConfigs ==
    {Conf("http", 2, "root", "user", "user", 2, INFORMATIONAL, "number"),
     Conf("http", 0, "user", "unset", "unset", -1, DEBUG, "invalid"),
     Conf("http", 1, "root", "user", "root", NaN, OFF, "number"),
     Conf("fastcgi", 1, "root", "root", "user", Huge, ERROR, "number"),
     Conf("fastcgi", 1, "root", "user", "user", 0, WARNING, "number"),
     Conf("http", 1, "root", "unknown", "user", 0, WARNING, "overflow"),
     Conf("http", 1, "root", "unknown", "user", 0, WARNING, "number")}

PostLengths == {0, 1, 3, NaN}
=============================================================================
