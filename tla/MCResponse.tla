----------------------------- MODULE MCResponse ----------------------------
(* Instances of Response for TLC. *)
EXTENDS Response

Cookie(v, c, d, f, s) ==
    [valid |-> v, content |-> c, options |-> [domain |-> d], flags |-> f, sameSite |-> s]

Unset == Cookie(TRUE, "", None, {}, "off")
TwoCookies ==
    {Cookie(TRUE, "x", None, {}, "off"), Cookie(TRUE, "y", "d", {"secure"}, "lax"),
     Cookie(FALSE, "bad", None, {}, "off")}

LowerCase == [k \in {"X-A", "x-a"} |-> "x-a"]
TwoBodies == {<<>>, <<"a", "b">>}
TwoFiles == {<<"a">>, <<"b", "b">>}
=============================================================================
