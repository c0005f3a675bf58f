----------------------------- MODULE MCFilters -----------------------------
(* Instances of Filters for TLC. *)
EXTENDS Filters

CONSTANTS alice, bob

Symmetry ==
    Permutations(Requests) \cup Permutations(Clients) \cup Permutations(Sessions)

MCUsers == {alice, bob}

MCExtension == [n \in {"s", "a", "x.png", "y.html"} |->
                  CASE n = "x.png" -> "png" [] n = "y.html" -> "html"
                    [] OTHER -> n]
MCPaths == {<<>>, <<"a">>, <<"s", "x.png">>, <<"s", "y.html">>}
AreaPaths == {<<"s", "x.png">>, <<"s", "y.html">>}

\* The age of y.html is not known.
MCFiles == (<<"www", "x.png">> :> 1) @@ (<<"www", "s", "y.html">> :> 0)

\* Headers.
Sent(parts, basic, user) ==
    [sent |-> TRUE, parts |-> parts, basic |-> basic, user |-> user]
NoHeader == [sent |-> FALSE, parts |-> 0, basic |-> FALSE, user |-> NoUser]
WellFormed == {NoHeader, Sent(2, TRUE, alice), Sent(2, TRUE, bob)}
AllForms ==
    WellFormed \cup {Sent(0, FALSE, NoUser), Sent(1, TRUE, NoUser),
                     Sent(1, FALSE, NoUser), Sent(2, FALSE, alice),
                     Sent(2, TRUE, NoUser), Sent(3, TRUE, alice),
                     Sent(3, FALSE, alice)}

\* Filters: one without conditions, and what the instances change in it.
Plain == [invert |-> FALSE, pathFilter |-> {}, invertPathFilter |-> FALSE,
          extensionFilter |-> {}, invertExtensionFilter |-> FALSE,
          regexFilterEnabled |-> FALSE, regexFilter |-> {}]
Below(p) == [Plain EXCEPT !.pathFilter = {p}]
WithExtension(f, e) == [f EXCEPT !.extensionFilter = {e}]
AsAuth(f, accepts, useSessions) ==
    f @@ [accepts |-> accepts, useSessions |-> useSessions]
AsForward(f, byPath) == f @@ [basePath |-> <<"www">>, byPath |-> byPath]

\* The area s: what is not a png is for bob, the rest for alice; a is for both.
\* What is outside of s and a is blocked, and s is served from disk.
Site ==
    [filtersEnabled |-> TRUE,
     block |-> <<[Plain EXCEPT !.pathFilter = {<<"s">>, <<"a">>},
                               !.invert = TRUE]>>,
     auth |-> <<AsAuth([WithExtension(Below(<<"s">>), "png") EXCEPT
                          !.invertExtensionFilter = TRUE], {bob}, TRUE),
                AsAuth(Below(<<"s">>), {alice}, TRUE),
                AsAuth(Below(<<"a">>), {alice, bob}, FALSE)>>,
     forward |-> <<AsForward(Below(<<"s">>), FALSE)>>]

\* The same auth filters, with extensions and a regular expression.
Moved ==
    [Site EXCEPT
       !.block = <<[Plain EXCEPT !.regexFilterEnabled = TRUE,
                                 !.regexFilter = {<<"a">>}]>>,
       !.forward = <<AsForward(WithExtension(Plain, "png"), FALSE),
                     AsForward([Below(<<"a">>) EXCEPT !.invertPathFilter = TRUE],
                               TRUE)>>]
Disabled == [Site EXCEPT !.filtersEnabled = FALSE]
OneList == {Site}
SameAuth == {Site, Moved, Disabled}
=============================================================================
