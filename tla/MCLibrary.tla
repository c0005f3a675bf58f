------------------------------ MODULE MCLibrary ----------------------------
(* Instances of Library for TLC. *)
EXTENDS Library

\* &amp; &quot; &lt; &gt; and the first half of &bne;
Entities ==
    38 :> <<38, 97, 109, 112, 59>> @@ 34 :> <<38, 113, 117, 111, 116, 59>>
      @@ 60 :> <<38, 108, 116, 59>> @@ 62 :> <<38, 103, 116, 59>> @@ 61 :> <<>>
Lookaheads == 61 :> <<8421, <<38, 98, 110, 101, 59>>>>

ContentTypes == <<99>> :> "text/css" @@ <<99, 99>> :> "text/csv"

\* Texts around the place where a line has to break
LongTexts ==
    {[i \in 1..n |-> 97] \o s : n \in 3..10, s \in BoundedSeq({97, 61, 10}, 3)}

Inputs ==
    [html |-> BoundedSeq({38, 35, 59, 54}, 5) \cup BoundedSeq({38, 34, 60, 59, 108, 116}, 4),
     entities |-> BoundedSeq({38, 35, 59, 54, 61, 8421}, 4) \cup {<<38, 35, 54, 48, 59>>},
     url |-> BoundedSeq({37, 52, 65, 97, 255}, 4),
     base64 |-> BoundedSeq({0, 65, 255}, 5), bare |-> BoundedSeq({0, 65, 255}, 4),
     quoted |-> LongTexts \cup BoundedSeq({61, 52, 65, 200, 10, 13}, 3),
     word |-> BoundedSeq({95, 32, 61, 63, 97, 200, 10}, 3),
     lines |-> BoundedSeq({97, 10, 13}, 4),
     address |-> BoundedSeq({97, 46, 64, 228}, 5),
     puny |-> BoundedSeq({97, 45, 46, 228, 8364}, 4)]

Days == {-24837, -1, 0, 8, 59, 365, 789, 11016, 11017, 19723}
SomeTimes == {d * 86400 + s : d \in Days, s \in {0, 43199, 86399}}
Zones == {-12600, 0, 3600, 20700}

Part(coding, data, allow) ==
    [kind |-> "part", type |-> <<116>>, disposition |-> <<>>, headers |-> <<<<<<88>>, <<120>>>>>>,
     coding |-> coding, allowReplacements |-> allow, data |-> data]
PartList(random, parts) == [kind |-> "list", type |-> <<109>>, random |-> random, parts |-> parts]

Data ==
    {<<>>, <<97>>, <<97, 61, 200>>, <<13, 10>> \o <<45, 45>> \o genBoundary(109),
     <<45, 45, 45, 45, 45, 45, 109, 45, 45>>}
Parts == {Part(c, d, a) : c \in {"base64", "quoted"}, d \in Data, a \in BOOLEAN}
         \cup {Part("none", <<97, 98>>, TRUE)}
Nested == PartList(110, <<Part("quoted", <<97>>, FALSE), Part("none", <<120>>, FALSE)>>)
SomeMails ==
    {PartList(109, <<p>>) : p \in Parts}
      \cup {PartList(109, <<p, Assign(Nested, e)>>) : p \in Parts, e \in {[kind |-> "empty"], Part("none", <<120>>, TRUE)}}
      \cup {PartList(109, <<Part("none", <<97>>, FALSE), PartList(110, <<p>>)>>) : p \in Parts}
SomeRules == {<<>>, <<<<<<97>>, <<98, 97>>>>, <<<<98>>, <<99>>>>>>}

Field(n, f, t, c) == [name |-> n, filename |-> f, type |-> t, content |-> c]
SomeFields ==
    {Field(n, f, t, c) : n \in {<<110>>, <<122>>}, f \in {<<>>, <<102>>},
                         t \in {<<>>, <<116, 112>>, <<105>>}, c \in {<<>>, <<97>>, <<13, 10>>, <<97, 98, 45>>}}
SomeForms == BoundedSeq(SomeFields, 2)
SomeQueries == BoundedSeq({<<120>>, <<121>>} \X {<<>>, <<97>>, <<38, 61>>, <<63, 37, 52, 49>>}, 2)

Line(k, n, v, t) == [kind |-> k, name |-> n, value |-> v, text |-> t]
SomeLines ==
    {Line("section", <<115>>, <<>>, <<91, 115, 93>>), Line("section", <<116>>, <<>>, <<91, 116, 93, 59>>),
     Line("section", <<115, 97, 98, 99>>, <<>>, <<91, 115, 97, 98, 99, 93>>),
     Line("pair", <<107>>, <<50>>, <<107, 32, 58, 32, 50, 32, 59, 61>>),
     Line("pair", <<107>>, <<59, 51>>, <<107, 61, 59, 51>>),
     Line("pair", <<107, 107, 107>>, <<49>>, <<107, 107, 107, 61, 49>>),
     Line("more", <<>>, <<>>, <<32, 120>>), Line("comment", <<>>, <<>>, <<32, 35, 107, 61, 52>>),
     Line("broken", <<>>, <<>>, <<91, 117>>), Line("broken", <<>>, <<>>, <<91, 117, 32, 59, 120, 93>>),
     Line("comment", <<>>, <<>>, ByteOrderMark),
     Line("comment", <<>>, <<>>, <<59, 32, 32, 32, 32, 32, 32, 32, 32, 107, 61, 53>>)}

Arg(o, t) == [override |-> o, text |-> t]
SomeArguments ==
    {Arg(<<<<<<115>>, <<107>>>>, <<54>>>>, <<45, 45, 115, 58, 107, 61, 54>>),
     Arg(<<<<<<115>>, <<107>>>>, <<55>>>>, <<45, 45, 115, 58, 107, 61, 55>>),
     Arg(<<>>, <<45, 45, 115, 58, 107, 61>>), Arg(<<>>, <<45, 45, 110>>), Arg(<<>>, <<102>>)}

SomeRequests ==
    {[destination |-> d, headers |-> h] :
        d \in {<<47>>, <<47, 97, 47, 47, 98, 63, 120, 61, 49>>},
        h \in {<<>>, <<<<<<72>>, <<122>>>>>>, <<<<<<88, 45, 89>>, <<49>>>>, <<<<67, 84>>, <<117>>>>>>,
               <<<<<<104>>, <<>>>>, <<<<120, 45, 121, 45>>, <<50>>>>>>,
               <<<<<<99, 76>>, <<50>>>>, <<<<72>>, <<122>>>>>>}}
SomeTypes == {<<>>, <<117>>, <<85>>, <<77, 59, 98, 61, 120>>, <<117, 59, 99>>, <<109, 59, 98, 61, 120>>, <<106>>}

SomeFiles == {<<97, 46, 67>>, <<97, 46, 99, 46, 99, 99>>, <<46, 99>>, <<97>>}

Bcrypt(w, s) == [kind |-> "bcrypt", workFactor |-> w, salt |-> s]
Argon2(a, m, t, p, s, l) ==
    [kind |-> "argon2", algorithm |-> a, memoryCost |-> m, timeCost |-> t, parallelism |-> p, salt |-> s, hashLen |-> l]
SomeEngines ==
    {Bcrypt(w, s) : w \in {0, 4, 10, 32}, s \in {<<>>, <<7>>}}
      \cup {Argon2("id", m, t, p, s, l) : m \in {7, 8, 511, 512}, t \in {0, 1}, p \in {0, 1, 64},
                                          s \in {<<>>, <<7>>, [i \in 1..8 |-> 7]}, l \in {3, 4, 5}}
      \cup {Argon2(a, 65536, 1000, 4, <<>>, l) : a \in {"i", "d", "id"}, l \in 30..32}
      \cup {Argon2(a, 2147483647, 1000000000, p, [i \in 1..8 |-> 7], 4) : a \in {"i", "id"}, p \in {99, 100}}
      \cup {Argon2("d", 2147483647, 1, p, <<>>, 4) : p \in {2^24 - 1, 2^24}}
SomePasswords == BoundedSeq({0, 1}, 2) \cup {<<1, 1, 1, 1>>, <<1, 1, 1, 0>>}
=============================================================================
