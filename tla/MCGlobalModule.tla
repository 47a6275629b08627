--------------------------- MODULE MCGlobalModule ---------------------------
(***************************************************************************)
(* Model-checking instances of GlobalModule.                               *)
(***************************************************************************)
EXTENDS GlobalModule, TLC

CONSTANTS a1, a2, p1, p2, p3, w1, w2   \* model values

AllStrings(n, characters) == UNION {[1 .. k -> characters] : k \in 0 .. n}

Element(executable, arguments, count) ==
    [executable |-> executable, arguments |-> arguments, count |-> count]

Plain(count) == Element(<<"letter">>, <<"letter">>, count)

\* Two applications with up to two pools each, of no process, one, two, and of a count
\* that becomes the largest size_t; and one pool with every executable of up to three
\* characters, or two with wide ones, and arguments that look like anything.
SmallConfigurations ==
    {a1 :> x @@ a2 :> y :
        x \in {<<Plain(1), Plain(2)>>, <<Plain(2)>>},
        y \in {<<Plain(0)>>, <<Plain(1)>>, <<Plain(-1)>>}}
    \cup
    {a1 :> <<Element(executable, arguments, 0)>> @@ a2 :> <<>> :
        executable \in AllStrings(3, Characters \ Wide) \cup AllStrings(2, Characters),
        arguments \in {<<>>, <<"quote", "space", "backslash">>}}

\* Two applications with one pool each.
TwoApplications == {a1 :> <<Plain(1)>> @@ a2 :> <<Plain(1)>>}

=============================================================================
