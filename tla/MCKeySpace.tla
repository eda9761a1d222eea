----------------------------- MODULE MCKeySpace -----------------------------
(* Names, values and ids with separators, blanks and capitals in them.     *)
EXTENDS KeySpace

\* "u", "U ", "us", "d:u" and "7", "70", " 7", "7:f=7", "7#i=7".
Txt == [u |-> <<117>>, U_ |-> <<85, 32>>, us |-> <<117, 115>>, d_u |-> <<100, 58, 117>>, d |-> <<100>>,
        v7 |-> <<55>>, v70 |-> <<55, 48>>, b7 |-> <<32, 55>>,
        more |-> <<55, 58, 102, 61, 55>>, marked |-> <<55, 35, 105, 61, 55>>, f |-> <<102>>, F |-> <<70>>]

\* The second and fifth are the first in other words; the third and fourth
\* have the same letters and colons.
MCName == {<<Txt.d, Txt.d, Txt.u>>, <<Txt.d, Txt.d, Txt.U_>>, <<Txt.d, Txt.d, Txt.us>>,
           <<Txt.d_u, Txt.d, Txt.u>>, <<Txt.d, Txt.u, <<100, 58, 117>>>>}

P(f, v) == [Field |-> f, Value |-> v]
MCParts == {<<>>} \cup {<<P(Txt.f, v)>> : v \in {Txt.v7, Txt.v70, Txt.b7, Txt.more, Txt.marked}}
                  \cup {<<P(Txt.F, Txt.v7), P(Txt.f, v)>> : v \in {Txt.v7, Txt.v70}}

MCNumber == {7, 10, 99, 100}
MCId     == {Uint64ToFixedWidthBytes(n, Width) : n \in MCNumber} \cup {<<65>>, <<97>>}

Id7      == {Uint64ToFixedWidthBytes(7, Width)}
Users    == {<<Txt.d, Txt.d, Txt.u>>}
MCThings == [kind : {"d"}, name : Users, parts : {<<>>}, id : MCId]
       \cup [kind : {"d", "lock"}, name : MCName, parts : {<<>>}, id : Id7]
       \cup [kind : {"x", "u"}, name : MCName, parts : {<<P(Txt.f, Txt.v7)>>}, id : Id7]
       \cup [kind : {"x", "u"}, name : Users, parts : MCParts, id : Id7]
       \cup [kind : {"x"}, name : Users, parts : {<<P(Txt.f, Txt.v7)>>}, id : MCId]

=============================================================================
