------------------------------ MODULE MCStream ------------------------------
(***************************************************************************)
(* Networks for the streaming engine: a tree with a fan-out, a join        *)
(* behind a filter, a join fed by two ports of one source, a document that *)
(* is refused, and ones that exceed their limits.                          *)
(***************************************************************************)
EXTENDS Integers, Sequences

E(s, f, t, a, n, ok) ==
    [source |-> s, field |-> f, target |-> t, arg |-> a, capacity |-> n, accepts |-> ok]

Any == {1, 2, 3, 4}

\* s fans out to a, which filters or doubles, and to b; a feeds c.
Tree ==
    [order |-> <<"s", "a", "b", "c">>,
     edges |-> <<E("a", "o", "c", "i", 1, Any), E("s", "o", "a", "i", 1, Any),
                 E("s", "o", "b", "i", 2, {1, 2})>>,
     ins   |-> [c \in {"s", "a", "b", "c"} |-> IF c = "s" THEN {} ELSE {"i"}],
     outs  |-> [c \in {"s", "a", "b", "c"} |-> {"o"}],
     wired |-> [c \in {"s", "a", "b", "c"} |->
                   IF c \in {"s", "a"} THEN <<"o">> ELSE <<>>],
     answers |-> [c \in {"s", "a", "b", "c"} |->
                   CASE c = "s" -> {[o |-> <<1, 2, 1>>], [o |-> <<1, 3>>], [o |-> <<>>]}
                     [] c = "a" -> {[o |-> <<>>], [o |-> <<2, 1>>]}
                     [] OTHER -> {<<>>}],
     limit |-> 12]

\* s fans out to the filter a and to b; d joins what they send.
Join ==
    [order |-> <<"s", "a", "b", "d">>,
     edges |-> <<E("a", "o", "d", "x", 1, Any), E("b", "o", "d", "y", 1, Any),
                 E("s", "o", "a", "i", 1, Any), E("s", "o", "b", "i", 1, Any)>>,
     ins   |-> [c \in {"s", "a", "b", "d"} |->
                   IF c = "s" THEN {} ELSE IF c = "d" THEN {"x", "y"} ELSE {"i"}],
     outs  |-> [c \in {"s", "a", "b", "d"} |-> {"o"}],
     wired |-> [c \in {"s", "a", "b", "d"} |-> IF c = "d" THEN <<>> ELSE <<"o">>],
     answers |-> [c \in {"s", "a", "b", "d"} |->
                   CASE c = "s" -> {[o |-> <<1, 2, 3, 4>>]}
                     [] c = "a" -> {[o |-> <<>>], [o |-> <<1>>], [o |-> <<1, 2>>]}
                     [] c = "b" -> {[o |-> <<4>>]}
                     [] OTHER -> {<<>>}],
     limit |-> 13]

\* Two out-ports of s feed the three in-ports of d, p fanning out to two of them.
Ports ==
    [order |-> <<"s", "d">>,
     edges |-> <<E("s", "p", "d", "x", 2, Any), E("s", "p", "d", "y", 1, Any),
                 E("s", "q", "d", "z", 1, Any)>>,
     ins   |-> [c \in {"s", "d"} |-> IF c = "s" THEN {} ELSE {"x", "y", "z"}],
     outs  |-> [c \in {"s", "d"} |-> {"p", "q"}],
     wired |-> [c \in {"s", "d"} |-> IF c = "s" THEN <<"p", "q">> ELSE <<>>],
     answers |-> [c \in {"s", "d"} |->
                   IF c = "s" THEN {[p |-> pq[1], q |-> pq[2]] :
                       pq \in {<<>>, <<1>>, <<1, 2>>} \X {<<>>, <<1>>, <<3, 4>>}}
                   ELSE {<<>>}],
     limit |-> 3]

\* Five one-packet ports of s feed d: more sends than activations allow.
Fan ==
    LET P == {"p1", "p2", "p3", "p4", "p5"} IN
    [order |-> <<"s", "d">>,
     edges |-> <<E("s", "p1", "d", "p1", 1, Any), E("s", "p2", "d", "p2", 1, Any),
                 E("s", "p3", "d", "p3", 1, Any), E("s", "p4", "d", "p4", 1, Any),
                 E("s", "p5", "d", "p5", 1, Any)>>,
     ins   |-> [c \in {"s", "d"} |-> IF c = "s" THEN {} ELSE P],
     outs  |-> [c \in {"s", "d"} |-> P],
     wired |-> [c \in {"s", "d"} |->
                   IF c = "s" THEN <<"p1", "p2", "p3", "p4", "p5">> ELSE <<>>],
     answers |-> [c \in {"s", "d"} |->
                   IF c = "s" THEN {[p \in P |-> <<1>>]} ELSE {<<>>}],
     limit |-> 2]

\* Two edges into one in-port; and a network of more components than its limit.
Doubled ==
    [Ports EXCEPT !.edges = <<E("s", "p", "d", "x", 1, Any), E("s", "q", "d", "x", 1, Any)>>]
TooLong == [Tree EXCEPT !.limit = 3]

Documents == {Tree, Join, Ports, Fan, Doubled, TooLong}
=============================================================================
