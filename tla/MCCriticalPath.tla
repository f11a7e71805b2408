-------------------------- MODULE MCCriticalPath --------------------------
(* Three activities with any dependencies, four in a fixed order, two that may be malformed; plans *)
(* of two or three stages, with groups and recorded costs.                                          *)
EXTENDS CriticalPath

Activity(i, d, deps) == [id |-> i, duration |-> d, deps |-> deps]
Three == {<<Activity(1, x, a), Activity(2, y, b), Activity(3, z, c)>> :
          x \in {1, 2, 4}, y \in {1, 3}, z \in {1, 2}, a \in SUBSET {2, 3}, b \in SUBSET {1, 3}, c \in SUBSET {1, 2}}
Four == {<<Activity(4, w, {}), Activity(3, x, a), Activity(2, y, b), Activity(1, z, c)>> :
           w \in {1, 2}, x \in {1, 3}, y \in {1, 2}, z \in {1}, a \in SUBSET {4}, b \in SUBSET {3, 4}, c \in SUBSET {2, 3, 4}}
Bad == {<<Activity(1, 1, a), Activity(i, d, b)>> : i \in {1, 2}, d \in {-1, 0, 1}, a \in SUBSET {1, 2, 9}, b \in SUBSET {1, 2}}
MCNetworks == Three \cup Four \cup Bad \cup {<<>>}
MCPlans == [kind : {"sequential", "parallel"}, parent : {2, 3}, recorded : {<<>>, <<1>>, <<0>>, <<4, 2>>},
            stages : {<<<<0>>, <<1>>>>, <<<<3>>, <<0, 4>>, <<1>>>>, <<<<1, 2>>, <<2>>, <<0, 0>>>>}]
=============================================================================
