--------------------------- MODULE MCTrajectories ---------------------------
(* Tasks of one to three branches whose scripts share tools; a replay does the same, or as another *)
(* agent would.                                                                                    *)
EXTENDS Trajectories
Call(tool, how) == [tool |-> tool, how |-> how]
Script(agent, calls, end) ==
  [agent |-> agent, known |-> TRUE, calls |-> calls, end |-> end, fits |-> TRUE, output |-> agent]
Fine == Script("m", <<Call("t", "ok"), Call("s", "step")>>, "accepted")
Retries == Script("n", <<Call("t", "error"), Call("t", "ok")>>, "accepted")
Apart == Script("n", <<Call("u", "error"), Call("u", "rejected")>>, "accepted")
Stopped == Script("n", <<Call("u", "ok")>>, "limit")
Wrong == Script("m", <<Call("s", "step")>>, "refused")
Failing == Script("o", <<Call("t", "error")>>, "accepted")
GivesUp == Script("o", <<Call("v", "given up")>>, "accepted")
Misfit == [Fine EXCEPT !.fits = FALSE]
Unknown == [Failing EXCEPT !.known = FALSE]
Bodies == {Fine, Retries, Apart, Stopped, Wrong, Failing}
Endings == {Fine, Stopped, GivesUp, Misfit, Unknown}
Compositions == {"pipeline", "parallel"}
Task(kind, first, second) == [kind |-> kind, first |-> first, second |-> second]
MCTasks == {Task("single", <<a>>, <<b>>) : a, b \in Bodies}
      \cup {Task(k, <<a, b>>, <<a, b>>) : k \in Compositions, a, b \in Bodies}
      \cup {Task(k, <<Fine, b>>, <<Fine, a>>) : k \in Compositions, a, b \in Bodies}
      \cup {Task(k, <<Wrong, Failing, Wrong>>, <<Wrong, Failing, Wrong>>) : k \in Compositions}
      \cup {Task("pipeline", <<Fine, a, Stopped>>, <<Fine, a, Stopped>>) : a \in {Apart, Wrong}}
      \cup {Task("single", <<a>>, <<b>>) : a, b \in {Failing, GivesUp, Unknown}}
      \cup {Task(k, <<a, b>>, <<a, b>>) : k \in Compositions, a, b \in Endings}
      \cup {Task(k, <<a, Fine>>, <<b, Fine>>) : k \in Compositions, a, b \in {Fine, Misfit, Unknown}}
      \cup {Task("pipeline", <<Fine, a, b>>, <<Fine, a, b>>) : a, b \in {Fine, Misfit, Unknown}}
      \cup {Task("parallel", <<Fine, Unknown, Fine>>, <<Fine, Unknown, Fine>>)}
      \cup {Task("parallel", <<Failing, GivesUp>>, <<Failing, GivesUp>>)}
=============================================================================
