------------------------------ MODULE MCSession ------------------------------
(* A session with a task and a verifier, a store child and a plan of two steps. *)
EXTENDS Session
CONSTANTS task1, verifier1, kid1, path1, path2

Number(n) == [value |-> <<"int", n>>]
Blank == [kind |-> "run", child |-> None, names |-> {}, verifier |-> None, clear |-> FALSE,
          state |-> None, envelope |-> FALSE, task |-> None, args |-> None]
MCDirectives ==
  {[Blank EXCEPT !.kind = "configure", !.names = {task1}],
   [Blank EXCEPT !.kind = "configure", !.names = {verifier1}, !.verifier = verifier1],
   [Blank EXCEPT !.kind = "spawn", !.child = kid1],
   [Blank EXCEPT !.kind = "configure_child", !.child = kid1, !.state = path2],
   [Blank EXCEPT !.task = "store_set", !.child = kid1, !.args = Number(1)],
   [Blank EXCEPT !.task = task1, !.args = Number(2), !.verifier = verifier1],
   [Blank EXCEPT !.task = verifier1, !.args = Number(2)]}
MCAccepts == [x \in {verifier1} |-> {Number(1)}]
MCDenied == {[Blank EXCEPT !.task = verifier1, !.args = Number(2)]}
MCArtifacts ==
  {[intent |-> "run", steps |-> <<Step(task1, Number(1), None, None), Step(task1, Number(2), verifier1, None)>>, fields |-> <<>>],
   [intent |-> "run", steps |-> <<Step(task1, Number(1), None, None), Step(task1, Number(1), verifier1, None)>>, fields |-> <<>>],
   [intent |-> "double", steps |-> <<>>, fields |-> [value |-> <<"str", "7">>]],
   [intent |-> "double", steps |-> <<>>, fields |-> [value |-> <<"str", "seven">>]]}
MCNumberOf == [x \in {"7"} |-> 7]
MCTruncated == [x \in {"1.5"} |-> 1]
Importables == {task1}
LivePaths == {path1, path2}
RowsOfSessions == <<3, 1>>
RegisteredNames == {task1, verifier1}
=============================================================================
