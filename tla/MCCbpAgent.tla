----------------------------- MODULE MCCbpAgent -----------------------------
(***************************************************************************)
(* Small instances of CbpAgent: one task, one verifier that accepts one    *)
(* value and refuses the other, one that raises, two correlation ids.      *)
(***************************************************************************)
EXTENDS CbpAgent

CONSTANTS c1, c2, task, check, fragile, x, y, k1, k2, key, path

MCCid   == {c1, c2}
MCName  == {task, check, fragile}
MCValue == {x, y}
MCKid   == {k1, k2}
MCKey   == {key}
MCPath  == {path}
MCSize  == {1}

\* Every catalogued entry has a callable; only the task has a source location.
MCCatalog == [n \in MCName |-> [callable |-> TRUE, located |-> n = task]]

MCVerdict ==
    [n \in MCName |->
        CASE n = check   -> [v \in MCValue |-> IF v = x THEN "accept" ELSE "refuse"]
          [] n = fragile -> [v \in MCValue |-> IF v = x THEN "reject" ELSE "raise"]
          [] n = task    -> [v \in MCValue |-> "accept"]]

\* A plain run, and a larger one that names its own, raising verifier.
MCRunPayload ==
    {[task |-> task, verifier |-> None, size |-> 1],
     [task |-> task, verifier |-> fragile, size |-> 2]}

NoGrant == [env |-> None, bad_env |-> FALSE, verifier |-> None,
            clear |-> FALSE, names |-> {}, unknown |-> FALSE, state |-> None,
            read_only |-> FALSE, trajectory |-> FALSE]

OneStep == [step_limit |-> 1, size_cap |-> 1, child_limit |-> 1,
            latency |-> TRUE]
OneKid  == [step_limit |-> 2, size_cap |-> None, child_limit |-> 1,
            latency |-> FALSE]

\* The full grant, a re-grant of the envelope alone, a read-only re-grant,
\* a rejected envelope, and a grant of an uncatalogued name that has already
\* cleared the verifier.
MCGrant ==
    {[NoGrant EXCEPT !.names = MCName, !.verifier = check, !.state = path,
                     !.trajectory = TRUE],
     [NoGrant EXCEPT !.env = OneStep, !.names = {task}],
     [NoGrant EXCEPT !.env = OneKid, !.names = {task, fragile},
                     !.verifier = fragile],
     [NoGrant EXCEPT !.state = path, !.read_only = TRUE],
     [NoGrant EXCEPT !.bad_env = TRUE],
     [NoGrant EXCEPT !.clear = TRUE, !.unknown = TRUE]}
=============================================================================
