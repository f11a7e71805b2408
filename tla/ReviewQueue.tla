----------------------------- MODULE ReviewQueue -----------------------------
(* What the review queue promises (cbp/review.py, "content-hashed, append-only, *)
(* deterministic"): one shared set of items and one of their resolutions, each  *)
(* content entered once, whoever asks and however often.  Different resolutions *)
(* of one item are different contents: the queue keeps them all, and the item   *)
(* is resolved from the first on.  SqlStores is shown to implement it.          *)
CONSTANTS Procs, Keys, Resolutions, ItemOf

VARIABLES items,        \* the hashes that were ever enqueued
          resolutions,  \* those of (item, resolution, resolver) that were ever appended
          told          \* what the callers were told: <<process, hash, "new" or "old">>
vars == <<items, resolutions, told>>

Init == items = {} /\ resolutions = {} /\ told = {}

\* The caller learns whether its content is new at the instant it is entered.
Tell(p, k, content) == told' = told \cup {<<p, k, IF k \in content THEN "old" ELSE "new">>}

\* enqueue.
Enqueue(p, k) ==
  /\ Tell(p, k, items)
  /\ items' = items \cup {k}
  /\ UNCHANGED resolutions

\* resolve: only an item of the queue.
Resolve(p, h) ==
  /\ ItemOf[h] \in items
  /\ Tell(p, h, resolutions)
  /\ resolutions' = resolutions \cup {h}
  /\ UNCHANGED items

Next == \E p \in Procs : \/ \E k \in Keys : Enqueue(p, k)
                         \/ \E h \in Resolutions : Resolve(p, h)
Spec == Init /\ [][Next]_vars
=============================================================================
