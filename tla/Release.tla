------------------------------- MODULE Release -------------------------------
(* Signed releases: the rotating keys of cbp/trust.py, the signing service, the *)
(* hash-chained transparency log of cbp/transparency.py and its check at boot.  *)
(* A signature names its key, its payload and the instant it was made (gpg's    *)
(* do); the hash of an entry is modelled by the entry, which holds the hash     *)
(* before it.                                                                   *)
EXTENDS Integers, FiniteSets, Sequences, SequencesExt

CONSTANTS Publishers,     \* processes that record releases
          Locks,          \* hashes of component locks
          Keys,           \* key ids
          Windows,        \* [Keys -> [not_before, not_after, signs]], the trust store
          Now, MaxLog, MaxDamage \* bounds
ReleaseConstants ==
  IsFiniteSet(Publishers) /\ Now \in Nat /\ MaxLog \in Nat \ {0} /\ MaxDamage \in Nat

\* The hash before the first entry and a line that does not parse: no entry has these numbers.
Genesis == [seq |-> -1]
Garbage == [seq |-> -2]

VARIABLES
  clock,     \* the instant
  log,       \* the lines of the transparency log
  pub,       \* per publisher: the entry it is about to write, if any
  heads,     \* entries append returned: heads a booter may pin
  damage,    \* how often the file was damaged
  raced      \* history: an append began while another's entry was still to be written
vars == <<clock, log, pub, heads, damage, raced>>

-----------------------------------------------------------------------------
(* Keys *)

\* TrustWindow.covers: from not_before up to, not including, not_after.
Covers(k, at) == Windows[k].not_before <= at /\ at < Windows[k].not_after

\* TrustStore.signer_at: the one key that covers the instant and may sign; raises otherwise.
Candidates(at) == {k \in Keys : Covers(k, at) /\ Windows[k].signs}
SignerAt(at) == IF Cardinality(Candidates(at)) = 1 THEN Candidates(at) ELSE {}

\* Signer.sign and SignatureVerifier.verify (gpg and minisign are external tools).
Sign(k, payload) == [key |-> k, payload |-> payload, at |-> clock]
Verifies(k, payload, sig) == sig.key = k /\ sig.payload = payload

\* log_verifiers: every trusted key, also those whose window is over.
ActiveVerifiers == {k \in Keys : Covers(k, clock)}
LogVerifiers == Keys

-----------------------------------------------------------------------------
(* The log *)

\* TransparencyLog.read and from_line: every line parses, is numbered by its place, and names
\* the hash of the line before.
Readable(lines) ==
  \A i \in DOMAIN lines : /\ lines[i] # Garbage /\ lines[i].seq = i - 1
                          /\ lines[i].prev = IF i = 1 THEN Genesis ELSE lines[i - 1]
HeadOf(lines) == IF lines = <<>> THEN Genesis ELSE Last(lines)

\* TransparencyLog.verify: the chain, each signature under its own key, the pinned head.
VerifyLog(lines, head) ==
  /\ Readable(lines)
  /\ \A i \in DOMAIN lines : /\ lines[i].key \in LogVerifiers
                             /\ Verifies(lines[i].key, lines[i].lock, lines[i].sig)
  /\ HeadOf(lines) = head

\* _verify_transparency, at boot: the log verifies against the pinned head and has the lock in it.
BootAccepts(head, lock) == VerifyLog(log, head) /\ \E i \in DOMAIN log : log[i].lock = lock

-----------------------------------------------------------------------------
Init ==
  /\ clock = 0 /\ log = <<>> /\ pub = [p \in Publishers |-> {}]
  /\ heads = {} /\ damage = 0 /\ raced = FALSE

Tick == clock < Now /\ clock' = clock + 1 /\ UNCHANGED <<log, pub, heads, damage, raced>>

\* record_release: sign_lock, then append reads and validates the log.  A corrupt log is not
\* extended; the record that is the head already is returned as it is.
BeginAppend(p, lock) ==
  /\ pub[p] = {} /\ Len(log) < MaxLog
  /\ \E k \in SignerAt(clock) :
       LET sig == Sign(k, lock)
           head == HeadOf(log)
           same == head # Genesis /\ head.lock = lock /\ head.key = k /\ head.sig = sig
       IN /\ Readable(log)
          /\ pub' = IF same THEN pub
                    ELSE [pub EXCEPT ![p] = {[seq |-> Len(log), prev |-> head, lock |-> lock,
                                              key |-> k, sig |-> sig]}]
  /\ raced' = (raced \/ \E other \in Publishers : pub[other] # {})
  /\ UNCHANGED <<clock, log, heads, damage>>

\* append, second half: the line is written behind whatever the file holds by now.
WriteEntry(p) ==
  /\ \E entry \in pub[p] : log' = Append(log, entry) /\ heads' = heads \cup {entry}
  /\ pub' = [pub EXCEPT ![p] = {}]
  /\ UNCHANGED <<clock, damage, raced>>

\* The write stops half way, or the publisher dies before it.
Interrupted(p) ==
  /\ pub[p] # {} /\ damage < MaxDamage /\ damage' = damage + 1
  /\ log' \in {log, Append(log, Garbage)}
  /\ pub' = [pub EXCEPT ![p] = {}]
  /\ UNCHANGED <<clock, heads, raced>>

\* The file is truncated, or an entry is altered or replaced by another that was published.
Damage ==
  /\ damage < MaxDamage /\ damage' = damage + 1
  /\ \/ \E n \in 0..Len(log) - 1 : log' = SubSeq(log, 1, n)
     \/ \E i \in DOMAIN log : log[i] # Garbage /\ \E l \in Locks : log' = [log EXCEPT ![i].lock = l]
     \/ \E i \in DOMAIN log, e \in heads : log' = [log EXCEPT ![i] = e]
     \/ \E e \in heads : Len(log) < MaxLog /\ log' = Append(log, e)
  /\ UNCHANGED <<clock, pub, heads, raced>>

Next ==
  \/ Tick \/ Damage
  \/ \E p \in Publishers : (\E l \in Locks : BeginAppend(p, l)) \/ WriteEntry(p) \/ Interrupted(p)
Spec == Init /\ [][Next]_vars

-----------------------------------------------------------------------------
\* The lines, the entries in flight and the clock are of their types.
TypeOK ==
  /\ clock \in 0..Now /\ raced \in BOOLEAN /\ damage \in 0..MaxDamage /\ Len(log) <= MaxLog + Cardinality(Publishers)
  /\ \A p \in Publishers : Cardinality(pub[p]) <= 1

\* The history a head stands for, oldest entry first: at most its last n entries.
History[n \in 0..MaxLog] ==
  [e \in heads |-> IF n = 0 THEN <<>>
                    ELSE Append(IF e.prev \in heads THEN History[n - 1][e.prev] ELSE <<>>, e)]

\* "editing any record breaks the chain at every later record, and a pinned expected head detects
\* truncation": a boot that pins the head an append returned passes only on the very history that
\* append extended, whatever was cut, altered, swapped or torn meanwhile, and also if two appenders
\* chained their entries to one head (read, append, verify).
PinnedHeadPinsHistory ==
  \A h \in heads, l \in Locks : BootAccepts(h, l) => log = History[MaxLog][h]

\* Rotation never invalidates what was released: while the file is undamaged and publishers take
\* turns, the whole log verifies under the trust store at every later instant, whichever windows
\* opened and closed (signer_at, log_verifiers).
ReleasesStayVerifiable == damage = 0 /\ ~raced => VerifyLog(log, HeadOf(log))
=============================================================================
