---------------------------- MODULE ThresholdSig ----------------------------
(* The k-of-n release signatures of cbp/threshold.py: holders sign locks one by *)
(* one, anybody puts the parts together, a verifier accepts a bundle or not.    *)
EXTENDS Naturals, FiniteSets, Sequences

CONSTANTS Locks, Keys, Eligible, Threshold   \* ThresholdPolicy: the keys and how many it takes

VARIABLES shares,    \* the signatures made
          accepted   \* locks a bundle was accepted for
vars == <<shares, accepted>>

ThresholdConstants == IsFiniteSet(Eligible)

\* SignatureVerifier.verify (gpg and minisign are external tools).
Verifies(k, payload, sig) == sig.key = k /\ sig.payload = payload

\* ThresholdSignature: at least one part, no key twice; the order does not matter.
WellFormed(parts) ==
  parts # <<>> /\ \A i, j \in DOMAIN parts : parts[i].key = parts[j].key => i = j

\* ThresholdPolicy: between one and all of the eligible keys; accepts counts distinct ones.
PolicyOk == Threshold \in 1..Cardinality(Eligible)
Accepts(verified) == Cardinality(verified \cap Eligible) >= Threshold

\* ThresholdVerifier.verify: an ineligible key or one bad part fails the whole bundle.
ThresholdVerify(payload, parts) ==
  /\ WellFormed(parts)
  /\ \A i \in DOMAIN parts : parts[i].key \in Eligible /\ Verifies(parts[i].key, payload, parts[i].sig)
  /\ Accepts({parts[i].key : i \in DOMAIN parts})

Init == PolicyOk /\ shares = {} /\ accepted = {}

\* One holder's part of sign_threshold.
SignShare(k, lock) == shares' = shares \cup {[key |-> k, payload |-> lock]} /\ UNCHANGED accepted

\* A bundle of the parts that are around, under any names (from_pairs, from_binary), is verified.
CheckBundle(lock, parts) ==
  /\ accepted' = IF ThresholdVerify(lock, parts) THEN accepted \cup {lock} ELSE accepted
  /\ UNCHANGED shares

Next ==
  \/ \E k \in Keys, l \in Locks : SignShare(k, l)
  \/ \E l \in Locks, n \in 1..Threshold : \E parts \in [1..n -> [key: Keys, sig: shares]] :
       CheckBundle(l, parts)
Spec == Init /\ [][Next]_vars

\* A bundle is accepted for a lock only if that many distinct eligible holders signed that lock,
\* however parts are renamed, repeated or taken from other bundles (verify).
AcceptedHasQuorum ==
  \A l \in accepted : Cardinality({k \in Eligible : [key |-> k, payload |-> l] \in shares}) >= Threshold
=============================================================================
