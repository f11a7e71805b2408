------------------------------- MODULE Intake -------------------------------
(* From a source to an unverified draft of a bill: cbp/intake.py with cbp/bills.py, and the     *)
(* legacy control_plane/intake.py.  A source has the fields its text gives, an amount by the    *)
(* digits before and after the point, a date as a day.                                          *)
EXTENDS Integers, Sequences

CONSTANTS None, Refused

Structured == {"json", "csv", "txt"}

\* _parse_money: "12" stands for 12 cents, "12.5" and "12.50" for 1250.
ParseMoney(m) ==
  IF m = None THEN None
  ELSE CASE m.frac = <<>> -> m.whole
         [] Len(m.frac) = 1 -> m.whole * 100 + m.frac[1] * 10
         [] Len(m.frac) = 2 -> m.whole * 100 + m.frac[1] * 10 + m.frac[2]
         [] OTHER -> None
\* int() of a field.
WholeNumber(m) == IF m = None \/ m.frac # <<>> THEN None ELSE m.whole

Draft(id, source, amount) == [id |-> id, vendor |-> source.vendor, amount |-> amount, due |-> source.due]

\* draft_from_intake
DraftFromIntake(raw) == IF \E f \in DOMAIN raw : raw[f] = None THEN Refused ELSE raw

\* draft_from_file and draft_from_email: a structured source may name its draft.
DraftFromFile(source) ==
  LET id == IF source.format \in Structured /\ source.id # None THEN source.id
            ELSE IF source.format = "email" THEN <<source.path, source.due>> ELSE source.path
      amount == IF source.format \in Structured THEN WholeNumber(source.amount) ELSE ParseMoney(source.amount)
  IN IF source.format \notin Structured \cup {"pdf", "email"} \/ ~source.readable THEN Refused
     ELSE DraftFromIntake(Draft(id, source, amount))

\* The legacy _extract_from_*: only json and csv name their draft.
Extract(source) ==
  LET named == source.format \in {"json", "csv"} /\ source.id # None
  IN DraftFromFile([source EXCEPT !.id = IF named THEN @ ELSE None])

\* extract_drafts: files in the order of their names, unknown suffixes skipped; one bad file refuses all.
ExtractFrom(sources) ==
  LET known == SelectSeq(sources, LAMBDA s : s.format \in Structured \cup {"pdf"})
      drafts == [i \in DOMAIN known |-> Extract(known[i])]
  IN IF \E i \in DOMAIN drafts : drafts[i] = Refused THEN Refused ELSE drafts
=============================================================================
