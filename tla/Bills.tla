-------------------------------- MODULE Bills --------------------------------
(* The bills agent of cbp/bills_agent.py: drafts, their acceptance by a person   *)
(* or by an approved rule, marks and calendars, over a store child.  Several     *)
(* processes may serve one state file; each read or write of it is a transaction *)
(* of its own, so what one has read another may change.                          *)
EXTENDS Intake, FiniteSetsExt

CONSTANTS Procs, Sources,
          Grants,    \* the store keys a setup may grant, beside RulesKey
          RuleIds, Matchers,  \* rules: an id, and the fields of a draft it asks for
          Windows,   \* the first and last day of a calendar
          Statuses,  \* what a mark may ask for
          RulesKey,
          MaxWrites, MaxDrafts  \* bounds: writes of the state file, drafts under review
BillsConstants ==
  RuleIds \subseteq Nat /\ Windows \subseteq Int \X Int

VARIABLES
  table,    \* the state file: bills by their id, and under RulesKey the list of rules - or a bill,
            \* for nothing keeps a draft from having that id
  proc,     \* per process: has it a store child, the keys that serves, its RuleSet, its directive
  drafts,   \* the drafts that intake answered with
  admitted, \* history: who or what let a bill in
  dirty,    \* history: the keys written since the calendar of a process began
  agenda,   \* the calendar that was just answered, or None
  writes
vars == <<table, proc, drafts, admitted, dirty, agenda, writes>>

ALLOWED_STATUSES == {"open", "paid", "void", "overdue"}
Overlay(f, g) == [x \in DOMAIN f \cup DOMAIN g |-> IF x \in DOMAIN g THEN g[x] ELSE f[x]]
Only(x, v) == [y \in {x} |-> v]

Init ==
  /\ table = <<>> /\ drafts = {} /\ admitted = {} /\ dirty = [a \in Procs |-> {}] /\ agenda = None /\ writes = 0
  /\ proc = [a \in Procs |-> [store |-> FALSE, keys |-> {}, rules |-> <<>>, op |-> None]]

\* isinstance(value, list), isinstance(value, dict).
RuleList(rules) == [list |-> rules]
IsList(value) == "list" \in DOMAIN value
Registry == {k \in DOMAIN table : ~IsList(table[k])}

Idle(a) == proc[a].op = None
Serves(a, key) == proc[a].store /\ key \in proc[a].keys
Starts(a, op) == proc' = [proc EXCEPT ![a].op = op]
Ends(a) == Starts(a, None)
\* The store child's store_set.
Put(key, value) ==
  /\ writes < MaxWrites /\ writes' = writes + 1
  /\ table' = Overlay(table, Only(key, value)) /\ dirty' = [b \in Procs |-> dirty[b] \cup {key}]
NoPut == UNCHANGED <<table, dirty, writes>>
Forget == agenda' = None

\* bills_setup: spawn the store child once, configure it each time.
Setup(a, keys) ==
  /\ Idle(a) /\ proc' = [proc EXCEPT ![a].store = TRUE, ![a].keys = keys \cup {RulesKey}]
  /\ NoPut /\ Forget /\ UNCHANGED <<drafts, admitted>>

\* A rule given with configure stays in memory.
ConfigureRule(a, id, matcher) ==
  /\ Idle(a) /\ proc' = [proc EXCEPT ![a].rules = Overlay(@, Only(id, matcher))]
  /\ NoPut /\ Forget /\ UNCHANGED <<drafts, admitted>>

\* accept_draft
Bill(d) == [vendor |-> d.vendor, amount |-> d.amount, due |-> d.due, status |-> "open"]

IntakeAccepting(a, source) ==
  LET d == DraftFromFile(source)
  IN /\ Idle(a) /\ d # Refused /\ Cardinality(drafts \cup {d}) <= MaxDrafts /\ drafts' = drafts \cup {d}
     /\ IF Serves(a, d.id) THEN Put(d.id, Bill(d)) ELSE NoPut
     /\ Forget /\ UNCHANGED <<proc, admitted>>
\* bills_intake and its kinds: a draft, or an error.
IntakeDraft(a, source) ==
  LET d == DraftFromFile(source)
  IN /\ Idle(a) /\ d # Refused /\ Cardinality(drafts \cup {d}) <= MaxDrafts /\ drafts' = drafts \cup {d}
     /\ NoPut /\ Forget /\ UNCHANGED <<proc, admitted>>

\* bills_accept: the draft a person accepts replaces whatever has its id, the rules too.
Accept(a, d) ==
  /\ Idle(a) /\ Serves(a, d.id) /\ Put(d.id, Bill(d))
  /\ admitted' = admitted \cup {[draft |-> d, rule |-> None]}
  /\ Forget /\ UNCHANGED <<proc, drafts>>

\* bills_accept_deterministic: the stored rules over those in memory, the first that matches.
Stored == IF RulesKey \in DOMAIN table \ Registry THEN table[RulesKey].list ELSE <<>>
LoadRules(a) == Overlay(proc[a].rules, IF Serves(a, RulesKey) THEN Stored ELSE <<>>)
Matching(rules, d) == {id \in DOMAIN rules : \A f \in DOMAIN rules[id] : d[f] = rules[id][f]}
BeginAuto(a, d) ==
  LET rules == LoadRules(a) matching == Matching(rules, d)
      op == [kind |-> "auto", draft |-> d, stored |-> Stored, rule |-> <<Min(matching), rules[Min(matching)]>>]
  IN /\ Idle(a) /\ proc' = [proc EXCEPT ![a].rules = rules, ![a].op = IF matching = {} \/ ~Serves(a, d.id) THEN None ELSE op]
     /\ NoPut /\ Forget /\ UNCHANGED <<drafts, admitted>>
EndAuto(a) ==
  /\ ~Idle(a) /\ proc[a].op.kind = "auto"
  /\ LET op == proc[a].op
     IN Put(op.draft.id, Bill(op.draft))
        /\ admitted' = admitted \cup {[draft |-> op.draft, rule |-> op.rule, stored |-> op.stored]}
  /\ Ends(a) /\ Forget /\ UNCHANGED drafts

\* bills_rule_add: read the rules, write them with this one.
BeginRuleAdd(a, id, matcher) ==
  /\ Idle(a) /\ Serves(a, RulesKey)
  /\ Starts(a, [kind |-> "rule", rid |-> id, rules |-> Overlay(Stored, Only(id, matcher))])
  /\ NoPut /\ Forget /\ UNCHANGED <<drafts, admitted>>
EndRuleAdd(a) ==
  /\ ~Idle(a) /\ proc[a].op.kind = "rule"
  /\ LET op == proc[a].op
     IN Put(RulesKey, RuleList(op.rules))
        /\ proc' = [proc EXCEPT ![a].op = None, ![a].rules = Overlay(@, Only(op.rid, op.rules[op.rid]))]
  /\ Forget /\ UNCHANGED <<drafts, admitted>>

\* bills_mark_paid, bills_mark_status: read the bill, write it with the status.
BeginMark(a, id, status) ==
  /\ Idle(a) /\ Serves(a, id) /\ id \in Registry /\ status \in ALLOWED_STATUSES
  /\ Starts(a, [kind |-> "mark", id |-> id, bill |-> [table[id] EXCEPT !.status = status]])
  /\ NoPut /\ Forget /\ UNCHANGED <<drafts, admitted>>
EndMark(a) ==
  /\ ~Idle(a) /\ proc[a].op.kind = "mark" /\ Put(proc[a].op.id, proc[a].op.bill)
  /\ Ends(a) /\ Forget /\ UNCHANGED <<drafts, admitted>>

\* bills_calendar: the keys, each of them if it is a bill, and the open bills of the window.
BeginCalendar(a, from, to) ==
  /\ Idle(a) /\ proc[a].store
  /\ Starts(a, [kind |-> "calendar", from |-> from, to |-> to, registry |-> <<>>,
                todo |-> {k \in DOMAIN table : Serves(a, k)}])
  /\ dirty' = [dirty EXCEPT ![a] = {}]
  /\ Forget /\ UNCHANGED <<table, drafts, admitted, writes>>
ReadBill(a) ==
  /\ ~Idle(a) /\ proc[a].op.kind = "calendar" /\ proc[a].op.todo # {}
  /\ \E k \in proc[a].op.todo :
       Starts(a, [proc[a].op EXCEPT !.todo = @ \ {k},
                    !.registry = IF IsList(table[k]) THEN @ ELSE Overlay(@, Only(k, table[k]))])
  /\ NoPut /\ Forget /\ UNCHANGED <<drafts, admitted>>
InWindow(registry, from, to) == {k \in DOMAIN registry : registry[k].status = "open" /\ from <= registry[k].due /\ registry[k].due <= to}
TotalOf(entries) == FoldSet(LAMBDA k, sum : sum + entries[k].amount, 0, DOMAIN entries)
ProjectCalendar(registry, from, to) ==
  LET entries == [k \in InWindow(registry, from, to) |-> [due |-> registry[k].due, amount |-> registry[k].amount]]
  IN [entries |-> entries, total |-> TotalOf(entries)]
EndCalendar(a) ==
  /\ ~Idle(a) /\ proc[a].op.kind = "calendar" /\ proc[a].op.todo = {}
  /\ LET op == proc[a].op
     IN agenda' = [by |-> a, from |-> op.from, to |-> op.to, shown |-> ProjectCalendar(op.registry, op.from, op.to)]
  /\ Ends(a) /\ NoPut /\ UNCHANGED <<drafts, admitted>>

\* A process ends at any moment; the state file stays.
Restart(a) ==
  /\ proc[a] # [store |-> FALSE, keys |-> {}, rules |-> <<>>, op |-> None]
  /\ proc' = [proc EXCEPT ![a] = [store |-> FALSE, keys |-> {}, rules |-> <<>>, op |-> None]]
  /\ NoPut /\ Forget /\ UNCHANGED <<drafts, admitted>>

Next ==
  \E a \in Procs :
    \/ \E keys \in Grants : Setup(a, keys)
    \/ \E id \in RuleIds, m \in Matchers : ConfigureRule(a, id, m) \/ BeginRuleAdd(a, id, m)
    \/ \E s \in Sources : IntakeDraft(a, s)
    \/ \E d \in drafts : Accept(a, d) \/ BeginAuto(a, d)
    \/ EndAuto(a) \/ EndRuleAdd(a) \/ EndMark(a)
    \/ \E id \in Registry, status \in Statuses : BeginMark(a, id, status)
    \/ \E window \in Windows : BeginCalendar(a, window[1], window[2])
    \/ ReadBill(a) \/ EndCalendar(a) \/ Restart(a)
Spec == Init /\ [][Next]_vars

-----------------------------------------------------------------------------
(* Properties *)

\* A deterministic acceptance goes back to a rule that matches the draft, and that is, if the state
\* file has a rule of that id, the one it has: a replaced rule lets nothing in any more.
RuleBehindAuto(m) ==
  m.rule # None =>
    /\ \A f \in DOMAIN m.rule[2] : m.draft[f] = m.rule[2][f]
    /\ m.rule[1] \in DOMAIN m.stored => m.rule[2] = m.stored[m.rule[1]]

\* Nothing accepts itself: every bill of the registry has the vendor, amount and date of a draft
\* with its id that a person or a current rule let in, whatever two processes read and wrote meanwhile.
OnlyAccepted ==
  /\ \A k \in Registry :
       \E m \in admitted : m.draft = [id |-> k, vendor |-> table[k].vendor, amount |-> table[k].amount, due |-> table[k].due]
  /\ \A m \in admitted : RuleBehindAuto(m)

\* A calendar read key by key shows every open bill of its window, both days included, that stayed
\* as it is from its beginning to its end.
CalendarComplete ==
  agenda # None =>
    \A k \in Registry \ dirty[agenda.by] :
      Serves(agenda.by, k) /\ table[k].status = "open" /\ table[k].due \in agenda.from..agenda.to
        => /\ k \in DOMAIN agenda.shown.entries
           /\ agenda.shown.entries[k] = [due |-> table[k].due, amount |-> table[k].amount]
=============================================================================
