------------------------------ MODULE Extraction ------------------------------
(***************************************************************************)
(* From what the model read in a PDF to a draft policy (app/services/      *)
(* extraction.py).  The providers are external: an extraction is any       *)
(* record of rules and programs in the schema the model is held to.  That  *)
(* schema lets at most one slot of a value be filled, so a value is the    *)
(* tagged value of Catalog.                                                *)
(***************************************************************************)
EXTENDS Catalog, FiniteSetsExt

\* _coerce: bends a value to the shape of the operator, where that is
\* unambiguous.  A boolean in a list is a value no operator accepts.
Coerce(operator, value) ==
    LET shape == IF operator \in Operators THEN Shape(operator) ELSE "unknown"
        single == \/ value.kind = "options" /\ Cardinality(value.is) = 1
                  \/ value.kind = "range" /\ Len(value.is) = 1
    IN  CASE shape = "scalar" /\ single ->
               IF value.kind = "range" THEN Number(value.is[1])
               ELSE Text(CHOOSE s \in value.is : TRUE)
          [] shape = "list" /\ value.kind = "text" -> List({value.is})
          [] shape = "list" /\ value.kind = "number" -> Numbers(<<value.is>>)
          [] shape = "list" /\ value.kind = "boolean" -> [kind |-> "flags", is |-> value.is]
          [] shape = "none" -> Nothing
          [] OTHER -> value

\* _condition and _rule, then to_policy_dict.  An extracted program has no
\* decision mode, so it is automatic.
Condition(c) == [c EXCEPT !.value = Coerce(c.operator, @)]
ToRule(r) == [r EXCEPT !.value = Coerce(r.operator, @),
                       !.alternatives = {Condition(c) : c \in @},
                       !.applies_when = {Condition(c) : c \in @}]
ToProgram(p) == [name |-> p.name, rank |-> p.rank, decision_mode |-> "automatic",
                 applies_when |-> {Condition(c) : c \in p.applies_when},
                 rules |-> {ToRule(r) : r \in p.rules}]

\* Mutants: a rule is dropped without a word; nothing is validated.
DroppedSilently(rules, where) == {}
KeptUnchecked(rules) == {ToRule(x) : x \in rules}
\* build_draft: what the engine rejects is dropped rule by rule, or with its
\* program, and reported under the name of where it stood.
Kept(rules) == {r \in {ToRule(x) : x \in rules} : ValidRule(r)}
Dropped(rules, where) ==
    {<<where, r.label>> : r \in {r \in {ToRule(x) : x \in rules} : ~ValidRule(r)}}
ValidHeader(p) == ValidProgram([p EXCEPT !.rules = {}])

BuildDraft(extracted) ==
    LET raw == {ToProgram(p) : p \in extracted.programs}
        programs == {p \in raw : ValidHeader(p)}
    IN  [rules |-> Kept(extracted.rules),
         programs |-> {[p EXCEPT !.rules = {r \in @ : ValidRule(r)}] : p \in programs},
         dropped |-> Dropped(extracted.rules, "Lender-wide")
                        \cup {<<p.name, "program">> : p \in raw \ programs}
                        \cup UNION {Dropped(p.rules, p.name) :
                                       p \in {p \in extracted.programs :
                                                 ValidHeader(ToProgram(p))}}]
=============================================================================
