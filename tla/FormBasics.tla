----------------------------- MODULE FormBasics -----------------------------
(* What the forms of the console share: a row, a field, a check.           *)
EXTENDS Naturals, Sequences

\* A form that creates has no row.
NoHost == [id |-> "none"]

Toggle == {"on", "off"}
Merge(f, g) == [x \in DOMAIN f \cup DOMAIN g |-> IF x \in DOMAIN f THEN f[x] ELSE g[x]]
OrBlank(v) == IF v = "null" THEN "" ELSE v
OrNull(v) == IF v = "" THEN "null" ELSE v

\* Mutant of Check: no check opens a tab.
CheckStays(f, t, bad) == [field |-> f, tab |-> "stay", bad |-> bad]

\* A check of handleSubmit: the field it is about, the tab it opens ("stay"
\* for a field outside the tabs) and whether it fails.
Check(f, t, bad) == [field |-> f, tab |-> t, bad |-> bad]

=============================================================================
