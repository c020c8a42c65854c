------------------------------- MODULE Spend -------------------------------
(***************************************************************************)
(* How a dollar figure travels from a kno --json document to the           *)
(* aggregate budget (harness/budget.go).  Amounts are natural numbers of   *)
(* an arbitrary small unit; Cent is the number of units in one cent.       *)
(* A printed figure keeps its marks (the "$" and "<" in front of the       *)
(* digits, in the order they are printed) because the parser's trimming    *)
(* depends on that order; the digits are the amount.                       *)
(***************************************************************************)
EXTENDS Integers, Sequences

CONSTANT Cent

ASSUME CentAssumption == Cent \in Nat \ {0}

\* The text of a figure, and the absence of a spent_usd field.
Figure(marks, amount) == [marks |-> marks, amount |-> amount]
NoFigure == Figure(<<"none">>, 0)

\* strings.TrimPrefix for a one-character prefix.
TrimPrefix(marks, m) ==
  IF marks # <<>> /\ Head(marks) = m THEN Tail(marks) ELSE marks

\* parseUSD: "$" is trimmed first and "<" second, and what is left must be
\* a bare number for strconv.ParseFloat to accept it.
ParseUSD(fig) ==
  LET rest == TrimPrefix(TrimPrefix(fig.marks, "$"), "<")
  IN  [usd |-> IF rest = <<>> THEN fig.amount ELSE 0, err |-> rest # <<>>]

\* parseSpend of a document [json, spent]: "reported nothing" is kept apart
\* from "reported zero" and from "could not be read".
ParseSpend(doc) ==
  IF ~doc.json THEN [usd |-> 0, reported |-> FALSE, err |-> TRUE]
  ELSE IF doc.spent = NoFigure
       THEN [usd |-> 0, reported |-> FALSE, err |-> FALSE]
       ELSE LET v == ParseUSD(doc.spent)
            IN  IF v.err THEN [usd |-> 0, reported |-> FALSE, err |-> TRUE]
                         ELSE [usd |-> v.usd, reported |-> TRUE, err |-> FALSE]

\* External: how kno prints an amount.  Below a cent it prints the bound
\* "<$0.01" (budget.go quotes that form), otherwise "$" and the amount.
KnoFigure(cost) ==
  IF 0 < cost /\ cost < Cent THEN Figure(<<"<", "$">>, Cent)
                             ELSE Figure(<<"$">>, cost)

\* Mutant: the limit is tested before the charge is booked.
AddTestedBefore(b, usd, limit) ==
  [spent   |-> b.spent + usd,
   aborted |-> b.aborted \/ (limit > 0 /\ b.spent > limit)]

\* Budget.Add on [spent, aborted].  A zero limit never fires, and an abort
\* is never taken back.
Add(b, usd, limit) ==
  [spent   |-> b.spent + usd,
   aborted |-> b.aborted \/ (limit > 0 /\ b.spent + usd > limit)]
=============================================================================
