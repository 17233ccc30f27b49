-------------------------------- MODULE Amount --------------------------------
(***************************************************************************)
(* How an amount in the text of a Bancolombia mail becomes the amount of a *)
(* ledger entry: getValueFromText (internal/bank/bancolombia) and the sign *)
(* that registerSingleTrxIntoAccounting gives it.  "This would be way      *)
(* easier if Bancolombia had a consistent use of commas and dots": one     *)
(* expression decides between cents and a last group of thousands.         *)
(*                                                                         *)
(* The mail's expressions yield a text of [0-9,.]+; a character is a digit *)
(* 0..9 or a separator.  Values are in hundredths of a peso.  Entry runs   *)
(* a mail through these operators.                                         *)
(***************************************************************************)
EXTENDS Integers, Sequences

Comma == 10
Dot   == 11
Digit == 0..9
Separator == {Comma, Dot}

NoCents == 100  \* written without cents
NoGroup == 0    \* written without a separator between thousands
Cents == 0..99 \cup {NoCents}
Group == Separator \cup {NoGroup}

-----------------------------------------------------------------------------
(* The code. *)

(* ReplaceAll takes both separators out, ParseFloat reads what is left: the *)
(* number that the digits among the first k characters make.                *)
Number(s, k) ==
  LET upTo[i \in 0..k] ==
        IF i = 0 THEN 0
        ELSE IF s[i] \in Digit THEN 10 * upTo[i - 1] + s[i] ELSE upTo[i - 1]
  IN  upTo[k]

(* Mutant: any digits behind the last separator are decimals. *)
AnyDecimals(s) ==
  /\ Len(s) >= 4
  /\ \E i \in 2..(Len(s) - 1) :
        s[i] \in Separator /\ \A j \in (i + 1)..Len(s) : s[j] \in Digit

(* currencyRegexp: something, a separator, exactly two digits. *)
HasDecimals(s) ==
  /\ Len(s) >= 4
  /\ s[Len(s) - 2] \in Separator
  /\ s[Len(s) - 1] \in Digit /\ s[Len(s)] \in Digit

WithDecimal(s) == 100 * Number(s, Len(s) - 3) + 10 * s[Len(s) - 1] + s[Len(s)]

WithoutDecimal(s) == 100 * Number(s, Len(s))

Value(s) == IF HasDecimals(s) THEN WithDecimal(s) ELSE WithoutDecimal(s)

EntryAmount(s, type) == IF type = "expense" THEN -Value(s) ELSE Value(s)

-----------------------------------------------------------------------------
(* The bank: groups of three digits, a separator between two groups or     *)
(* none, and two more digits behind a separator of any kind, or none.      *)

Hundredths(n, c) == 100 * n + (IF c = NoCents THEN 0 ELSE c)

Three(n) == <<(n \div 100) % 10, (n \div 10) % 10, n % 10>>

First(n) == IF n < 10 THEN <<n>> ELSE IF n < 100 THEN <<n \div 10, n % 10>> ELSE Three(n)

Between(group) == IF group = NoGroup THEN <<>> ELSE <<group>>

Whole(n, group) ==
  LET text[m \in 0..n] ==
        IF m < 1000 THEN First(m) ELSE text[m \div 1000] \o Between(group) \o Three(m % 1000)
  IN  text[n]

AmountText(n, c, group, mark) ==
  Whole(n, group) \o (IF c = NoCents THEN <<>> ELSE <<mark, c \div 10, c % 10>>)

=============================================================================
