-------------------------------- MODULE Entry --------------------------------
(***************************************************************************)
(* What becomes of the data of one bank mail.  Its amount is read from the *)
(* text (Amount); registerSingleTrxIntoAccounting (internal/sync/          *)
(* accounting.go) looks for its account in a map that getAccountsMapping   *)
(* builds from the names of the user's accounts, in the ledger's order,    *)
(* and from the user's own mapping, in the order in which Go ranges over a *)
(* map; the entry carries amount, account and a date.  If anything fails,  *)
(* saveLastExecutionDate stores a date (Calendar) from which the next run  *)
(* must find the mail again.                                               *)
(***************************************************************************)
EXTENDS Amount, Calendar

CONSTANTS
  Name,     \* what a mail may call an account: a number or a word
  Cases,    \* the mails, users and zones to look at, see Case
  Elapsed   \* seconds from a mail's arrival to the end of a run

(* A user has the accounts in the ledger's order, each with the numbers its *)
(* name starts with, and a mapping from names to numbers.                  *)
IsUser(u) ==
  /\ u.accounts \in Seq(SUBSET Name)
  /\ DOMAIN u.mapping \subseteq Name /\ \A k \in DOMAIN u.mapping : u.mapping[k] \in Name

(* An amount is written by the bank: pesos, and cents or none (Amount). The *)
(* expression that matches the mail says whether it is income or expense.   *)
IsAmount(c) ==
  /\ c.pesos \in Nat /\ c.cents \in Cents /\ c.group \in Group /\ c.mark \in Separator
  /\ c.type \in {"income", "expense"}

IsCase(c) ==
  /\ IsAmount(c) /\ c.account \in Name /\ c.sent \in Time /\ c.received \in Time
  /\ c.hostZone \in Zone /\ c.timeLocale \in Zone /\ IsUser(c.user)

ASSUME EntryAssumption == (\A c \in Cases : IsCase(c)) /\ Elapsed \subseteq Nat

VARIABLES
  case,
  pc,       \* "parse", "accounts", "names", "enter", then what came of it
  next,     \* the account to be looked at next
  names,    \* keys of the user's mapping not looked at yet
  mapping,  \* per name the position of its account, 0 if it has none
  amount,
  entry,
  stored    \* the date a failed mail leaves behind

vars == <<case, pc, next, names, mapping, amount, entry, stored>>

user == case.user

Nothing == <<>>

Init ==
  /\ case \in Cases /\ pc = "parse"
  /\ next = 1 /\ names = DOMAIN user.mapping
  /\ mapping = [n \in Name |-> 0]
  /\ amount = Nothing /\ entry = Nothing /\ stored = Nothing

-----------------------------------------------------------------------------
Parse ==
  /\ pc = "parse"
  /\ amount' = <<EntryAmount(AmountText(case.pesos, case.cents, case.group, case.mark), case.type)>>
  /\ pc' = "accounts"
  /\ UNCHANGED <<case, next, names, mapping, entry, stored>>

(* A number in the name of two accounts is that of the last one. *)
MapNumbers ==
  /\ pc = "accounts"
  /\ \/ /\ next <= Len(user.accounts)
        /\ mapping' = [n \in Name |-> IF n \in user.accounts[next] THEN next ELSE mapping[n]]
        /\ next' = next + 1
        /\ UNCHANGED pc
     \/ /\ next > Len(user.accounts)
        /\ pc' = "names"
        /\ UNCHANGED <<mapping, next>>
  /\ UNCHANGED <<case, names, amount, entry, stored>>

(* Mutant: the user's mapping does not override a number. *)
MapsFree(k) == mapping[user.mapping[k]] # 0 /\ mapping[k] = 0
MapsTo(k) == mapping[user.mapping[k]] # 0

MapName(k) ==
  /\ pc = "names" /\ k \in names
  /\ mapping' = IF MapsTo(k) THEN [mapping EXCEPT ![k] = mapping[user.mapping[k]]] ELSE mapping
  /\ names' = names \ {k}
  /\ UNCHANGED <<case, pc, next, amount, entry, stored>>

(* The entry is created, or the transaction has failed for want of an      *)
(* account or for one of many other reasons.                               *)
Enter ==
  /\ pc = "names" /\ names = {} /\ mapping[case.account] # 0
  /\ entry' = [amount |-> amount[1], account |-> mapping[case.account],
               date |-> DateOf(In(case.sent, case.timeLocale))]
  /\ pc' = "entered"
  /\ UNCHANGED <<case, next, names, mapping, amount, stored>>

Fail ==
  /\ pc \in {"accounts", "names"}
  /\ pc' = "failed"
  /\ UNCHANGED <<case, next, names, mapping, amount, entry, stored>>

(* saveLastExecutionDate: the mail's own date unless that is still to come. *)
Save ==
  /\ pc = "failed"
  /\ \E d \in Elapsed :
       LET now == [at |-> case.received.at + d, zone |-> case.hostZone]
       IN  stored' = <<Stored(IF case.sent.at < now.at THEN case.sent ELSE now)>>
  /\ pc' = "saved"
  /\ UNCHANGED <<case, next, names, mapping, amount, entry>>

Search ==
  /\ pc = "saved"
  /\ pc' = IF Matches(Since(stored[1]), case.received) THEN "foundAgain" ELSE "lost"
  /\ UNCHANGED <<case, next, names, mapping, amount, entry, stored>>

Next ==
  \/ Parse \/ MapNumbers \/ (\E k \in names : MapName(k))
  \/ Enter \/ Fail \/ Save \/ Search

Spec == Init /\ [][Next]_vars

-----------------------------------------------------------------------------
(* Properties. *)

(* What the bank has written, in hundredths. *)
Written ==
  IF case.type = "expense" THEN -Hundredths(case.pesos, case.cents)
  ELSE Hundredths(case.pesos, case.cents)

(* Whatever mix of commas and dots an amount is written with, with two      *)
(* decimals or none, the entry is over that amount, with its sign.  The     *)
(* unit test has one style per mail; "100,000" and "100,00" differ in       *)
(* nothing but a digit.                                                     *)
AmountIsRead == pc = "entered" => entry.amount = Written

(* Account a is the last of the first k that has number n; 0 if none has. *)
IsLast(n, k, a) ==
  /\ a \in 0..k
  /\ a # 0 => n \in user.accounts[a]
  /\ \A j \in (a + 1)..k : n \notin user.accounts[j]

(* No name is mapped to one that is mapped itself. *)
Unchained == \A k \in DOMAIN user.mapping : user.mapping[k] \notin DOMAIN user.mapping

Numbered(a, n) == IsLast(n, Len(user.accounts), a)

Configured(a, n) ==
  \/ n \in DOMAIN user.mapping /\ a # 0 /\ Numbered(a, user.mapping[n])
  \/ Numbered(a, n) /\ (n \in DOMAIN user.mapping => Numbered(0, user.mapping[n]))

(* Whoever follows the mapping from name n may come to name r. *)
LeadsTo(n, r) ==
  \A S \in SUBSET Name :
    n \in S /\ (\A k \in S \cap DOMAIN user.mapping : user.mapping[k] \in S) => r \in S

Led(a, n) == \E r \in Name : LeadsTo(n, r) /\ Numbered(a, r)

(* The account of an entry is the one the user configured: where the mail's *)
(* name is mapped to a number of an account, that account, otherwise the    *)
(* one with the number, in whatever order Go ranges over the mapping.  When *)
(* names are mapped to names that are mapped themselves, the outcome        *)
(* depends on the order, but it is always an account that the mapping leads *)
(* to from the mail's name, never one of another name.                      *)
AccountIsConfigured ==
  pc = "entered" => /\ Led(entry.account, case.account)
                    /\ Unchained => Configured(entry.account, case.account)

(* How far the mail's date, in a zone, may run ahead of the server's. *)
InReach(zone) ==
  case.sent.at + zone <= case.received.at + case.received.zone + DayLen

(* A mail that failed is found by the next search, although the date left   *)
(* for it is the sender's, cut to minutes, shifted by a day, and compared   *)
(* as a day of the sender's calendar with one of the server's: the day of   *)
(* grace has to cover both the sender's clock and the zones.                *)
FailedIsFoundAgain ==
  InReach(case.sent.zone) /\ InReach(case.hostZone) => pc # "lost"

-----------------------------------------------------------------------------
(* The inductive invariant behind the three. *)

TypeOK ==
  /\ case \in Cases
  /\ pc \in {"parse", "accounts", "names", "entered", "failed", "saved", "foundAgain", "lost"}
  /\ next \in 1..(Len(user.accounts) + 1)
  /\ names \subseteq DOMAIN user.mapping
  /\ mapping \in [Name -> 0..Len(user.accounts)]

(* What the text says, once it is read. *)
AmountSoFar == pc # "parse" => amount = <<Written>>

(* While the accounts are gone through, each name has the last so far. *)
AccountsSoFar ==
  pc \in {"parse", "accounts"} =>
    names = DOMAIN user.mapping /\ \A n \in Name : IsLast(n, next - 1, mapping[n])

(* While the mapping is gone through, each name has an account it leads to. *)
NamesLed == pc = "names" => \A n \in Name : Led(mapping[n], n)

(* Without chains, a name still to come has its own number's. *)
NamesSoFar ==
  pc = "names" /\ Unchained =>
    \A n \in Name : IF n \in names THEN Numbered(mapping[n], n) ELSE Configured(mapping[n], n)

(* The stored date is one no later than the mail's, in one of two zones. *)
StoredForMail ==
  pc = "saved" =>
    \E e \in Time : /\ stored = <<Stored(e)>> /\ e.at <= case.sent.at
                    /\ e.zone \in {case.sent.zone, case.hostZone}

EntryInv ==
  /\ TypeOK /\ AmountSoFar /\ AccountsSoFar /\ NamesLed /\ NamesSoFar /\ StoredForMail
  /\ AmountIsRead /\ AccountIsConfigured /\ FailedIsFoundAgain
=============================================================================
