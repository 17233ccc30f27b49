----------------------------- MODULE Entry_proofs -----------------------------
(***************************************************************************)
(* Proofs about Entry: the amount of an entry is the one the bank wrote,   *)
(* its account does not depend on the order of a map, and the date stored  *)
(* for a failed mail is one from which the next search finds it, for every *)
(* amount, user, zone, clock and date.                                     *)
(***************************************************************************)
EXTENDS Entry, Amount_proofs

(* A time is made of whole seconds. *)
LEMMA TimeIsInt ==
  ASSUME NEW t \in Time PROVE t.at \in Int /\ t.zone \in Int
<1>1. Zone \subseteq Int
  BY DEF Zone
<1>2. t.at \in Int /\ t.zone \in Zone
  BY DEF Time
<1> QED
  BY <1>1, <1>2

(* A search that starts a day before a stored date finds every mail that    *)
(* came when the date's calendar day, less one, was not yet over on the     *)
(* server: Format, Parse, Add and SINCE of dateprocessingserv and mailserv. *)
LEMMA SearchReaches ==
  ASSUME NEW e \in Time, NEW s \in Int, NEW r \in Time,
         e.at <= s, s + e.zone <= r.at + r.zone + DayLen
  PROVE  Matches(Since(Stored(e)), r)
<1>1. e.at \in Int /\ r.at \in Int /\ e.zone \in Int /\ r.zone \in Int
  BY TimeIsInt
<1> DEFINE x == 60 * (e.at \div 60) - 86400 + e.zone
           y == r.at + r.zone
<1>2. x \in Int /\ y \in Int
  BY <1>1
<1>3. 60 * (e.at \div 60) <= e.at
  BY <1>1
<1>4. x <= y
  BY <1>1, <1>3 DEF DayLen
<1> HIDE DEF x, y
<1>5. x \div 86400 <= y \div 86400
  BY <1>2, <1>4
<1>6. DateOf(Since(Stored(e))) = x \div 86400 /\ DateOf(r) = y \div 86400
  BY DEF DateOf, Since, Stored, Minute, DayLen, OneDayBefore, x, y
<1> QED
  BY <1>1, <1>2, <1>5, <1>6 DEF Matches

(* What the assumption on the cases gives about the case at hand. *)
LEMMA CaseFacts ==
  ASSUME TypeOK
  PROVE  /\ IsAmount(case) /\ case.account \in Name /\ case.sent \in Time /\ case.received \in Time
         /\ case.hostZone \in Zone
         /\ user.accounts \in Seq(SUBSET Name)
         /\ DOMAIN user.mapping \subseteq Name
         /\ \A k \in DOMAIN user.mapping : user.mapping[k] \in Name
BY EntryAssumption DEF TypeOK, IsCase, IsUser, user

(* getValueFromText, and the sign of an expense. *)
LEMMA AmountOfText ==
  ASSUME TypeOK
  PROVE  EntryAmount(AmountText(case.pesos, case.cents, case.group, case.mark), case.type) = Written
<1> DEFINE text == AmountText(case.pesos, case.cents, case.group, case.mark)
           sum == Hundredths(case.pesos, case.cents)
<1>1. /\ case.pesos \in Nat /\ case.cents \in Cents
      /\ case.group \in Group /\ case.mark \in Separator
  BY CaseFacts DEF IsAmount
<1>2. Value(text) = sum
  BY <1>1, ValueIsWritten
<1>3. Written = IF case.type = "expense" THEN -sum ELSE sum
  BY DEF Written
<1>4. EntryAmount(text, case.type) = IF case.type = "expense" THEN -Value(text) ELSE Value(text)
  BY DEF EntryAmount
<1> HIDE DEF text, sum
<1>5. EntryAmount(text, case.type) = Written
  BY <1>2, <1>3, <1>4
<1> QED
  BY <1>5 DEF text

(* One more account: a name in it has it, the others keep theirs. *)
LEMMA NextAccount ==
  ASSUME TypeOK, NEW n \in Name, next <= Len(user.accounts),
         IsLast(n, next - 1, mapping[n])
  PROVE  IsLast(n, next, IF n \in user.accounts[next] THEN next ELSE mapping[n])
<1>1. Len(user.accounts) \in Nat
  BY CaseFacts
<1>2. next \in Nat /\ mapping[n] \in Nat
  BY <1>1 DEF TypeOK
<1> QED
  BY <1>1, <1>2 DEF IsLast

(* A name leads to itself, and to whatever the name it is mapped to does. *)
LEMMA LeadsFrom ==
  /\ \A n \in Name : LeadsTo(n, n)
  /\ \A k \in DOMAIN user.mapping, r \in Name : LeadsTo(user.mapping[k], r) => LeadsTo(k, r)
BY DEF LeadsTo

THEOREM InitEntryInv == Init => EntryInv
<1> SUFFICES ASSUME Init PROVE EntryInv
  OBVIOUS
<1>1. user.accounts \in Seq(SUBSET Name) /\ DOMAIN user.mapping \subseteq Name
  BY EntryAssumption DEF Init, IsCase, IsUser, user
<1>2. Len(user.accounts) \in Nat
  BY <1>1
<1>3. TypeOK
  BY <1>1, <1>2 DEF Init, TypeOK
<1>4. AccountsSoFar /\ AmountSoFar /\ AmountIsRead
  BY <1>2 DEF Init, AmountSoFar, AmountIsRead, AccountsSoFar, IsLast
<1>5. NamesLed /\ NamesSoFar /\ StoredForMail /\ AccountIsConfigured /\ FailedIsFoundAgain
  BY DEF Init, NamesLed, NamesSoFar, StoredForMail, AccountIsConfigured, FailedIsFoundAgain
<1> QED
  BY <1>3, <1>4, <1>5 DEF EntryInv

(* A step keeps the account found so far for every name. *)
LEMMA NextEntryInv == EntryInv /\ [Next]_vars => EntryInv'
<1> SUFFICES ASSUME EntryInv, [Next]_vars PROVE EntryInv'
  OBVIOUS
<1>u. Len(user.accounts) \in Nat
  BY CaseFacts DEF EntryInv
<1>a. AmountSoFar' /\ AmountIsRead'
  <2>1. CASE UNCHANGED vars
    BY <2>1 DEF EntryInv, AmountSoFar, AmountIsRead, Written, vars
  <2>2. CASE Parse
    <3>1. amount' = <<Written>> /\ case' = case /\ pc' = "accounts"
      BY <2>2, AmountOfText DEF Parse, EntryInv
    <3> QED
      BY <3>1 DEF AmountSoFar, AmountIsRead, Written
  <2>3. CASE Enter
    <3>1. case' = case /\ amount' = amount /\ amount = <<Written>> /\ entry'.amount = amount[1]
      BY <2>3 DEF Enter, EntryInv, AmountSoFar
    <3> QED
      BY <3>1 DEF AmountSoFar, AmountIsRead, Written
  <2>4. CASE MapNumbers \/ (\E k \in names : MapName(k)) \/ Fail \/ Save \/ Search
    <3>1. /\ case' = case /\ amount' = amount /\ pc # "parse" /\ pc' # "entered"
          /\ amount = <<Written>>
      BY <2>4 DEF MapNumbers, MapName, Fail, Save, Search, EntryInv, AmountSoFar
    <3> QED
      BY <3>1 DEF AmountSoFar, AmountIsRead, Written
  <2> QED
    BY <2>1, <2>2, <2>3, <2>4 DEF Next
<1>1. CASE UNCHANGED vars
  <2>1. TypeOK'
    BY <1>1 DEF EntryInv, TypeOK, vars, user
  <2>2. AccountsSoFar' /\ NamesSoFar'
    BY <1>1 DEF EntryInv, AccountsSoFar, NamesSoFar, vars, user, IsLast, Unchained, Numbered,
       Configured
  <2>5. NamesLed'
    BY <1>1 DEF EntryInv, NamesLed, vars, user, IsLast, Numbered, Led, LeadsTo
  <2>3. StoredForMail' /\ FailedIsFoundAgain'
    BY <1>1 DEF EntryInv, StoredForMail, FailedIsFoundAgain, vars, InReach
  <2>4. AccountIsConfigured'
    BY <1>1
    DEF EntryInv, AccountIsConfigured, vars, user, IsLast, Unchained, Numbered, Configured,
        Led, LeadsTo
  <2> QED
    BY <1>a, <2>1, <2>2, <2>3, <2>4, <2>5 DEF EntryInv
<1>2. CASE Parse
  <2>1. TypeOK'
    BY <1>2 DEF EntryInv, Parse, TypeOK, user
  <2>2. AccountsSoFar'
    BY <1>2 DEF EntryInv, Parse, AccountsSoFar, IsLast, user
  <2>3. pc' = "accounts"
    BY <1>2 DEF Parse
  <2> QED
    BY <1>a, <2>1, <2>2, <2>3
    DEF EntryInv, NamesLed, NamesSoFar, StoredForMail, AccountIsConfigured, FailedIsFoundAgain
<1>3. CASE MapNumbers
  <2>0. case' = case /\ names' = names /\ names = DOMAIN user.mapping
    BY <1>3 DEF EntryInv, MapNumbers, AccountsSoFar
  <2>1. CASE next <= Len(user.accounts)
    <3>1. /\ mapping' = [n \in Name |-> IF n \in user.accounts[next] THEN next ELSE mapping[n]]
          /\ next' = next + 1 /\ pc' = "accounts" /\ next \in Nat \ {0}
      BY <1>3, <1>u, <2>1 DEF MapNumbers, EntryInv, TypeOK
    <3>2. ASSUME NEW n \in Name PROVE IsLast(n, next, mapping'[n])
      BY <1>3, <2>1, <3>1, NextAccount DEF MapNumbers, EntryInv, AccountsSoFar
    <3>3. ASSUME NEW n \in Name PROVE mapping'[n] \in 0..Len(user.accounts)
      BY <3>1, <2>1, <1>u DEF EntryInv, TypeOK
    <3>4. AccountsSoFar'
      <4>1. next' - 1 = next
        BY <3>1
      <4> QED
        BY <3>2, <2>0, <4>1 DEF AccountsSoFar, IsLast, user
    <3>5. TypeOK'
      <4>1. next' \in 1..(Len(user.accounts) + 1)
        BY <3>1, <2>1, <1>u
      <4>2. mapping' \in [Name -> 0..Len(user.accounts)]
        BY <3>1, <3>3
      <4> QED
        BY <2>0, <3>1, <4>1, <4>2 DEF EntryInv, TypeOK, user
    <3> QED
      BY <1>a, <3>1, <3>4, <3>5
      DEF EntryInv, NamesLed, NamesSoFar, StoredForMail, AccountIsConfigured, FailedIsFoundAgain
  <2>2. CASE next > Len(user.accounts)
    <3>1. pc' = "names" /\ mapping' = mapping /\ next' = next
      BY <1>3, <1>u, <2>2 DEF MapNumbers, EntryInv, TypeOK
    <3>2. next - 1 = Len(user.accounts)
      BY <1>u, <2>2 DEF EntryInv, TypeOK
    <3>3. \A n \in Name : Numbered(mapping[n], n)
      BY <1>3, <3>2 DEF MapNumbers, EntryInv, AccountsSoFar, Numbered
    <3>4. NamesSoFar'
      BY <2>0, <3>1, <3>3 DEF NamesSoFar, Numbered, Configured, IsLast, user
    <3>6. NamesLed'
      <4>1. \A n \in Name : Led(mapping[n], n)
        BY <3>3, LeadsFrom DEF Led
      <4> QED
        BY <2>0, <3>1, <4>1 DEF NamesLed, Led, LeadsTo, Numbered, IsLast, user
    <3>5. TypeOK'
      BY <2>0, <3>1 DEF EntryInv, TypeOK, user
    <3> QED
      BY <1>a, <3>1, <3>4, <3>5, <3>6
      DEF EntryInv, AccountsSoFar, StoredForMail, AccountIsConfigured, FailedIsFoundAgain
  <2> QED
    BY <1>u, <2>1, <2>2 DEF EntryInv, TypeOK
<1>4. ASSUME NEW k \in names, MapName(k) PROVE EntryInv'
  <2>0. case' = case /\ pc = "names" /\ pc' = "names" /\ next' = next /\ names' = names \ {k}
    BY <1>4 DEF MapName
  <2>1. k \in DOMAIN user.mapping /\ k \in Name /\ user.mapping[k] \in Name
    BY CaseFacts DEF EntryInv, TypeOK
  <2>2. mapping' = [mapping EXCEPT ![k] = IF MapsTo(k) THEN mapping[user.mapping[k]] ELSE @]
    BY <1>4 DEF MapName, EntryInv, TypeOK
  <2>3. TypeOK'
    BY <2>0, <2>1, <2>2 DEF EntryInv, TypeOK, user
  <2>4. ASSUME Unchained PROVE Configured(mapping'[k], k)
    <3>1. user.mapping[k] \notin names /\ user.mapping[k] \notin DOMAIN user.mapping
      BY <2>1, <2>4 DEF Unchained, EntryInv, TypeOK
    <3>2. Configured(mapping[user.mapping[k]], user.mapping[k])
      BY <2>0, <2>1, <2>4, <3>1 DEF EntryInv, NamesSoFar
    <3>3. Numbered(mapping[user.mapping[k]], user.mapping[k])
      BY <3>1, <3>2 DEF Configured
    <3>4. Numbered(mapping[k], k)
      BY <2>0, <2>1, <2>4 DEF EntryInv, NamesSoFar
    <3>5. CASE MapsTo(k)
      BY <2>1, <2>2, <3>3, <3>5 DEF Configured, MapsTo, EntryInv, TypeOK
    <3>6. CASE ~MapsTo(k)
      BY <2>1, <2>2, <3>3, <3>4, <3>6 DEF Configured, MapsTo, EntryInv, TypeOK
    <3> QED
      BY <3>5, <3>6
  <2>5. ASSUME Unchained, NEW n \in Name
        PROVE  IF n \in names' THEN Numbered(mapping'[n], n) ELSE Configured(mapping'[n], n)
    <3>1. CASE n = k
      BY <2>0, <2>4, <2>5, <3>1
    <3>2. CASE n # k
      <4>1. mapping'[n] = mapping[n] /\ (n \in names' <=> n \in names)
        BY <2>0, <2>2, <3>2 DEF EntryInv, TypeOK
      <4> QED
        BY <2>0, <2>5, <4>1 DEF EntryInv, NamesSoFar
    <3> QED
      BY <3>1, <3>2
  <2>6. NamesSoFar'
    BY <2>0, <2>5 DEF NamesSoFar, Unchained, Numbered, Configured, IsLast, user
  <2>7. NamesLed'
    <3>1. Led(mapping[user.mapping[k]], k)
      BY <2>0, <2>1, LeadsFrom DEF EntryInv, NamesLed, Led
    <3>2. \A n \in Name : Led(mapping'[n], n)
      BY <2>0, <2>2, <3>1 DEF EntryInv, TypeOK, NamesLed
    <3> QED
      BY <2>0, <3>2 DEF NamesLed, Led, LeadsTo, Numbered, IsLast, user
  <2> QED
    BY <1>a, <2>0, <2>3, <2>6, <2>7
    DEF EntryInv, AccountsSoFar, StoredForMail, AccountIsConfigured, FailedIsFoundAgain
<1>5. CASE Enter
  <2>1. TypeOK'
    BY <1>5 DEF EntryInv, Enter, TypeOK, user
  <2>2. entry'.account = mapping[case.account] /\ pc' = "entered" /\ case' = case
    BY <1>5 DEF Enter
  <2>3. case.account \in Name
    BY CaseFacts DEF EntryInv
  <2>4. Unchained => Configured(mapping[case.account], case.account)
    BY <1>5, <2>3 DEF EntryInv, NamesSoFar, Enter
  <2>6. Led(mapping[case.account], case.account)
    BY <1>5, <2>3 DEF EntryInv, NamesLed, Enter
  <2>5. AccountIsConfigured'
    BY <2>2, <2>4, <2>6
    DEF AccountIsConfigured, Unchained, Numbered, Configured, IsLast, user, Led, LeadsTo
  <2> QED
    BY <1>a, <2>1, <2>2, <2>5
    DEF EntryInv, AccountsSoFar, NamesLed, NamesSoFar, StoredForMail, FailedIsFoundAgain
<1>6. CASE Fail
  <2>1. TypeOK' /\ pc' = "failed"
    BY <1>6 DEF EntryInv, Fail, TypeOK, user
  <2> QED
    BY <1>a, <2>1 DEF EntryInv, AccountsSoFar, NamesLed, NamesSoFar, StoredForMail, AccountIsConfigured,
       FailedIsFoundAgain
<1>7. CASE Save
  <2>1. TypeOK' /\ pc' = "saved" /\ case' = case
    BY <1>7 DEF EntryInv, Save, TypeOK, user
  <2>2. StoredForMail'
    <3>1. PICK d \in Elapsed :
            LET now == [at |-> case.received.at + d, zone |-> case.hostZone]
            IN  stored' = <<Stored(IF case.sent.at < now.at THEN case.sent ELSE now)>>
      BY <1>7 DEF Save
    <3> DEFINE now == [at |-> case.received.at + d, zone |-> case.hostZone]
               e == IF case.sent.at < now.at THEN case.sent ELSE now
    <3>2. case.sent \in Time /\ case.received \in Time /\ case.hostZone \in Zone
      BY CaseFacts DEF EntryInv
    <3>3. d \in Int /\ case.received.at \in Int /\ case.sent.at \in Int
      BY <3>2, TimeIsInt, EntryAssumption
    <3>4. now \in Time /\ now.at = case.received.at + d /\ now.zone = case.hostZone
      BY <3>2, <3>3 DEF Time
    <3> HIDE DEF now
    <3>5. e \in Time /\ e.at <= case.sent.at /\ e.zone \in {case.sent.zone, case.hostZone}
      BY <3>2, <3>3, <3>4
    <3>6. stored' = <<Stored(e)>>
      BY <3>1 DEF now
    <3> QED
      BY <2>1, <3>5, <3>6 DEF StoredForMail
  <2> QED
    BY <1>a, <2>1, <2>2
    DEF EntryInv, AccountsSoFar, NamesLed, NamesSoFar, AccountIsConfigured, FailedIsFoundAgain
<1>8. CASE Search
  <2>1. TypeOK' /\ case' = case /\ pc' \in {"foundAgain", "lost"}
    BY <1>8 DEF EntryInv, Search, TypeOK, user
  <2>2. ASSUME InReach(case.sent.zone), InReach(case.hostZone)
        PROVE  Matches(Since(stored[1]), case.received)
    <3>1. PICK e \in Time : /\ stored = <<Stored(e)>> /\ e.at <= case.sent.at
                            /\ e.zone \in {case.sent.zone, case.hostZone}
      BY <1>8 DEF EntryInv, StoredForMail, Search
    <3>2. case.sent.at \in Int /\ case.received \in Time
      BY CaseFacts, TimeIsInt DEF EntryInv
    <3>3. InReach(e.zone)
      BY <2>2, <3>1
    <3>4. Matches(Since(Stored(e)), case.received)
      BY <3>1, <3>2, <3>3, SearchReaches DEF InReach
    <3> QED
      BY <3>1, <3>4
  <2>3. FailedIsFoundAgain'
    BY <1>8, <2>1, <2>2 DEF FailedIsFoundAgain, InReach, Search
  <2> QED
    BY <1>a, <2>1, <2>3
    DEF EntryInv, AccountsSoFar, NamesLed, NamesSoFar, StoredForMail, AccountIsConfigured
<1> QED
  BY <1>1, <1>2, <1>3, <1>4, <1>5, <1>6, <1>7, <1>8 DEF Next

(* Every amount that the bank can write, however long and in whatever mix   *)
(* of commas and dots, is entered as it was written.                        *)
THEOREM AmountIsAlwaysRead == Spec => []AmountIsRead
<1>1. EntryInv => AmountIsRead
  BY DEF EntryInv
<1> QED
  BY InitEntryInv, NextEntryInv, <1>1, PTL DEF Spec

(* For every user, mail and order of Go's range over the mapping, an entry  *)
(* has the account getAccountsMapping was configured to give it, or one     *)
(* that a mapping with chains leads to.                                     *)
THEOREM AccountIsAlwaysConfigured == Spec => []AccountIsConfigured
<1>1. EntryInv => AccountIsConfigured
  BY DEF EntryInv
<1> QED
  BY InitEntryInv, NextEntryInv, <1>1, PTL DEF Spec

(* For every clock, zone, delay and date, a failed mail in reach is found   *)
(* by the search that starts from the date saveLastExecutionDate stored.    *)
THEOREM FailedIsAlwaysFoundAgain == Spec => []FailedIsFoundAgain
<1>1. EntryInv => FailedIsFoundAgain
  BY DEF EntryInv
<1> QED
  BY InitEntryInv, NextEntryInv, <1>1, PTL DEF Spec
=============================================================================
