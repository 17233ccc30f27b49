------------------------------- MODULE MC_Entry -------------------------------
(***************************************************************************)
(* Three families of mails: amounts of one to seven digits around each     *)
(* change of grouping; accounts that share numbers and mappings with and   *)
(* without chains; dates around midnight, clocks that are off, and zones.  *)
(***************************************************************************)
EXTENDS Entry

Plain == [pesos |-> 100000, cents |-> NoCents, group |-> Comma, mark |-> Dot,
          type |-> "expense", account |-> "1234",
          sent |-> [at |-> 0, zone |-> -5 * Hour], received |-> [at |-> 0, zone |-> 0],
          hostZone |-> 0, timeLocale |-> -5 * Hour,
          user |-> [accounts |-> <<{"1234"}>>, mapping |-> <<>>]]

MCPesos == {0, 5, 10, 99, 100, 999, 1000, 1001, 9999, 10000, 30000, 100000,
            112400, 999999, 1000000, 1234567}
MCCents == {0, 5, 50, 99, NoCents}

AmountCases ==
  {[Plain EXCEPT !.pesos = p, !.cents = c, !.group = g, !.mark = m, !.type = t] :
     p \in MCPesos, c \in MCCents, g \in Separator \cup {NoGroup}, m \in Separator,
     t \in {"income", "expense"}}

MCName == {"1234", "5678", "AHORROS"}
Mappings == UNION {[K -> MCName] : K \in SUBSET MCName}

AccountCases ==
  {[Plain EXCEPT !.account = n, !.user = [accounts |-> a, mapping |-> f]] :
     n \in MCName, f \in Mappings,
     a \in {<<{"1234"}, {"1234", "5678"}, {}>>, <<{"5678"}, {"1234"}>>, <<{"1234"}>>}}

Zones == {-8 * Hour, -5 * Hour, 0, 14 * Hour}
Midnights == {k * 6 * Hour + s : k \in -2..2, s \in {-1, 0, 59}}

DateCases ==
  {[Plain EXCEPT !.sent = [at |-> r + d, zone |-> z], !.received = [at |-> r, zone |-> s],
                 !.hostZone = h] :
     r \in Midnights, d \in {-DayLen, -1, 0, 3 * Hour, 20 * Hour}, z \in Zones, s \in Zones,
     h \in {-5 * Hour, 0}}

MCCases == AmountCases \cup AccountCases \cup DateCases
MCElapsed == {0, 100, 30 * Hour}
=============================================================================
