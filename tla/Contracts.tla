----------------------------- MODULE Contracts ------------------------------
(***************************************************************************)
(* The rows of the contract table and the operations that make the next    *)
(* row of a chain out of the row that was read.                            *)
(*                                                                         *)
(* An operation that the code may refuse is the set of the rows it can     *)
(* yield: empty where it fails.  Every operation works on the row the      *)
(* caller has read, however stale; Replace says what is written.           *)
(***************************************************************************)
EXTENDS Integers, Sequences, FiniteSets, FiniteSetsExt

CONSTANT Unset   \* a null column: no team, no previous row

DevelopmentKinds == {"RD", "RDI"}
CountedKinds == {"Rookie", "RookieExtension", "Veteran"}
ExpiringKinds == {"RFA", "UFA-OriginalTeam", "UFA-FreeAgent"}
Kinds == DevelopmentKinds \cup CountedKinds \cup ExpiringKinds \cup {"FreeAgent"}
Statuses == {"Active", "Replaced", "Expired"}

\* The years a row of each kind may be in; any year goes for the kinds that are not listed.
ValidYears ==
  [kind \in Kinds \ (ExpiringKinds \cup {"FreeAgent"}) |->
     IF kind = "RDI" THEN 1..20 ELSE IF kind = "RookieExtension" THEN 4..5 ELSE 1..3]
YearAllowed(c) == c.kind \in DOMAIN ValidYears => c.year \in ValidYears[c.kind]

\* The same amount with a percentage of it, rounded away from zero, on top or off.
Percent(salary, p) == (salary * p + 99) \div 100
RaisedBy20(salary) == salary + Percent(salary, 20)

\* The row that comes after c in its chain, as c with some columns set.
After(c) == [c EXCEPT !.prev = c.id]
Live(c) == c.status = "Active"

\* The row, provided that the operation's checks pass.
Provided(ok, row) == {r \in {row} : ok}

-----------------------------------------------------------------------------
(* A new season *)

\* What each term turns into, and what becomes of the salary.
Term(kind, year, nextKind, nextYear, pay) ==
  [kind |-> kind, year |-> year, next |-> [kind |-> nextKind, year |-> nextYear], pay |-> pay]
Terms ==
  {Term("RD", 1, "RD", 2, "same"), Term("RD", 2, "RD", 3, "same"), Term("RD", 3, "Rookie", 2, "same"),
   Term("Rookie", 1, "Rookie", 2, "raised"), Term("Rookie", 2, "Rookie", 3, "raised"),
   Term("Rookie", 3, "RFA", 3, "raised"),
   Term("RookieExtension", 4, "RookieExtension", 5, "raised"),
   Term("RookieExtension", 5, "UFA-OriginalTeam", 1, "open"),
   Term("Veteran", 1, "Veteran", 2, "raised"), Term("Veteran", 2, "Veteran", 3, "raised"),
   Term("Veteran", 3, "UFA-FreeAgent", 1, "open")}
  \cup {Term("RDI", year, "RDI", year + 1, "same") : year \in 1..20}

\* calculate_yearly_salary_increase: an unrestricted free agent's salary is open until he is signed.
PayOf(pay, salary) == IF pay = "raised" THEN RaisedBy20(salary) ELSE IF pay = "open" THEN 1 ELSE salary

\* create_advancement_for_contract: no term follows an RFA, a UFA or a free agent.
Advanced(c) ==
  {[After(c) EXCEPT !.kind = t.next.kind, !.year = t.next.year, !.ir = FALSE,
                    !.season = c.season + 1, !.salary = PayOf(t.pay, c.salary)] :
     t \in {t \in Terms : Live(c) /\ t.kind = c.kind /\ t.year = c.year}}

\* expire_contract
ExpiredRow(c) ==
  Provided(Live(c),
    [After(c) EXCEPT !.kind = "FreeAgent", !.year = 1, !.ir = FALSE, !.salary = 1,
                     !.status = "Expired", !.team = Unset])

-----------------------------------------------------------------------------
(* Drops, injured reserve, development *)

\* create_dropped_contract: a counted contract stays alive, at its salary, once keepers are settled.
Dropped(c, beforeKeepers) ==
  LET survives == c.kind \in CountedKinds /\ ~beforeKeepers IN
  Provided(Live(c) /\ c.kind # "FreeAgent",
    [After(c) EXCEPT !.kind = "FreeAgent", !.year = 1, !.team = Unset,
                     !.salary = IF survives THEN c.salary ELSE 1,
                     !.status = IF survives THEN "Active" ELSE "Expired"])

\* move_to_ir and activate_from_ir copy the row, its status included.
WithIr(c, ir) == {[After(c) EXCEPT !.ir = ir]}

\* create_rookie_contract_from_rd
ActivatedRookie(c) ==
  Provided(Live(c) /\ c.kind \in DevelopmentKinds, [After(c) EXCEPT !.kind = "Rookie", !.year = 1])

\* create_rdi_contract_from_rd and create_rd_contract_from_rdi: the copy keeps the previous row's id too.
MovedAbroad(c) == Provided(c.kind = "RD", [c EXCEPT !.kind = "RDI", !.year = 1])
MovedBack(c) == Provided(c.kind = "RDI", [c EXCEPT !.kind = "RD", !.year = 1])

\* has_legalized_rd_ancestor: a chain that has been RD past its first year or in an earlier season.
LegalizedRd(chain, season) == \E c \in chain : c.kind = "RD" /\ (c.year > 1 \/ c.season < season)

\* trade_contract_to_team
Traded(c, team) == {[After(c) EXCEPT !.team = team]}

-----------------------------------------------------------------------------
(* Signings *)

\* discounted_salary: some percent off, rounded up, at most cap dollars; never below one dollar.
\* (For i16 amounts the code's f32 product rounds to the exact integer when there is one.)
Discounted(bid, percent, cap) == Max({bid - Min({Percent(bid, percent), cap}), 1})
NoCap == 32767   \* i16::MAX

\* sign_rfa_or_ufa_contract_to_team, by the re-sign exception the signing team has.
SignedFreeAgent(c, team, amount, exception) ==
  LET as(kind, year, salary) ==
        {[After(c) EXCEPT !.kind = kind, !.year = year, !.salary = salary, !.team = team]}
      off10 == Discounted(amount, 10, NoCap)
      signable == Live(c) /\ c.kind \in ExpiringKinds
  IN IF ~signable \/ (exception = "HeldNoBid" /\ c.kind # "RFA") THEN {}
     ELSE IF exception = "NotHeld" THEN as("Veteran", 1, amount)
     ELSE CASE c.kind = "RFA" ->
                 as("RookieExtension", 4, IF exception = "Held" THEN Max({off10, c.salary}) ELSE off10)
            [] c.kind = "UFA-OriginalTeam" -> as("Veteran", 1, Discounted(amount, 20, 8))
            [] c.kind = "UFA-FreeAgent" -> as("Veteran", 1, Discounted(amount, 10, 5))

\* sign_veteran_contract
SignedVeteran(c, team, amount) ==
  Provided(Live(c) /\ c.kind \in {"Veteran", "FreeAgent"},
    [After(c) EXCEPT !.kind = "Veteran", !.year = 1, !.ir = FALSE, !.salary = amount, !.team = team])

\* sign_auction_contract_to_team (contract_queries): which signing a won contract takes.
SignedAtAuction(c, team, amount, exception) ==
  IF c.kind \in ExpiringKinds THEN SignedFreeAgent(c, team, amount, exception)
  ELSE SignedVeteran(c, team, amount)

\* new_contract_from_rookie_draft and new_contract_for_auction: a chain of its own.
FirstRow(id, player, kind, salary, season, team) ==
  [id |-> id, player |-> player, kind |-> kind, year |-> 1, salary |-> salary, season |-> season,
   ir |-> FALSE, status |-> "Active", team |-> team, prev |-> Unset, orig |-> id]
Drafted(id, player, salary, season, team) == FirstRow(id, player, "RD", salary, season, team)
UpForAuction(id, player, season) == FirstRow(id, player, "FreeAgent", 1, season, Unset)

-----------------------------------------------------------------------------
(* Chains: the table is the sequence of the rows, by id *)

ChainOf(table, c) == {table[i] : i \in {i \in DOMAIN table : table[i].orig = c.orig}}
IsLatest(table, c) == \A x \in ChainOf(table, c) : x.id <= c.id

\* The unique index: one Active row of a player per season.  Players of the league's own making have
\* no player_id, and NULLs are distinct.
UniqueActive(table, players) ==
  \A i, j \in DOMAIN table :
    /\ Live(table[i]) /\ Live(table[j]) /\ table[i].player = table[j].player
    /\ table[i].season = table[j].season /\ table[i].player \in players
    => i = j

\* The new row under the id of the one it replaces; the row read left as it is.
MutReplaceId(table, c, new) == Append([table EXCEPT ![c.id].status = "Replaced"], new)
MutReplaceStatus(table, c, new) == Append(table, [new EXCEPT !.id = Len(table) + 1])

\* add_replacement_contract_to_chain: the row read becomes Replaced, whatever has become of it since,
\* and the new row is added as it was computed.
Replace(table, c, new) ==
  Append([table EXCEPT ![c.id].status = "Replaced"], [new EXCEPT !.id = Len(table) + 1])
=============================================================================
