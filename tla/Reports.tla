------------------------------- MODULE Reports -------------------------------
(***************************************************************************)
(* The financial statements: what the report endpoints compute from the    *)
(* journal (ReportRepository), and what generate_statement_task would      *)
(* cache (SyncReportRepository; nothing calls the task).  A date is a      *)
(* period, a number here; all periods are of one fiscal year.              *)
(***************************************************************************)
EXTENDS Ledger

ASSUME ReportsAssumption == Periods \subseteq Nat

\* STARTER_COA: the first digit of an account's code is its type.
TypeOf == [asset     |-> {"1020", "1100", "1200"},
           liability |-> {"2100", "2200"},
           equity    |-> {},
           revenue   |-> {"4100", "4200"},
           cogs      |-> {"5100", "5200"},
           opex      |-> {"6500"}]

PostedBy(date) == {i \in PostedEntries : journal[i].date <= date}

\* SUM(dr) - SUM(cr) over the posted lines of a type.
NetAmount(type, date) ==
    LET sums == LineSums(PostedBy(date), TypeOf[type]) IN sums.dr - sums.cr

FiscalYearEnd == Max(Periods)

MagnitudeOf(n) == IF n < 0 THEN -n ELSE n

\* trial_balance: the conditions on the entry are part of an outer join, and the
\* sums are over the lines: neither the date nor the status takes a line out.
trial_balance(as_of_date) ==
    [a \in Accounts |-> LET sums == LineSums(DOMAIN journal, {a}) IN sums.dr - sums.cr]

profit_and_loss ==
    LET revenue == -NetAmount("revenue", FiscalYearEnd)
        cogs    == NetAmount("cogs", FiscalYearEnd)
        opex    == NetAmount("opex", FiscalYearEnd)
    IN  [revenue |-> revenue, cogs |-> cogs, opex |-> opex,
         gross_profit |-> revenue - cogs, net_profit |-> revenue - cogs - opex]

\* Fault: expenses of the year are left in the accounts that nobody adds up.
SheetWithoutOpex(as_of_date) ==
    LET liabilities == -NetAmount("liability", as_of_date)
        equity      == -NetAmount("equity", as_of_date)
        retained    == -NetAmount("revenue", as_of_date) - NetAmount("cogs", as_of_date)
    IN  [assets |-> NetAmount("asset", as_of_date), liabilities |-> liabilities,
         equity |-> equity + retained, retained_earnings |-> retained,
         total_liabilities_and_equity |-> liabilities + equity + retained]

balance_sheet(as_of_date) ==
    LET liabilities == -NetAmount("liability", as_of_date)
        equity      == -NetAmount("equity", as_of_date)
        retained    == -NetAmount("revenue", as_of_date) - NetAmount("cogs", as_of_date)
                                                         - NetAmount("opex", as_of_date)
    IN  [assets |-> NetAmount("asset", as_of_date), liabilities |-> liabilities,
         equity |-> equity + retained, retained_earnings |-> retained,
         total_liabilities_and_equity |-> liabilities + equity + retained]

\* Fault: the sign that the task's sums have is forgotten.
TaskProfitRaw ==
    LET revenue == -NetAmount("revenue", FiscalYearEnd)
        cogs    == -NetAmount("cogs", FiscalYearEnd)
        opex    == -NetAmount("opex", FiscalYearEnd)
    IN  [revenue |-> revenue, cogs |-> cogs, opex |-> opex,
         gross_profit |-> revenue - cogs, net_profit |-> revenue - cogs - opex]

\* The same two as the task computes them: costs are taken off by their size, and
\* the profit of the year is not part of equity.
task_profit_and_loss ==
    LET revenue == -NetAmount("revenue", FiscalYearEnd)
        cogs    == -NetAmount("cogs", FiscalYearEnd)
        opex    == -NetAmount("opex", FiscalYearEnd)
    IN  [revenue |-> revenue, cogs |-> cogs, opex |-> opex,
         gross_profit |-> revenue - MagnitudeOf(cogs),
         net_profit |-> revenue - MagnitudeOf(cogs) - MagnitudeOf(opex)]

task_balance_sheet(as_of_date) ==
    LET liabilities == MagnitudeOf(NetAmount("liability", as_of_date))
        equity      == NetAmount("equity", as_of_date)
    IN  [assets |-> NetAmount("asset", as_of_date), liabilities |-> liabilities,
         equity |-> equity, total_liabilities_and_equity |-> liabilities + equity]

----------------------------------------------------------------------------
(* Properties.                                                             *)

\* "What makes a mid-year balance sheet tie without requiring a closing entry":
\* at every date, whatever is reversed or posted late, assets are liabilities and
\* equity; the earnings it retains are the profit of the P&L.
BalanceSheetTies ==
    /\ \A d \in Periods :
          LET sheet == balance_sheet(d) IN sheet.assets = sheet.total_liabilities_and_equity
    /\ balance_sheet(FiscalYearEnd).retained_earnings = profit_and_loss.net_profit

Reversed == \E i \in DOMAIN journal : journal[i].status = "reversed"

\* Where the reports that compute the same thing twice differ.  The two trial
\* balances agree, at the end of the year, as long as nothing has been reversed;
\* the two P&Ls, as long as no kind of cost is in credit; and the task's balance
\* sheet is out by the year's profit, as long as no liability is in debit.
ReportsDifferOnlyThere ==
    /\ (\A i \in DOMAIN journal : journal[i].status = "posted") =>
          \A a \in Accounts : trial_balance(FiscalYearEnd)[a] = Balance(a)
    /\ (\A type \in {"cogs", "opex"} : NetAmount(type, FiscalYearEnd) >= 0) =>
          task_profit_and_loss.net_profit = profit_and_loss.net_profit
    /\ \A d \in Periods :
          LET task == task_balance_sheet(d) IN
          NetAmount("liability", d) <= 0 =>
              task.assets - task.total_liabilities_and_equity = balance_sheet(d).retained_earnings

=============================================================================
