SPECIFICATION Spec
CONSTANTS
    r1 = r1  r2 = r2  bil1 = bil1  bil2 = bil2  pay1 = pay1  pay2 = pay2  dbn1 = dbn1
    inv1 = inv1  inv2 = inv2  pmt1 = pmt1  pmt2 = pmt2
    None = None
    Manual = Manual
    Requests = {r1, r2}
    MaxRequests = 4
    Periods = {1, 2}
    MaxPeriodMoves = 2
    Bills = {bil1, bil2}
    SupplierPayments = {pay1, pay2}
    DebitNotes = {dbn1}
    Invoices = {inv1, inv2}
    CustomerPayments = {pmt1, pmt2}
    BillLimit = 1
    InvoiceLimit = 1
    Total <- MCTotal
    Amount <- MCAmount
    Date <- MCDate
    DaysOverdue <- MCDaysOverdue
    Scenarios <- MCScenarios
    ManualLines <- MCManualLines
SYMMETRY Symmetry
INVARIANTS Gapless BooksAgree
PROPERTY NothingComesLate
CHECK_DEADLOCK FALSE
