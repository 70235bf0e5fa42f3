SPECIFICATION StockSpec
CONSTANTS
    r1 = r1  r2 = r2  po = po  so = so
    grn1 = grn1  grn2 = grn2  dsp1 = dsp1  dsp2 = dsp2  s1 = s1
    None = None
    Requests = {r1, r2}
    MaxRequests = 4
    Periods = {"may"}
    MaxPeriodMoves = 2
    Serials = {s1}
    PurchaseOrders = {po}
    SalesOrders = {so}
    Receipts = {grn1, grn2}
    Dispatches = {dsp1, dsp2}
    Ordered <- MCOrdered
    Lines <- MCLines
    Opening = 1
    MaxAdjustments = 1
SYMMETRY Symmetry
INVARIANTS StockIsSound DocumentsTakeEffectOnce
CHECK_DEADLOCK FALSE
