SPECIFICATION Spec
CONSTANTS
    a1 = a1  a2 = a2  o1 = o1  o2 = o2
    Refreshers = {o1}
    Servers = {a1}
    MaximumAge = 1
    MaxVersion = 3
    RowCount <- Rows
INVARIANTS ReceiptNamesItsData
