SYMMETRY Symmetry
CONSTANTS
    Requisitions = {1}
    Orders = {11, 12}
    Rfqs = {1}
    Receipts = {1, 2}
    Returns = {1, 2}
    Instances = {1, 2, 3}
    Suppliers = {s1, s2}
    Requests = {p1, p2}
    MaxQuantity = 2
    None = None
SPECIFICATION Spec
INVARIANTS SpendIsApproved GoodsBalance SubmissionsAreWhole
CONSTRAINT Focus
CHECK_DEADLOCK FALSE
