SPECIFICATION PanelSpec
CONSTANTS
    c1 = c1
    c2 = c2
    x = x
    Cards = {c1, c2}
    Fields = {x}
    Approvals <- TwoCards
    Amounts = {1, 2}
    MaxClicks = 2
    MaxChanges = 1
    MaxRefreshes = 1
INVARIANT SendsAfterApprovals
CHECK_DEADLOCK FALSE
