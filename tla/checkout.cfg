SPECIFICATION Spec
CONSTANTS
  NoCart = NoCart
  Carts = {c1, c2}
  Requests = {r1, r2}
  Wants <- MCWants
  Prices <- MCPrices
  Discount = 1
  Flat = 1
  Tolerance = 1
  Portions = 1
  Balance = 6
  CouponLimit = 1
  MaxOrders = 2
SYMMETRY Symmetry
INVARIANTS
  NeverOversold
  OneOrderUnlessRaced
  InvoicesUnbroken
  ChargedIsPaid
  CapturedIsKnown
