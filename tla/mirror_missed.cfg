CONSTANTS
  w1 = w1
  Products = {1, 2}
  Workers = {w1}
  Prices = {1, 3}
  BadPrices = {}
  WidePrices = {}
  Quantities = {2}
  Linked = {}
  Policy = "MANUAL"
  BatchSize = 1
  Kinds = {"full", "delta"}
  Acts = {"odoo"}
  EditsDuring = TRUE
  MaxActs = 1
  MaxStops = 0
SPECIFICATION Spec
INVARIANT NothingMissed
