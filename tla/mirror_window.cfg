CONSTANTS
  w1 = w1
  w2 = w2
  Products = {1, 2, 3}
  Workers = {w1, w2}
  Prices = {1, 9}
  BadPrices = {9}
  WidePrices = {9}
  Quantities = {2}
  Linked = {1}
  Policy = "ODOO_WINS"
  BatchSize = 2
  Kinds = {"full", "delta"}
  Acts = {"odoo", "archive", "mark"}
  EditsDuring = FALSE
  MaxActs = 3
  MaxStops = 1
SPECIFICATION Spec
SYMMETRY Symmetry
INVARIANT TypeOK
INVARIANT EveryFetchedMirrored
INVARIANT NothingMissed
INVARIANT PassedAreMirrored
