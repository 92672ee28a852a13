CONSTANTS
  w1 = w1
  Products = {1, 2}
  Workers = {w1}
  Prices = {1, 3, 5}
  BadPrices = {}
  WidePrices = {5}
  Quantities = {2}
  Linked = {1}
  Policy = "ODOO_WINS"
  BatchSize = 1
  Kinds = {"full", "ids"}
  Acts = {"odoo", "archive", "local", "delete", "resolve", "form"}
  EditsDuring = TRUE
  MaxActs = 2
  MaxStops = 1
SPECIFICATION FairSpec
PROPERTY Converges
