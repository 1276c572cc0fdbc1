CONSTANTS
  NoItem = NoItem
  Values = {a, b}
  Capacity = 2
SPECIFICATION ReorderedSpec
PROPERTY PopsElements
