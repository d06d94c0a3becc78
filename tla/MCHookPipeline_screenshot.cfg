SPECIFICATION Spec
CONSTANTS
  Consumers = {"capture", "hotkey"}
  SlotCount = 3
  MaxPresents = 4
  MaxResizes = 0
  MaxRestarts = 0
PROPERTIES
  DeliversInOrder
