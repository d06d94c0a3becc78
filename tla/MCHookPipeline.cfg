SPECIFICATION Spec
CONSTANTS
  Consumers = {"capture"}
  SlotCount = 3
  MaxPresents = 6
  MaxResizes = 1
  MaxRestarts = 1
INVARIANTS
  NoTornFrame
  NoLostWakeup
PROPERTIES
  DeliversInOrder
  ImplementsQueue
  RingIsDrained
