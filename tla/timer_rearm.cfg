SPECIFICATION DeviceSpec
CONSTANTS
  CounterMax = 3
  Delay = {0, 2}
  Irq = {26}
  MAX_IRQ = 1020
  TIMER_IRQ = 26
PROPERTY DeadlineServed
