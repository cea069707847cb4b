\* the keyboard and the floppy controller on the master, the mouse on the slave
CONSTANTS
    Devices = {1, 6, 12}
    MaxRaise = 2
SPECIFICATION InterruptSpec
INVARIANTS
    OnlyCascadeStuck
PROPERTIES
    EveryRequestServed
\* the devices raise their lines a bounded number of times
CHECK_DEADLOCK FALSE
