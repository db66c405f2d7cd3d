\* Every command of the controller, the keyboard and the mouse, in any order.
SPECIFICATION FairSpec
CONSTANTS
  Ring = 4
  MaxWaiting = 1
  Controls <- SomeControls
  KbdCommands <- SomeKeyboard
  MouseCommands <- MouseCommandSet
  RamWrites <- NoneOrBoth
  FlushesFirst = TRUE
INVARIANTS TypeOK NothingStuck NoSilentByte
PROPERTIES AllRead
