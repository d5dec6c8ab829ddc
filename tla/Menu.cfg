SPECIFICATION Spec
CONSTANTS
  Configs <- SomeConfigs
  Capacity <- SmallCapacity
  BootSize = 2
  TablesOf <- SomeTables
  MaxParts = 2
  Base = 3
  Digits = 2
  U32 = 9
  Weight <- SmallWeight
  IsT210 = TRUE
INVARIANTS TypeOK MenuMountsSet MountedInside ShownIsMounted SelectedLives PartToggleDivides
           SelectorBounded
CHECK_DEADLOCK FALSE
