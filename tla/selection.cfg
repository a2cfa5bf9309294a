CONSTANTS
  a = a
  b = b
  c = c
  Packages = {a, b, c}
  Systems <- MCSystems
  Menus <- MCMenus
  Parts <- MCParts
SPECIFICATION Spec
INVARIANTS
  UnneededExact
  MenuObeyed
CHECK_DEADLOCK FALSE
