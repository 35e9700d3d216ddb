CONSTANTS
  Thread = {t1, t2}
  Entry = {a1, a2, a3}
  Block = {b1, b2, b3}
  Sizes = {1, 2}
  SizeMod = 5
  MaxCalls = 6
  NULL = NULL
  Device = {a1, a2, a3}
  Schema = {b1, b2, b3}
  Home = Home
  Office = Office
  Namespace = {Home, Office}
  Override = Override
  Lamp = Lamp
  Hub = Hub
  Plug = Plug
  Model = {Lamp, Hub, Plug}
  temp = temp
  door = door
  bulb = bulb
  Declares <- MCDeclares
  Top <- MCTop
  Inner <- MCInner
  MaxCreates = 4
  MaxValues = 3
  None = None
SPECIFICATION ServicesSpec
SYMMETRY Symmetry
INVARIANT FreeIsThreadSafe
CHECK_DEADLOCK FALSE
