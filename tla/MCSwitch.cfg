SPECIFICATION SwitchSpec
CONSTANTS
  Chips <- Builds
  Ports = {0, 6}
  Kinds = {"IFH", "VSH"}
  Values <- MCValues
  MaxPuts = 2
INVARIANTS SwitchTypeOK RightRegister FieldsReadBack
