SPECIFICATION Spec
CONSTANTS
  Names <- MCNames
  Right <- MCRight
  Params = {"k", "x"}
  Maps <- MCMaps
  Sources = {"orders", "loose"}
  Schema <- MCSchema
  Found <- MCFound
  Targets <- MCTargets
  MaxTasks = 4
INVARIANTS FieldsAsInferred NeverRaises SchemaRuleFits
CHECK_DEADLOCK FALSE
