SPECIFICATION Spec
CONSTANTS
  Names = {"x", "y"}
  Params <- SomeParams
  Bindings <- SomeBindings
  ForLists <- SomeForLists
  Leaves <- LeafForms
  Forms <- AllForms
  MaxForms = 2
  MaxReads = 2
  MaxItems = 1
  KeysBind = FALSE
  TailMore = FALSE
INVARIANT TypeOK
INVARIANT SlotsExact
INVARIANT UpvaluesLead
INVARIANT NamesResolve
INVARIANT HeightsMeet
INVARIANT NamespaceSound
