SPECIFICATION Spec
CONSTANTS
  Requests = {r1, r2}
  Tenants <- MCTenants
  NoTenant = "default"
  Names <- MCNames
  NoName = ""
  Lower <- MCLower
  Id <- MCId
  Slug <- MCSlug
  Inputs <- MCInputs
  SetTenants <- MCSetTenants
  Announced = {"two"}
INVARIANTS OwnDatabase AcceptedWasDelivered DeliveredStaysKnown
PROPERTY DefaultOnlyIfNotListed
SYMMETRY Symmetry
CHECK_DEADLOCK FALSE
