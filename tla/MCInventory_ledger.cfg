SPECIFICATION Spec
CONSTANTS
  soap = soap
  wax = wax
  store = store
  van = van
  j1 = j1
  wash = wash
  polish = polish
  k1 = k1
  k2 = k2
  k3 = k3
  k4 = k4
  team = team
  helpers = helpers
  crew = crew
  helper = helper
  s1 = s1
  s2 = s2
  Item = {soap, wax}
  Location = {store, van}
  Job = {j1}
  Service = {wash, polish}
  Session = {s1, s2}
  Request <- Requests
  Performed <- TwoServices
  JobTeam <- ToTeam
  JobStaff <- ToHelper
  TeamsOf <- Memberships
  MainLocation = {store}
  Templates <- Recipes
  Retirable = {store, wax}
  NoLocation = NoLocation
  NoJob = NoJob
  NoTeam = NoTeam
  NoRequest = NoRequest
INVARIANTS LedgerExplainsStock CompletionAccounted
PROPERTIES ManualUsageCountsFirst HistoryIsKept
