SPECIFICATION Spec
CHECK_DEADLOCK FALSE
CONSTANTS
  a = a  b = b  alice = alice  bob = bob  carol = carol
  finding = finding  draft = draft
  Home = {a, b}
  Agent = {alice, bob, carol}
  Operator <- MCOperator
  Claim = {finding, draft}
  Author <- MCAuthor
  Screened = {finding}
  Review <- MCReview
  Resolution <- MCResolution
  Result <- MCResult
  Runs <- MCRuns
  Policies <- MCPolicies
  Admits <- MCAdmits
  TrustedVerifiers <- MCTrustedVerifiers
  TrustedResolvers <- MCTrustedResolvers
  AllowSameOperator = {b}
  AllowSameOperatorResolve = {}
PROPERTY ReviewsDoNotSetRelyOk
