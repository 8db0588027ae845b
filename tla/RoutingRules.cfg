SPECIFICATION Spec
CONSTANTS
  n1 = n1
  n2 = n2
  d1 = d1
  s1 = s1
  Default = Default
  NoNode = NoNode
  Nodes = {n1, n2}
  Domains = {d1}
  Rulesets <- MCRulesets
  Admins = {a1}
  Sends = {s1}
  DomainOf <- MCDomainOf
  MaxVersions = 3
INVARIANTS
  TypeOK PinIsExplained RunKeepsVersion
PROPERTY DeletedStaysOut
