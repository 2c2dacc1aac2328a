SPECIFICATION FairSpec
CONSTANTS
  Teams = {t1, t2}
  Images = {i1, i2}
  Hosts = {gateway}
  Gateway = gateway
  Outer = gateway
  HostImages = {h1}
PROPERTIES
  SuccessIsReal
  RepairConvergesUnlessHollow
