SPECIFICATION FairSpec
CONSTANTS
  Teams = {t1}
  Images = {i1, i2}
  Hosts = {gateway}
  Gateway = gateway
  Outer = gateway
  HostImages = {h1, h2}
PROPERTIES
  RepairConverges
