CONSTANTS
  th1 = th1
  th2 = th2
  th3 = th3
  Threads = {th1, th2, th3}
  Cap = 2
  MaxSnaps = 4
  adm1 = adm1
  adm2 = adm2
  adm3 = adm3
  del1 = del1
  del2 = del2
  pkg1 = pkg1
  Admits = {adm1, adm2, adm3}
  Terminates = {del1, del2}
  Packages = {pkg1}
  NoCall = NoCall
  ten1 = ten1
  ten2 = ten2
  ten3 = ten3
  TenantIds = {ten1, ten2, ten3}
  MaxTenants = 2
  nod1 = nod1
  nod2 = nod2
  Nodes = {nod1, nod2}
  NoSnapshot = NoSnapshot
  MaxPublished = 2
  dict1 = dict1
  dict2 = dict2
  txt1 = txt1
  txt2 = txt2
  key1 = key1
  key2 = key2
  Payloads = {dict1, dict2}
  Texts = {txt1, txt2}
  Keys = {key1, key2}
  MaxSigned = 2
SPECIFICATION HubSpec
INVARIANTS
  LatestPerNode
CHECK_DEADLOCK FALSE
