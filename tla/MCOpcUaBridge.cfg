CONSTANTS
  c1 = c1
  c2 = c2
  c3 = c3
  d1 = d1
  d2 = d2
  d3 = d3
  d4 = d4
  t1 = t1
  t2 = t2
  t3 = t3
  t4 = t4
  a1 = a1
  a2 = a2
  bad = bad
  Absent = Absent
  Unbuilt = Unbuilt
  Channels = {c1, c2, c3}
  Devices = {d1, d2, d3, d4}
  Tags = {t1, t2, t3, t4}
  Addresses = {a1, a2, bad}
  Values = {0, 1}
  Key <- MCKey
  Poll = {c2}
  ChannelOf <- MCChannelOf
  DeviceOf <- MCDeviceOf
  TagOrder <- MCTagOrder
  Valid = {a1, a2}
  Accesses = {"ro", "rw"}
  Wide = {t2}
  Initial <- MCInitial
  MaxEdits = 2
  MaxEvents = 2
  MaxInbox = 1
SPECIFICATION MCSpec
PROPERTIES
  RoutedToOwner
  LossReachesAll
  WritesFollowConfig
CHECK_DEADLOCK FALSE
