\* Cycles with readings and plugins of up to a second, of which any may raise; a
\* disk or an interface that leaves and may return, a reload(), and a plugin
\* whose interval may be no number.
SPECIFICATION CycleSpec
CONSTANTS
  usb = usb
  lo = lo
  wlan = wlan
  Files <- Directory
  Careless = {"disk"}
  RunTime = 1
  MaxStep = 0
  MaxTime = 4
  MaxReloads = 1
  Disks = {usb}
  Nics = {lo, wlan}
  Removable = {usb, wlan}
  MetricInterval = 1
  CollectTime = 1
  Busy = {usb, wlan}
  MaxGrowth = 1
  MaxUnplugged = 1
  Null = Null
INVARIANTS CycleTypeOK EveryPluginAnswers
PROPERTIES AtMostOncePerInterval RatesAddUp
CHECK_DEADLOCK FALSE
